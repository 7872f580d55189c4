--------------------------------- MODULE Driver ----------------------------------
(***************************************************************************)
(* main.cc, the driver of the contest: for every branch it asks the trace  *)
(* reader (the judge, TraceReader) for a record, the predictor for a       *)
(* prediction, tells the judge, which answers with the outcome, and tells  *)
(* the predictor.  Three parties and one in-out argument: targetaddress    *)
(* carries the predicted target to the judge and the actual one back.      *)
(*                                                                         *)
(* The trace is fixed by Init.  What a branch record holds besides         *)
(* is_conditional is the instruction's field "what", a record of the       *)
(* fields the predictor reads.                                             *)
(***************************************************************************)
EXTENDS Predictor, FiniteSets

CONSTANTS
    INST_DELAY, WORD, Regs, REG_NUL,    \* of the judge's architectural state
    MaxInsts,                           \* bound: instructions in a trace
    Traces                              \* sequences of instructions

Insts == UNION {{t[k] : k \in DOMAIN t} : t \in Traces}

\* What the judge asks of its ring and of instructions, and what is a branch.
ASSUME DriverAssumption ==
    /\ MaxInsts \in Nat
    /\ \A t \in Traces : t \in Seq(Insts) /\ Len(t) <= MaxInsts
    /\ INST_DELAY \in Nat \ {0} /\ WORD \in Nat \ {0} /\ WORD % INST_DELAY = 0
    /\ REG_NUL \notin Regs
    /\ \A inst \in Insts :
        /\ inst.dst \in Regs \cup {REG_NUL}
        /\ inst.is_branch \in BOOLEAN /\ inst.is_conditional \in BOOLEAN
        /\ inst.taken \in BOOLEAN /\ inst.branch_target \in Uint
        /\ inst.is_branch =>
            inst.what \in
                [instruction_addr : Uint \ {EMPTY}, instruction_next_addr : Uint,
                 is_call : BOOLEAN, is_return : BOOLEAN]

VARIABLES
    trace,
    next,               \* the call main makes next
    os, pc, branch_record, truth, prediction, stat, fair    \* of the judge

judgeVars == <<os, pc, branch_record, truth, prediction, stat, fair>>
vars == <<predictorVars, trace, next, judgeVars>>

\* Whatever uint is predicted, the judge compares.
Judge == INSTANCE TraceReader WITH Targets <- Uint

\* The text trace of a trace: its branches, with their outcomes.  LinesUpTo(t)[n] is
\* that of its first n instructions.
Line(inst) ==
    [instruction_addr |-> inst.what.instruction_addr,
     instruction_next_addr |-> inst.what.instruction_next_addr,
     is_call |-> inst.what.is_call, is_return |-> inst.what.is_return,
     is_conditional |-> inst.is_conditional,
     taken |-> inst.taken, actual_addr |-> inst.branch_target]

LinesUpTo(t) ==
    LET lines[n \in 0..Len(t)] ==
            IF n = 0 THEN << >>
            ELSE IF t[n].is_branch THEN Append(lines[n - 1], Line(t[n]))
            ELSE lines[n - 1]
    IN  lines

Lines(t) == LinesUpTo(t)[Len(t)]

Init ==
    /\ trace \in Traces
    /\ PredictorInit(Lines(trace))
    /\ next = "get_branch_record"
    /\ Judge!Init

br ==
    [instruction_addr |-> branch_record.what.instruction_addr,
     instruction_next_addr |-> branch_record.what.instruction_next_addr,
     is_call |-> branch_record.what.is_call,
     is_return |-> branch_record.what.is_return,
     is_conditional |-> branch_record.is_conditional]

\* The judge, at work: a call takes it a step per instruction.
GetBranchRecord ==
    /\ next = "get_branch_record"
    /\ \/ Judge!Score /\ UNCHANGED next
       \/ /\ os.clock < Len(trace)
          /\ Judge!ReadOp(trace[os.clock + 1])
          /\ UNCHANGED next
       \/ /\ os.clock < Len(trace)
          /\ Judge!ReadBranch(trace[os.clock + 1])
          /\ next' = "get_prediction"
       \/ os.clock = Len(trace) /\ Judge!EndOfTrace /\ UNCHANGED next
    /\ UNCHANGED <<predictorVars, trace>>

GetPrediction ==
    /\ next = "get_prediction"
    /\ get_prediction(br)
    /\ next' = "predict_branch"
    /\ UNCHANGED <<trace, judgeVars>>

\* Variant: the judge keeps the actual target to itself.
PredictBranch_NoTarget ==
    /\ next = "predict_branch"
    /\ Judge!PredictBranch(predicted_taken, targetaddress)
    /\ UNCHANGED targetaddress
    /\ next' = "update_predictor"
    /\ UNCHANGED <<env, oraclefd, addr_hist, caches, tables, predicted_taken, trace>>

\* Only a prediction that is taken down is answered with the target.
PredictBranch ==
    /\ next = "predict_branch"
    /\ Judge!PredictBranch(predicted_taken, targetaddress)
    /\ targetaddress' = IF prediction.valid THEN targetaddress ELSE truth.target
    /\ next' = "update_predictor"
    /\ UNCHANGED <<env, oraclefd, addr_hist, caches, tables, predicted_taken, trace>>

\* What predict_branch returned is the judge's is_branch_tkn.
UpdatePredictor ==
    /\ next = "update_predictor"
    /\ update_predictor(br, truth.taken, targetaddress)
    /\ next' = "get_branch_record"
    /\ UNCHANGED <<targetaddress, trace, judgeVars>>

Next == GetBranchRecord \/ GetPrediction \/ PredictBranch \/ UpdatePredictor

Spec == Init /\ [][Next]_vars

--------------------------------------------------------------------------------
(* Properties *)

One(condition) == IF condition THEN 1 ELSE 0

\* The current branch still lacks its prediction; its score is not yet in the
\* judge's statistics; the predictor has not been told.
Uncompared == next \in {"get_prediction", "predict_branch"}
Unscored == prediction.valid /\ pc = "client"
Untrained == Uncompared \/ next = "update_predictor"

\* What the judge's destructor prints, were it called now and had it scored the
\* last prediction.
mis_bpreds ==
    (stat.cc_branches - One(Uncompared /\ branch_record.is_conditional))
        - (stat.correct_bpredicts
             + One(Unscored /\ branch_record.is_conditional /\ Judge!DirectionRight))

mis_tpreds ==
    (stat.branches - One(Uncompared))
        - (stat.correct_tpredicts + One(Unscored /\ Judge!TargetRight))

\* The tester's predicted_addr is not overwritten.
PredictedTarget == IF next = "predict_branch" THEN targetaddress ELSE prediction.target

TextTraces == {Lines(t) : t \in Traces}

\* How the driver's state is the tester's.
Text == INSTANCE Tester WITH
            Texts <- TextTraces,
            lines <- Lines(trace),
            at <- CASE next = "get_branch_record" -> "scanf"
                    [] next = "get_prediction" -> "predict"
                    [] next = "predict_branch" -> "compare"
                    [] next = "update_predictor" -> "update",
            targetaddress <- PredictedTarget,
            num_branches <- stat.branches,
            num_cond <- stat.cc_branches
                            - One(Untrained /\ branch_record.is_conditional),
            missed_predictions <- mis_bpreds,
            missed_dest <- mis_tpreds

\* The driver of the contest and the tester are the same program: on every trace
\* and under every setting they take the same predictor through the same states
\* and count the same mispredictions, although the one learns what became of a
\* branch only from the judge, through an argument it passed in, and is scored a
\* call later, and the other knows it beforehand (main.cc:36, test.cc:59,
\* tread.cc:101).
ImplementsTester == Text!Spec

\* A line as Btb knows branches.
BtbLine(line) ==
    [instruction_addr |-> line.instruction_addr,
     instruction_next_addr |-> line.instruction_next_addr,
     is_call |-> line.is_call, is_return |-> line.is_return,
     target |-> line.actual_addr]

BtbTrace == {BtbLine(Line(inst)) : inst \in {i \in Insts : i.is_branch}}

Predicted == stat.branches - One(next = "get_prediction")
Trained == stat.branches - One(Untrained)

\* How its state is Btb's.
TargetHalf == INSTANCE Btb WITH
            Configs <- Settings,
            Trace <- BtbTrace,
            MaxDepth <- MaxInsts,
            config <- Setup(env),
            phase <- IF next \in {"predict_branch", "update_predictor"}
                     THEN "update" ELSE "predict",
            br <- IF Predicted = 0 THEN Target!NoBranch
                  ELSE BtbLine(Lines(trace)[Predicted]),
            predicted <- PredictedTarget,
            resolved <- LET lines == Lines(trace)
                        IN  {<<lines[k].instruction_addr, lines[k].actual_addr>> :
                                k \in 1..Trained}

\* Under the driver the predictor's target half is the machine of Btb: every
\* prediction is followed by the update of the same branch with its actual target,
\* whatever its class, its outcome and the oracle.  So what is shown of Btb holds
\* in the program.
ImplementsBtb == TargetHalf!Spec

\* "This oracle was capable of perfect prediction of a given branch's
\* taken/not-taken status" (writeup.tex:279): the two readers of the trace stay in
\* step, so the assertion never fires and no direction is wrong.
OracleIsExact ==
    Hooked =>
        /\ next = "get_prediction" => OracleInStep(br)
        /\ next = "predict_branch" => predicted_taken = truth.taken
        /\ mis_bpreds = 0

\* How fast a branch that is always taken is learnt: when it is the only
\* conditional one of a trace, it is mispredicted exactly until the path history is
\* full of it and the counter of that path has moved, whatever other branches and
\* instructions come between.  (The trace of tests/local_test, with 13 of 14.)
Conditionals ==
    LET lines == Lines(trace) IN {k \in DOMAIN lines : lines[k].is_conditional}

OneSteadyBranch ==
    LET lines == Lines(trace)
    IN  \A j, k \in Conditionals :
            /\ lines[k].taken
            /\ lines[k].instruction_addr = lines[j].instruction_addr

SteadyBranchMisses ==
    pc = "done" /\ ~Hooked /\ OneSteadyBranch
        => mis_bpreds = IF Cardinality(Conditionals) <= PATH_BITS
                        THEN Cardinality(Conditionals) ELSE PATH_BITS + 1
================================================================================
