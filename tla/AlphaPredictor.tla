----------------------------- MODULE AlphaPredictor -----------------------------
(***************************************************************************)
(* The direction half of the predictor (alpha_setup, alpha_predict and     *)
(* alpha_update in predictor.cc), after the Alpha 21264: a local           *)
(* predictor indexed by the branch's own history, a global predictor       *)
(* indexed by the history of the path, and a choice predictor, indexed by  *)
(* the path too, that says which of the two is believed.                   *)
(*                                                                         *)
(* Histories are shift registers and are kept as the numbers they are; the *)
(* masks are % 2^width.  As in main.cc, every prediction of a conditional  *)
(* branch is followed by its update.                                       *)
(***************************************************************************)
EXTENDS Integers, Sequences

CONSTANTS
    PC_BITS,        \* address bits that index the local histories: 10
    LOCAL_BITS,     \* width of a local history: 10
    PATH_BITS,      \* width of the path history: 12
    Addrs           \* addresses of conditional branches

ASSUME AlphaAssumption ==
    /\ PC_BITS \in Nat
    /\ LOCAL_BITS \in Nat \ {0}
    /\ PATH_BITS \in Nat \ {0}
    /\ Addrs \subseteq Nat

\* What 2^n is, for the provers, to which ^ has no definition.
ASSUME PowerAssumption ==
    \A n \in 0..(PC_BITS + LOCAL_BITS + PATH_BITS) : 2^(n + 1) = 2 * 2^n

Histories(bits) == 0..(2^bits - 1)

\* Variant: saturates one too high.
inc_cnt_TooHigh(counter, bits) == IF counter < 2^bits THEN counter + 1 ELSE counter

\* A saturating counter of the given number of bits.
inc_cnt(counter, bits) == IF counter < 2^bits - 1 THEN counter + 1 ELSE counter
dec_cnt(counter) == IF counter > 0 THEN counter - 1 ELSE counter

Train(counter, bits, taken) ==
    IF taken THEN inc_cnt(counter, bits) ELSE dec_cnt(counter)

\* Shift the newest outcome in at the low end and mask.
Shift(history, bits, taken) ==
    (2 * history + (IF taken THEN 1 ELSE 0)) % 2^bits

VARIABLES
    local_hist_table,   \* per address slot, the history of its branches
    local_predict,      \* per local history, a 3-bit counter
    global_predict,     \* per path history, a 2-bit counter
    choice_predict,     \* per path history, a 2-bit counter: global from 2 up
    path_history,
    asked               \* the prediction update_predictor is owed, or << >>

tables == <<local_hist_table, local_predict, global_predict, choice_predict,
            path_history>>

PC(addr) == addr % 2^PC_BITS

LocalTaken(addr) == local_predict[local_hist_table[PC(addr)]] >= 4
GlobalTaken == global_predict[path_history] >= 2
UsesGlobal == choice_predict[path_history] >= 2

alpha_predict(addr) == IF UsesGlobal THEN GlobalTaken ELSE LocalTaken(addr)

alpha_setup ==
    /\ local_hist_table = [pc \in Histories(PC_BITS) |-> 0]
    /\ local_predict = [h \in Histories(LOCAL_BITS) |-> 3]
    /\ global_predict = [h \in Histories(PATH_BITS) |-> 1]
    /\ choice_predict = [h \in Histories(PATH_BITS) |-> 2]
    /\ path_history = 0

\* Variant: the chooser moves away from the predictor that was right.
alpha_update_Inverted(addr, taken) ==
    LET g_correct == GlobalTaken = taken
        l_correct == LocalTaken(addr) = taken
        history == local_hist_table[PC(addr)]
    IN  /\ choice_predict' =
            IF g_correct = l_correct THEN choice_predict
            ELSE [choice_predict EXCEPT ![path_history] = Train(@, 2, l_correct)]
        /\ global_predict' =
            [global_predict EXCEPT ![path_history] = Train(@, 2, taken)]
        /\ local_predict' =
            [local_predict EXCEPT ![history] = Train(@, 3, taken)]
        /\ path_history' = Shift(path_history, PATH_BITS, taken)
        /\ local_hist_table' =
            [local_hist_table EXCEPT ![PC(addr)] = Shift(@, LOCAL_BITS, taken)]

\* Variant: the chooser moves whatever the local predictor said.
alpha_update_Eager(addr, taken) ==
    LET g_correct == GlobalTaken = taken
        history == local_hist_table[PC(addr)]
    IN  /\ choice_predict' =
            [choice_predict EXCEPT ![path_history] = Train(@, 2, g_correct)]
        /\ global_predict' =
            [global_predict EXCEPT ![path_history] = Train(@, 2, taken)]
        /\ local_predict' =
            [local_predict EXCEPT ![history] = Train(@, 3, taken)]
        /\ path_history' = Shift(path_history, PATH_BITS, taken)
        /\ local_hist_table' =
            [local_hist_table EXCEPT ![PC(addr)] = Shift(@, LOCAL_BITS, taken)]

\* Variant: the path history is shifted before the counters are trained.
alpha_update_ShiftsFirst(addr, taken) ==
    LET g_correct == GlobalTaken = taken
        l_correct == LocalTaken(addr) = taken
        history == local_hist_table[PC(addr)]
    IN  /\ path_history' = Shift(path_history, PATH_BITS, taken)
        /\ choice_predict' =
            IF g_correct = l_correct THEN choice_predict
            ELSE [choice_predict EXCEPT ![path_history'] = Train(@, 2, g_correct)]
        /\ global_predict' =
            [global_predict EXCEPT ![path_history'] = Train(@, 2, taken)]
        /\ local_predict' =
            [local_predict EXCEPT ![history] = Train(@, 3, taken)]
        /\ local_hist_table' =
            [local_hist_table EXCEPT ![PC(addr)] = Shift(@, LOCAL_BITS, taken)]

\* The chooser moves only when exactly one of the predictors was right, and
\* all counters are trained under the histories they were consulted with.
alpha_update(addr, taken) ==
    LET g_correct == GlobalTaken = taken
        l_correct == LocalTaken(addr) = taken
        history == local_hist_table[PC(addr)]
    IN  /\ choice_predict' =
            IF g_correct = l_correct THEN choice_predict
            ELSE [choice_predict EXCEPT ![path_history] = Train(@, 2, g_correct)]
        /\ global_predict' =
            [global_predict EXCEPT ![path_history] = Train(@, 2, taken)]
        /\ local_predict' =
            [local_predict EXCEPT ![history] = Train(@, 3, taken)]
        /\ path_history' = Shift(path_history, PATH_BITS, taken)
        /\ local_hist_table' =
            [local_hist_table EXCEPT ![PC(addr)] = Shift(@, LOCAL_BITS, taken)]

Predict(addr) ==
    /\ asked = << >>
    /\ asked' = <<[addr |-> addr, thought |-> alpha_predict(addr)]>>
    /\ UNCHANGED tables

UpdateWith(taken) ==
    /\ asked # << >>
    /\ alpha_update(asked[1].addr, taken)
    /\ asked' = << >>
================================================================================
