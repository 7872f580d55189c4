--------------------------------- MODULE Tester ----------------------------------
(***************************************************************************)
(* test.cc, the tester: it reads branches from a text trace, knows what    *)
(* became of each before it asks for a prediction, and keeps its score on  *)
(* the spot.  One action per step of its loop.  What it prints besides,    *)
(* its counts of calls, returns and other classes of branches, are sums    *)
(* over the same lines.                                                    *)
(***************************************************************************)
EXTENDS Predictor

CONSTANT Texts      \* text traces: sequences of branch records with their outcomes

VARIABLES
    lines,
    at,                 \* the step that comes next
    num_branches,       \* lines read, so the number of the current one as well
    num_cond,
    missed_predictions,
    missed_dest

vars == <<predictorVars, lines, at, num_branches, num_cond, missed_predictions,
          missed_dest>>

Init ==
    /\ lines \in Texts
    /\ PredictorInit(lines)
    /\ at = "scanf"
    /\ num_branches = 0
    /\ num_cond = 0
    /\ missed_predictions = 0
    /\ missed_dest = 0

br == lines[num_branches]

Scanf ==
    /\ at = "scanf" /\ num_branches < Len(lines)
    /\ num_branches' = num_branches + 1
    /\ at' = "predict"
    /\ UNCHANGED <<predictorVars, lines, num_cond, missed_predictions, missed_dest>>

GetPrediction ==
    /\ at = "predict"
    /\ get_prediction(br)
    /\ at' = "compare"
    /\ UNCHANGED <<lines, num_branches, num_cond, missed_predictions, missed_dest>>

\* The direction counts for every branch, the target only for a taken one.
Compare ==
    LET wrong == predicted_taken # br.taken
    IN  /\ at = "compare"
        /\ missed_dest' =
             IF wrong \/ (br.taken /\ targetaddress # br.actual_addr)
             THEN missed_dest + 1 ELSE missed_dest
        /\ missed_predictions' =
             IF br.is_conditional /\ wrong
             THEN missed_predictions + 1 ELSE missed_predictions
        /\ at' = "update"
        /\ UNCHANGED <<predictorVars, lines, num_branches, num_cond>>

UpdatePredictor ==
    /\ at = "update"
    /\ update_predictor(br, br.taken, br.actual_addr)
    /\ num_cond' = IF br.is_conditional THEN num_cond + 1 ELSE num_cond
    /\ at' = "scanf"
    /\ UNCHANGED <<targetaddress, lines, num_branches, missed_predictions, missed_dest>>

Next == Scanf \/ GetPrediction \/ Compare \/ UpdatePredictor

Spec == Init /\ [][Next]_vars
================================================================================
