------------------------------ MODULE AlphaMachine ------------------------------
(***************************************************************************)
(* AlphaPredictor driven by every sequence of conditional branches and     *)
(* outcomes, with the history variables its properties speak of.           *)
(***************************************************************************)
EXTENDS AlphaPredictor

VARIABLES
    missed,     \* history: mispredictions since the outcome last changed
    surprised   \* history: mispredictions since the outcome last failed to change

vars == <<local_hist_table, local_predict, global_predict, choice_predict,
          path_history, asked, missed, surprised>>

Init ==
    /\ alpha_setup
    /\ asked = << >>
    /\ missed = 0
    /\ surprised = 0

Ask(addr) == Predict(addr) /\ UNCHANGED <<missed, surprised>>

Resolve(taken) ==
    LET wrong == IF asked[1].thought = taken THEN 0 ELSE 1
        changed == taken # (path_history % 2 = 1)
    IN  /\ UpdateWith(taken)
        /\ missed' = IF changed THEN wrong ELSE missed + wrong
        /\ surprised' = IF changed THEN surprised + wrong ELSE wrong

Next == (\E addr \in Addrs : Ask(addr)) \/ (\E taken \in BOOLEAN : Resolve(taken))

Spec == Init /\ [][Next]_vars

--------------------------------------------------------------------------------
\* Type correctness: every history indexes its table and no counter leaves its
\* width.
TypeOK ==
    /\ local_hist_table \in [Histories(PC_BITS) -> Histories(LOCAL_BITS)]
    /\ local_predict \in [Histories(LOCAL_BITS) -> 0..7]
    /\ global_predict \in [Histories(PATH_BITS) -> 0..3]
    /\ choice_predict \in [Histories(PATH_BITS) -> 0..3]
    /\ path_history \in Histories(PATH_BITS)
    /\ asked = << >> \/ asked[1] \in [addr : Addrs, thought : BOOLEAN]

\* However the tables were trained before, a run of equal outcomes, even of
\* several branches, is mispredicted at most PATH_BITS + 4 times: one for every
\* path the shift passes through, two until the global counter turns, and two
\* until the choice does.
StreakMissesBounded == missed <= PATH_BITS + 4

\* So is an outcome that alternates, even over branches that share a local history:
\* from the first time it fails to change, one misprediction for every path the
\* shift passes through and four on each of the two it comes to in turn.
AlternationMissesBounded == surprised <= PATH_BITS + 8

\* The chooser gives up a predictor only on evidence: the predictor in charge
\* under a path changes only through an outcome that it got wrong and the other
\* one right.
ChoiceNeedsEvidence ==
    [][ \A path \in Histories(PATH_BITS) :
            (choice_predict[path] >= 2) # (choice_predict'[path] >= 2)
                => /\ path = path_history
                   /\ GlobalTaken # LocalTaken(asked[1].addr)
                   /\ asked[1].thought # (path_history' % 2 = 1) ]_vars
================================================================================
