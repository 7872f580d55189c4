-------------------------------- MODULE Predictor --------------------------------
(***************************************************************************)
(* Class PREDICTOR (predictor.h, predictor.cc): what both of its clients,  *)
(* the driver of the contest (Driver) and the tester on text traces        *)
(* (Tester), call for every branch.  It puts together the target half,     *)
(* Btb, and the direction half, AlphaPredictor, reads its settings from    *)
(* the environment, and can replace its directions by those of an oracle,  *)
(* a second reader of the trace that is being predicted.                   *)
(*                                                                         *)
(* The code sets itself up on the first call of get_prediction.  The       *)
(* environment does not change and nothing else is called before, so the   *)
(* model does it in Init.  A branch b is a branch record, with fields      *)
(* instruction_addr, instruction_next_addr, is_conditional, is_call and    *)
(* is_return; a line of a text trace has taken and actual_addr as well.    *)
(***************************************************************************)
EXTENDS BtbCache, ReturnAddressStack, TLC

CONSTANTS
    PC_BITS,        \* address bits that index the local histories: 10
    LOCAL_BITS,     \* width of a local history: 10
    PATH_BITS,      \* width of the path history: 12
    Environments    \* functions from names of environment variables to integers

VARIABLES
    env,
    oraclefd,           \* the lines the oracle has yet to read
    addr_hist,          \* the oracle's last target of every branch address
    dispcache, maincache, rastack,
    local_hist_table, local_predict, global_predict, choice_predict, path_history,
    predicted_taken,    \* the caller's, what get_prediction returned
    targetaddress       \* the caller's, what get_prediction wrote

caches == <<dispcache, maincache, rastack>>
tables == <<local_hist_table, local_predict, global_predict, choice_predict,
            path_history>>

predictorVars == <<env, oraclefd, addr_hist, caches, tables, predicted_taken,
                   targetaddress>>

--------------------------------------------------------------------------------
(* Settings *)

\* A variable that is not set leaves the default.
getparam(e, name, default) == IF name \in DOMAIN e THEN e[name] ELSE default

\* displacementbits(): out of range means the whole target.
Bits(entries) == IF entries < 0 \/ entries >= 32 THEN 32 ELSE entries

\* The constructor of the policy clamps an algorithm it does not know.  The type of
\* the enumeration is unsigned (it has no negative member, and GCC decides so): a
\* negative number is a large one and becomes WAY_LRU, and nothing is below WAY_RROBIN.
Algorithm(e) ==
    IF getparam(e, "BTB_WAY_ALGO", 1) = 0 THEN WAY_RROBIN ELSE WAY_LRU

\* btb_setup, for environment e.  A negative size makes the displacement cache
\* one without entries; any other size of a cache is 2^size sets.
Setup(e) ==
    LET disp_size == getparam(e, "BTB_DISP_SIZE", 6)
    IN  [main |-> [btbsize |-> 2^getparam(e, "BTB_MAIN_SIZE", 6),
                   numways |-> getparam(e, "BTB_MAIN_WAYS", 8),
                   displacementbits |-> Bits(-1),
                   algorithm |-> Algorithm(e)],
         disp |-> IF disp_size < 0
                  THEN [btbsize |-> 0, numways |-> 1,
                        displacementbits |-> 32, algorithm |-> WAY_LRU]
                  ELSE [btbsize |-> 2^disp_size,
                        numways |-> getparam(e, "BTB_DISP_WAYS", 2),
                        displacementbits |-> Bits(getparam(e, "BTB_DISP_ENTRIES", 8)),
                        algorithm |-> Algorithm(e)],
         capacity |-> getparam(e, "BTB_FUNC_CAP", 21)]

Settings == {Setup(e) : e \in Environments}

ASSUME PredictorAssumption ==
    /\ EMPTY # 0
    /\ \A e \in Environments :
        /\ \A name \in DOMAIN e : e[name] \in Int
        /\ getparam(e, "BTB_MAIN_SIZE", 6) \in Nat
        /\ getparam(e, "BTB_MAIN_WAYS", 8) \in Nat \ {0}
        /\ getparam(e, "BTB_DISP_WAYS", 2) \in Nat \ {0}
        /\ getparam(e, "BTB_DISP_ENTRIES", 8) # 0
        /\ \A name \in {"BTB_MAIN_SIZE", "BTB_DISP_SIZE"} :
               getparam(e, name, 6) \in Nat => 2^getparam(e, name, 6) \in Nat \ {0}

\* The widths of the direction tables, and what 2^n is, for the provers.
ASSUME TablesAssumption ==
    /\ PC_BITS \in Nat
    /\ LOCAL_BITS \in Nat \ {0} /\ PATH_BITS \in Nat \ {0}
    /\ \A n \in 0..(PC_BITS + LOCAL_BITS + PATH_BITS) : 2^(n + 1) = 2 * 2^n

Hooked == "ORACLE" \in DOMAIN env

--------------------------------------------------------------------------------
(* The two halves.  Of Btb only the operators on its caches and its stack are *)
(* used here, so its history and the alternation it assumes have no part.     *)

Target == INSTANCE Btb WITH
              Configs <- Settings, Trace <- {}, MaxDepth <- 0,
              config <- Setup(env), predicted <- targetaddress,
              phase <- "predict", br <- << >>, resolved <- {}

Direction == INSTANCE AlphaPredictor WITH Addrs <- {}, asked <- << >>

\* The predictor, and an oracle hooked to the lines of the trace.
PredictorInit(lines) ==
    /\ env \in Environments
    /\ oraclefd = IF Hooked THEN lines ELSE << >>
    /\ addr_hist = << >>
    /\ dispcache \in NewCaches(Setup(env).disp)
    /\ maincache \in NewCaches(Setup(env).main)
    /\ rastack = NewStack
    /\ Direction!alpha_setup
    /\ predicted_taken = FALSE
    /\ targetaddress = 0

--------------------------------------------------------------------------------
(* The methods *)

ThinksTaken(b) ==
    IF Hooked THEN Head(oraclefd).taken
    ELSE b.is_conditional => Direction!alpha_predict(b.instruction_addr)

\* assert(instr_addr == br->instruction_addr); at the end of the file the address
\* is one no branch has.
OracleInStep(b) ==
    oraclefd # << >> /\ Head(oraclefd).instruction_addr = b.instruction_addr

\* Variant: the oracle is read only where there is a direction to predict.
ReadOracle_Conditional(b) ==
    IF ~Hooked \/ ~b.is_conditional THEN UNCHANGED <<oraclefd, addr_hist>>
    ELSE /\ OracleInStep(b)
         /\ oraclefd' = Tail(oraclefd)
         /\ addr_hist' =
                (b.instruction_addr :> Head(oraclefd).actual_addr) @@ addr_hist

\* A line of the oracle is read for every branch.  The target remembered for its
\* address is looked up too, and then overwritten by btb_predict.
ReadOracle(b) ==
    IF ~Hooked THEN UNCHANGED <<oraclefd, addr_hist>>
    ELSE /\ OracleInStep(b)
         /\ oraclefd' = Tail(oraclefd)
         /\ addr_hist' =
                (b.instruction_addr :> Head(oraclefd).actual_addr) @@ addr_hist

get_prediction(b) ==
    /\ ReadOracle(b)
    /\ predicted_taken' = ThinksTaken(b)
    /\ Target!btb_predict(b)
    /\ UNCHANGED <<env, dispcache, maincache, tables>>

\* What btb_update reads of a branch, once its target is known.
Resolved(b, actual) ==
    [instruction_addr |-> b.instruction_addr,
     instruction_next_addr |-> b.instruction_next_addr,
     is_call |-> b.is_call, is_return |-> b.is_return, target |-> actual]

\* Variant: every branch trains the tables of the directions.
update_predictor_All(b, taken, actual) ==
    /\ Target!btb_update(Resolved(b, actual))
    /\ Direction!alpha_update(b.instruction_addr, taken)
    /\ UNCHANGED <<env, oraclefd, addr_hist, predicted_taken>>

\* Variant: a branch that falls through does not reach the caches.
update_predictor_TakenOnly(b, taken, actual) ==
    /\ IF taken THEN Target!btb_update(Resolved(b, actual))
       ELSE UNCHANGED caches
    /\ IF b.is_conditional THEN Direction!alpha_update(b.instruction_addr, taken)
       ELSE UNCHANGED tables
    /\ UNCHANGED <<env, oraclefd, addr_hist, predicted_taken>>

\* Directions are trained under an oracle as well.
update_predictor(b, taken, actual) ==
    /\ Target!btb_update(Resolved(b, actual))
    /\ IF b.is_conditional THEN Direction!alpha_update(b.instruction_addr, taken)
       ELSE UNCHANGED tables
    /\ UNCHANGED <<env, oraclefd, addr_hist, predicted_taken>>
================================================================================
