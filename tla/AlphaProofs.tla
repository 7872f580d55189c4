------------------------------ MODULE AlphaProofs -------------------------------
(***************************************************************************)
(* The direction predictor for every width of its histories and every set  *)
(* of branches.  A run of equal outcomes, or of alternating ones, doubles  *)
(* the distance of the path history from where it settles, modulo the size *)
(* of the table, until nothing is left of it; from then on a misprediction *)
(* uses up some of what the two counters of a path have yet to learn.      *)
(***************************************************************************)
EXTENDS AlphaMachine, WellFoundedInduction, TLAPS

--------------------------------------------------------------------------------
(* Powers of two *)

\* Induction, for a set of numbers.
LEMMA SetInduction ==
    ASSUME NEW T \in SUBSET Nat, 0 \in T, \A n \in T : n + 1 \in T
    PROVE  T = Nat
<1>. SUFFICES ASSUME Nat \ T # {} PROVE FALSE
  OBVIOUS
<1>1. PICK n \in Nat \ T : \A m \in Nat \ T : <<m, n>> \notin OpToRel(<, Nat)
  <2>. HIDE DEF OpToRel
  <2>1. Nat \ T \subseteq Nat
    OBVIOUS
  <2>. QED  BY <2>1, NatLessThanWellFounded, WFMin
<1>2. n \in Nat /\ n # 0 /\ n - 1 \in Nat /\ (n - 1) + 1 = n
  OBVIOUS
<1>3. <<n - 1, n>> \in OpToRel(<, Nat)
  BY <1>2 DEF OpToRel
<1>. QED  BY <1>1, <1>2, <1>3

MaxBits == PC_BITS + LOCAL_BITS + PATH_BITS

LEMMA PowerFacts ==
    /\ \A n \in 0..(MaxBits + 1) : 2^n \in Nat \ {0} /\ 2^n % 3 # 0
    /\ \A n \in 0..MaxBits : 2^(n + 1) = 2 * 2^n
<1>. DEFINE Good(n) == n <= MaxBits + 1 => 2^n \in Nat \ {0} /\ 2^n % 3 # 0
            T == {n \in Nat : Good(n)}
<1>1. MaxBits \in Nat
  BY AlphaAssumption DEF MaxBits
<1>2. \A n \in 0..MaxBits : 2^(n + 1) = 2 * 2^n
  BY PowerAssumption DEF MaxBits
<1>3. 0 \in T
  BY <1>1
<1>4. ASSUME NEW n \in T PROVE n + 1 \in T
  <2>1. CASE n + 1 <= MaxBits + 1
    <3>1. n \in 0..MaxBits /\ 2^n \in Nat \ {0} /\ 2^n % 3 # 0
      BY <1>1, <1>4, <2>1
    <3>2. PICK x : x = 2^n
      OBVIOUS
    <3>3. x \in Nat \ {0} /\ x % 3 # 0
      BY <3>1, <3>2
    <3>4. 2 * x \in Nat \ {0} /\ (2 * x) % 3 # 0
      BY <3>3
    <3>5. 2^(n + 1) = 2 * x
      BY <1>2, <3>1, <3>2
    <3>. QED  BY <3>4, <3>5
  <2>2. CASE ~(n + 1 <= MaxBits + 1)
    BY <2>2
  <2>. QED  BY <2>1, <2>2
<1>5. T = Nat
  <2>. HIDE DEF T
  <2>1. T \in SUBSET Nat
    BY DEF T
  <2>. QED  BY <1>3, <1>4, <2>1, SetInduction
<1>6. ASSUME NEW n \in 0..(MaxBits + 1) PROVE 2^n \in Nat \ {0} /\ 2^n % 3 # 0
  <2>1. n \in T /\ n <= MaxBits + 1
    BY <1>1, <1>5
  <2>. QED  BY <2>1
<1>. QED  BY <1>2, <1>6

LEMMA SmallPowers == 2^2 = 4 /\ 2^3 = 8
<1>1. 0 \in 0..MaxBits /\ 1 \in 0..MaxBits /\ 2 \in 0..MaxBits
  BY AlphaAssumption DEF MaxBits
<1>2. 2^(0 + 1) = 2 * 2^0 /\ 2^(1 + 1) = 2 * 2^1 /\ 2^(2 + 1) = 2 * 2^2
  BY <1>1, PowerFacts
<1>3. 2^1 = 2
  BY <1>2
<1>. QED  BY <1>2, <1>3

LEMMA WidthFacts ==
    \A bits \in {PC_BITS, LOCAL_BITS, PATH_BITS} : 2^bits \in Nat \ {0}
<1>1. \A bits \in {PC_BITS, LOCAL_BITS, PATH_BITS} : bits \in 0..(MaxBits + 1)
  BY AlphaAssumption DEF MaxBits
<1>. QED  BY <1>1, PowerFacts

--------------------------------------------------------------------------------
(* Training *)

Bit(taken) == IF taken THEN 1 ELSE 0

\* What a counter of two bits does.
LEMMA TrainTwoBits ==
    ASSUME NEW c \in 0..3, NEW taken \in BOOLEAN
    PROVE  Train(c, 2, taken) = IF taken THEN (IF c < 3 THEN c + 1 ELSE 3)
                                ELSE (IF c > 0 THEN c - 1 ELSE 0)
BY SmallPowers DEF Train, inc_cnt, dec_cnt

LEMMA TrainTypes ==
    ASSUME NEW taken \in BOOLEAN
    PROVE  /\ \A c \in 0..3 : Train(c, 2, taken) \in 0..3
           /\ \A c \in 0..7 : Train(c, 3, taken) \in 0..7
BY SmallPowers DEF Train, inc_cnt, dec_cnt

LEMMA ShiftFacts ==
    ASSUME NEW bits \in {PC_BITS, LOCAL_BITS, PATH_BITS}, NEW history, NEW taken \in BOOLEAN,
           history \in Nat
    PROVE  Shift(history, bits, taken) \in Histories(bits)
<1>1. 2^bits \in Nat \ {0}
  BY WidthFacts
<1>2. PICK n : n = 2^bits
  OBVIOUS
<1>3. \A x \in Nat : x % n \in 0..(n - 1)
  BY <1>1, <1>2
<1>4. 2 * history + (IF taken THEN 1 ELSE 0) \in Nat
  OBVIOUS
<1>. QED  BY <1>2, <1>3, <1>4 DEF Shift, Histories

AlphaInv ==
    /\ TypeOK
    /\ asked # << >> => asked[1].thought = alpha_predict(asked[1].addr)
    /\ missed \in Nat /\ surprised \in Nat

LEMMA InitAlpha == Init => AlphaInv
<1>. SUFFICES ASSUME Init PROVE AlphaInv
  OBVIOUS
<1>1. \A bits \in {PC_BITS, LOCAL_BITS, PATH_BITS} : 0 \in Histories(bits)
  BY WidthFacts DEF Histories
<1>. QED  BY <1>1 DEF Init, alpha_setup, AlphaInv, TypeOK

LEMMA ResolveTypes ==
    ASSUME AlphaInv, NEW taken \in BOOLEAN, Resolve(taken)
    PROVE  AlphaInv'
<1>1. /\ asked # << >> /\ asked[1] \in [addr : Addrs, thought : BOOLEAN]
      /\ asked[1].addr \in Nat
      /\ alpha_update(asked[1].addr, taken) /\ asked' = << >>
  BY AlphaAssumption DEF AlphaInv, TypeOK, Resolve, UpdateWith
<1>. DEFINE addr == asked[1].addr
            history == local_hist_table[PC(addr)]
<1>2. PC(addr) \in Histories(PC_BITS)
  <2>1. 2^PC_BITS \in Nat \ {0}
    BY WidthFacts
  <2>2. \A x \in Nat, n \in Nat \ {0} : x % n \in 0..(n - 1)
    OBVIOUS
  <2>. QED  BY <1>1, <2>1, <2>2 DEF PC, Histories
<1>3. \A bits \in {PC_BITS, LOCAL_BITS, PATH_BITS} : Histories(bits) \subseteq Nat
  BY WidthFacts DEF Histories
<1>4. (local_hist_table \in [Histories(PC_BITS) -> Histories(LOCAL_BITS)])'
  <2>1. local_hist_table \in [Histories(PC_BITS) -> Histories(LOCAL_BITS)]
    BY DEF AlphaInv, TypeOK
  <2>2. Shift(local_hist_table[PC(addr)], LOCAL_BITS, taken) \in Histories(LOCAL_BITS)
    BY <1>2, <1>3, <2>1, ShiftFacts
  <2>3. local_hist_table' = [local_hist_table EXCEPT ![PC(addr)]
                               = Shift(local_hist_table[PC(addr)], LOCAL_BITS, taken)]
    BY <1>1 DEF alpha_update
  <2>. QED  BY <2>1, <2>2, <2>3
<1>5. (local_predict \in [Histories(LOCAL_BITS) -> 0..7])'
  BY <1>1, TrainTypes DEF AlphaInv, TypeOK, alpha_update
<1>6. (global_predict \in [Histories(PATH_BITS) -> 0..3])'
  BY <1>1, TrainTypes DEF AlphaInv, TypeOK, alpha_update
<1>7. (choice_predict \in [Histories(PATH_BITS) -> 0..3])'
  <2>1. (GlobalTaken = taken) \in BOOLEAN
    OBVIOUS
  <2>2. \A c \in 0..3 : Train(c, 2, GlobalTaken = taken) \in 0..3
    BY <2>1, TrainTypes
  <2>. QED  BY <1>1, <2>2 DEF AlphaInv, TypeOK, alpha_update
<1>8. (path_history \in Histories(PATH_BITS))'
  BY <1>1, <1>3, ShiftFacts DEF AlphaInv, TypeOK, alpha_update
<1>9. (missed \in Nat /\ surprised \in Nat)'
  BY DEF AlphaInv, Resolve
<1>. QED  BY <1>1, <1>4, <1>5, <1>6, <1>7, <1>8, <1>9 DEF AlphaInv, TypeOK

LEMMA NextAlpha == ASSUME AlphaInv, [Next]_vars PROVE AlphaInv'
<1>1. ASSUME NEW addr \in Addrs, Ask(addr) PROVE AlphaInv'
  <2>1. /\ UNCHANGED <<local_hist_table, local_predict, global_predict,
                       choice_predict, path_history, missed, surprised>>
        /\ asked' = <<[addr |-> addr, thought |-> alpha_predict(addr)]>>
    BY <1>1 DEF Ask, Predict, tables
  <2>2. alpha_predict(addr) \in BOOLEAN
    <3>1. GlobalTaken \in BOOLEAN /\ LocalTaken(addr) \in BOOLEAN
      BY DEF GlobalTaken, LocalTaken
    <3>. QED  BY <3>1, Zenon DEF alpha_predict
  <2>3. asked'[1].addr = addr /\ asked'[1].thought = alpha_predict(addr)
    BY <2>1
  <2>4. alpha_predict(addr)' = alpha_predict(addr)
    BY <2>1 DEF alpha_predict, UsesGlobal, GlobalTaken, LocalTaken
  <2>5. (asked[1].thought = alpha_predict(asked[1].addr))'
    BY <2>1, <2>3 DEF alpha_predict, UsesGlobal, GlobalTaken, LocalTaken
  <2>. QED  BY <2>1, <2>2, <2>5 DEF AlphaInv, TypeOK
<1>2. CASE UNCHANGED vars
  BY <1>2 DEF vars, AlphaInv, TypeOK, alpha_predict, UsesGlobal, GlobalTaken, LocalTaken
<1>. QED  BY <1>1, <1>2, ResolveTypes DEF Next

THEOREM AlphaInvariant == Spec => []AlphaInv
BY InitAlpha, NextAlpha, PTL DEF Spec

\* Every history indexes its table and no counter leaves its width.
THEOREM AlphaTypes == Spec => []TypeOK
BY AlphaInvariant, PTL DEF AlphaInv

--------------------------------------------------------------------------------
(* What the counters of a path have yet to learn *)

GRight(taken) == GlobalTaken <=> taken
LRight(taken) == LocalTaken(asked[1].addr) <=> taken
Right(taken) == IF UsesGlobal THEN GRight(taken) ELSE LRight(taken)

\* An update trains the counters of its path, and those only.
LEMMA UpdateFacts ==
    ASSUME AlphaInv, NEW taken \in BOOLEAN, UpdateWith(taken), NEW p, p = path_history
    PROVE  /\ (asked[1].thought = taken) <=> Right(taken)
           /\ global_predict'[p] = Train(global_predict[p], 2, taken)
           /\ choice_predict'[p] = IF GRight(taken) <=> LRight(taken) THEN choice_predict[p]
                                   ELSE Train(choice_predict[p], 2, GRight(taken))
           /\ \A q \in Histories(PATH_BITS) \ {p} :
                 global_predict'[q] = global_predict[q] /\ choice_predict'[q] = choice_predict[q]
           /\ path_history' = Shift(p, PATH_BITS, taken)
<1>. DEFINE addr == asked[1].addr
<1>1. /\ alpha_update(addr, taken) /\ p \in Histories(PATH_BITS)
      /\ global_predict \in [Histories(PATH_BITS) -> 0..3]
      /\ choice_predict \in [Histories(PATH_BITS) -> 0..3]
      /\ asked[1].thought = alpha_predict(addr)
  BY DEF AlphaInv, TypeOK, UpdateWith
<1>2. GlobalTaken \in BOOLEAN /\ LocalTaken(addr) \in BOOLEAN
  BY DEF GlobalTaken, LocalTaken
<1>3. /\ (GlobalTaken = taken) = GRight(taken)
      /\ (LocalTaken(addr) = taken) = LRight(taken)
  BY <1>2, Zenon DEF GRight, LRight
<1>4. (asked[1].thought = taken) <=> Right(taken)
  <2>1. CASE UsesGlobal
    BY <1>1, <1>2, <2>1, Zenon DEF Right, GRight, alpha_predict
  <2>2. CASE ~UsesGlobal
    BY <1>1, <1>2, <2>2, Zenon DEF Right, LRight, alpha_predict
  <2>. QED  BY <2>1, <2>2
<1>5. /\ choice_predict' = IF GRight(taken) = LRight(taken) THEN choice_predict
                           ELSE [choice_predict EXCEPT ![p] = Train(@, 2, GRight(taken))]
      /\ global_predict' = [global_predict EXCEPT ![p] = Train(@, 2, taken)]
      /\ path_history' = Shift(p, PATH_BITS, taken)
  BY <1>1, <1>3, Zenon DEF alpha_update
<1>6. (GRight(taken) = LRight(taken)) <=> (GRight(taken) <=> LRight(taken))
  BY DEF GRight, LRight
<1>. QED  BY <1>1, <1>4, <1>5, <1>6

\* The mispredictions the outcome taken can still cost under a path: until the global
\* counter has turned, and then until the choice has.
Unlearnt(path, taken) ==
    LET global == IF taken THEN 2 - global_predict[path] ELSE global_predict[path] - 1
    IN  IF global > 0 THEN global + 2
        ELSE IF choice_predict[path] < 2 THEN 2 - choice_predict[path] ELSE 0

LEMMA UnlearntBound ==
    ASSUME AlphaInv, NEW path \in Histories(PATH_BITS), NEW taken \in BOOLEAN
    PROVE  Unlearnt(path, taken) \in 0..4
<1>1. global_predict[path] \in 0..3 /\ choice_predict[path] \in 0..3
  BY DEF AlphaInv, TypeOK
<1>. QED  BY <1>1 DEF Unlearnt

Wrong(taken) == IF asked[1].thought = taken THEN 0 ELSE 1

LEMMA Learns ==
    ASSUME AlphaInv, NEW taken \in BOOLEAN, UpdateWith(taken), NEW p, p = path_history
    PROVE  /\ Wrong(taken) \in 0..1
           /\ Unlearnt(p, taken)' + Wrong(taken) <= Unlearnt(p, taken)
           /\ \A q \in Histories(PATH_BITS) \ {p}, t \in BOOLEAN :
                 Unlearnt(q, t)' = Unlearnt(q, t)
<1>1. PICK g : g = global_predict[p]
  OBVIOUS
<1>2. PICK c : c = choice_predict[p]
  OBVIOUS
<1>3. g \in 0..3 /\ c \in 0..3
  BY <1>1, <1>2 DEF AlphaInv, TypeOK
<1>4. /\ GRight(taken) <=> ((g >= 2) <=> taken)
      /\ UsesGlobal <=> c >= 2
  BY <1>1, <1>2 DEF GRight, GlobalTaken, UsesGlobal
<1>5. PICK gg : gg = global_predict'[p]
  OBVIOUS
<1>6. PICK cc : cc = choice_predict'[p]
  OBVIOUS
<1>7. gg = IF taken THEN (IF g < 3 THEN g + 1 ELSE 3) ELSE (IF g > 0 THEN g - 1 ELSE 0)
  BY <1>1, <1>3, <1>5, UpdateFacts, TrainTwoBits
<1>8. /\ (GRight(taken) <=> LRight(taken)) => cc = c
      /\ GRight(taken) /\ ~LRight(taken) => cc = IF c < 3 THEN c + 1 ELSE 3
      /\ ~GRight(taken) /\ LRight(taken) => cc = IF c > 0 THEN c - 1 ELSE 0
  <2>1. cc = IF GRight(taken) <=> LRight(taken) THEN c ELSE Train(c, 2, GRight(taken))
    BY <1>2, <1>6, UpdateFacts
  <2>2. GRight(taken) \in BOOLEAN
    BY DEF GRight
  <2>3. GRight(taken) => Train(c, 2, GRight(taken)) = IF c < 3 THEN c + 1 ELSE 3
    BY <1>3, <2>2, TrainTwoBits
  <2>4. ~GRight(taken) => Train(c, 2, GRight(taken)) = IF c > 0 THEN c - 1 ELSE 0
    BY <1>3, <2>2, TrainTwoBits
  <2>. QED  BY <2>1, <2>3, <2>4
<1>9. Wrong(taken) = IF Right(taken) THEN 0 ELSE 1
  BY UpdateFacts DEF Wrong
<1>10. Unlearnt(p, taken) =
          LET global == IF taken THEN 2 - g ELSE g - 1
          IN  IF global > 0 THEN global + 2 ELSE IF c < 2 THEN 2 - c ELSE 0
  BY <1>1, <1>2 DEF Unlearnt
<1>11. Unlearnt(p, taken)' =
          LET global == IF taken THEN 2 - gg ELSE gg - 1
          IN  IF global > 0 THEN global + 2 ELSE IF cc < 2 THEN 2 - cc ELSE 0
  BY <1>5, <1>6 DEF Unlearnt
<1>12. Unlearnt(p, taken)' + Wrong(taken) <= Unlearnt(p, taken)
  <2>1. CASE GRight(taken) /\ LRight(taken)
    BY <1>3, <1>4, <1>7, <1>8, <1>9, <1>10, <1>11, <2>1 DEF Right
  <2>2. CASE GRight(taken) /\ ~LRight(taken)
    BY <1>3, <1>4, <1>7, <1>8, <1>9, <1>10, <1>11, <2>2 DEF Right
  <2>3. CASE ~GRight(taken) /\ LRight(taken)
    BY <1>3, <1>4, <1>7, <1>8, <1>9, <1>10, <1>11, <2>3 DEF Right
  <2>4. CASE ~GRight(taken) /\ ~LRight(taken)
    BY <1>3, <1>4, <1>7, <1>8, <1>9, <1>10, <1>11, <2>4 DEF Right
  <2>. QED  BY <2>1, <2>2, <2>3, <2>4
<1>13. ASSUME NEW q \in Histories(PATH_BITS) \ {p}, NEW t \in BOOLEAN
       PROVE  Unlearnt(q, t)' = Unlearnt(q, t)
  BY <1>13, UpdateFacts DEF Unlearnt
<1>. QED  BY <1>9, <1>12, <1>13

--------------------------------------------------------------------------------
(* The path history *)

Size == 2^PATH_BITS

LEMMA SizeFacts ==
    /\ Size \in Nat \ {0} /\ Size % 3 # 0
    /\ \E half \in Nat \ {0} : Size = 2 * half
<1>1. PICK n : n = PATH_BITS - 1
  OBVIOUS
<1>2. n \in 0..MaxBits /\ n \in 0..(MaxBits + 1) /\ PATH_BITS \in 0..(MaxBits + 1)
      /\ n + 1 = PATH_BITS
  BY <1>1, AlphaAssumption DEF MaxBits
<1>4. 2^n \in Nat \ {0} /\ 2^(n + 1) = 2 * 2^n
  BY <1>2, PowerFacts
<1>3. Size \in Nat \ {0} /\ Size % 3 # 0
  BY <1>2, PowerFacts DEF Size
<1>. QED  BY <1>2, <1>3, <1>4 DEF Size

LEMMA PathType == AlphaInv => path_history \in 0..(Size - 1)
BY DEF AlphaInv, TypeOK, Histories, Size

\* Twice a number of the table, and one more, modulo the table's size.
LEMMA Doubling ==
    ASSUME NEW n \in Nat \ {0}, NEW x \in 0..(n - 1), NEW b \in 0..1
    PROVE  (2 * x + b) % n = IF 2 * x + b < n THEN 2 * x + b ELSE 2 * x + b - n
<1>. DEFINE y == 2 * x + b
<1>1. y \in 0..(2 * n - 1)
  OBVIOUS
<1>2. ASSUME NEW z \in 0..(2 * n - 1) PROVE z % n = IF z < n THEN z ELSE z - n
  <2>1. CASE z < n
    BY <2>1
  <2>2. CASE ~(z < n)
    <3>1. z - n \in 0..(n - 1)
      BY <2>2
    <3>. QED  BY <2>2, <3>1
  <2>. QED  BY <2>1, <2>2
<1>. QED  BY <1>1, <1>2

\* The lowest bit of the history is the newest outcome.
LEMMA NewOutcome ==
    ASSUME AlphaInv, NEW taken \in BOOLEAN, UpdateWith(taken)
    PROVE  /\ path_history' = (2 * path_history + Bit(taken)) % Size
           /\ (path_history' % 2 = 1) <=> taken
<1>1. path_history' = (2 * path_history + Bit(taken)) % Size
  BY UpdateFacts DEF Shift, Size, Bit
<1>2. PICK half \in Nat \ {0} : Size = 2 * half
  BY SizeFacts
<1>3. PICK p : p = path_history
  OBVIOUS
<1>4. p \in 0..(Size - 1) /\ Bit(taken) \in 0..1 /\ (Bit(taken) = 1 <=> taken)
  BY <1>3, PathType DEF Bit
<1>5. PICK b \in 0..1 : b = Bit(taken)
  BY <1>4
<1>6. (2 * p + b) % Size = IF 2 * p + b < Size THEN 2 * p + b ELSE 2 * p + b - Size
  BY <1>4, SizeFacts, Doubling
<1>7. \E q \in Int : path_history' = 2 * q + b
  <2>1. p \in Int /\ p - half \in Int /\ 2 * (p - half) + b = 2 * p + b - Size
    BY <1>2, <1>4, SizeFacts
  <2>2. path_history' = 2 * p + b \/ path_history' = 2 * (p - half) + b
    BY <1>1, <1>3, <1>5, <1>6, <2>1
  <2>. QED  BY <2>1, <2>2
<1>8. path_history' % 2 = b
  BY <1>7
<1>. QED  BY <1>1, <1>4, <1>5, <1>8

\* The chooser gives up a predictor only on evidence: alpha_update moves the counter
\* of a path across its middle only for an outcome that the predictor in charge got
\* wrong and the other one right.
THEOREM ChoiceIsJustified == Spec => ChoiceNeedsEvidence
<1>1. ASSUME AlphaInv, [Next]_vars, NEW path \in Histories(PATH_BITS),
             (choice_predict[path] >= 2) # (choice_predict'[path] >= 2)
      PROVE  /\ path = path_history
             /\ GlobalTaken # LocalTaken(asked[1].addr)
             /\ asked[1].thought # (path_history' % 2 = 1)
  <2>1. PICK taken \in BOOLEAN : UpdateWith(taken)
    BY <1>1 DEF Next, Ask, Predict, Resolve, tables, vars
  <2>2. path = path_history
    BY <1>1, <2>1, UpdateFacts
  <2>3. (path_history' % 2 = 1) <=> taken
    BY <1>1, <2>1, NewOutcome
  <2>4. PICK c : c = choice_predict[path]
    OBVIOUS
  <2>5. PICK cc : cc = choice_predict'[path]
    OBVIOUS
  <2>6. c \in 0..3 /\ (c >= 2) # (cc >= 2) /\ (UsesGlobal <=> c >= 2)
    BY <1>1, <2>2, <2>4, <2>5 DEF AlphaInv, TypeOK, UsesGlobal
  <2>7. cc = IF GRight(taken) <=> LRight(taken) THEN c ELSE Train(c, 2, GRight(taken))
    BY <1>1, <2>1, <2>2, <2>4, <2>5, UpdateFacts
  <2>8. ~(GRight(taken) <=> LRight(taken))
    BY <2>6, <2>7
  <2>9. GRight(taken) \in BOOLEAN
    BY DEF GRight
  <2>10. ~Right(taken)
    <3>1. CASE GRight(taken)
      <4>1. Train(c, 2, GRight(taken)) = IF c < 3 THEN c + 1 ELSE 3
        BY <2>6, <2>9, <3>1, TrainTwoBits
      <4>2. ~LRight(taken)
        BY <2>8, <3>1
      <4>3. cc = IF c < 3 THEN c + 1 ELSE 3
        BY <2>7, <2>8, <4>1
      <4>4. ~UsesGlobal
        BY <2>6, <4>3
      <4>. QED  BY <4>2, <4>4 DEF Right
    <3>2. CASE ~GRight(taken)
      <4>1. Train(c, 2, GRight(taken)) = IF c > 0 THEN c - 1 ELSE 0
        BY <2>6, <2>9, <3>2, TrainTwoBits
      <4>2. UsesGlobal
        BY <2>6, <2>7, <2>8, <3>2, <4>1
      <4>. QED  BY <3>2, <4>2 DEF Right
    <3>. QED  BY <3>1, <3>2
  <2>11. asked[1].thought # taken
    BY <1>1, <2>1, <2>10, UpdateFacts
  <2>12. asked[1].thought # (path_history' % 2 = 1)
    <3>1. (path_history' % 2 = 1) = taken
      BY <2>3
    <3>. QED  BY <2>11, <3>1, Zenon
  <2>13. GlobalTaken # LocalTaken(asked[1].addr)
    BY <2>8 DEF GRight, LRight
  <2>. QED  BY <2>2, <2>12, <2>13
<1>2. AlphaInv /\ [Next]_vars
        => [ \A path \in Histories(PATH_BITS) :
                 (choice_predict[path] >= 2) # (choice_predict'[path] >= 2)
                     => /\ path = path_history
                        /\ GlobalTaken # LocalTaken(asked[1].addr)
                        /\ asked[1].thought # (path_history' % 2 = 1) ]_vars
  BY <1>1
<1>. QED  BY AlphaInvariant, <1>2, PTL DEF Spec, ChoiceNeedsEvidence

--------------------------------------------------------------------------------
(* The distance from where a history settles *)

Twice(x) == (2 * x) % Size

LEMMA TwiceFacts ==
    ASSUME NEW x \in 0..(Size - 1)
    PROVE  /\ Twice(x) = IF 2 * x < Size THEN 2 * x ELSE 2 * x - Size
           /\ Twice(x) \in 0..(Size - 1)
<1>1. PICK b \in 0..1 : b = 0
  OBVIOUS
<1>2. (2 * x + b) % Size = IF 2 * x + b < Size THEN 2 * x + b ELSE 2 * x + b - Size
  BY SizeFacts, Doubling
<1>3. 2 * x + b = 2 * x /\ 2 * x \in Nat
  BY <1>1
<1>. QED  BY <1>2, <1>3, SizeFacts DEF Twice

\* x has been doubled k times, modulo the size of the table.
Doubled(k, x) ==
    \E a, m \in Nat :
        /\ a * 2^(PATH_BITS - k) = Size
        /\ x = a * m /\ m < 2^(PATH_BITS - k)

LEMMA DoubledStart == ASSUME NEW x \in 0..(Size - 1) PROVE Doubled(0, x)
<1>1. /\ 1 * 2^(PATH_BITS - 0) = Size /\ x = 1 * x /\ x < 2^(PATH_BITS - 0)
      /\ 1 \in Nat /\ x \in Nat
  BY SizeFacts, AlphaAssumption DEF Size
<1>. QED  BY <1>1 DEF Doubled

LEMMA DoubledEnd == ASSUME NEW x, Doubled(PATH_BITS, x) PROVE x = 0
<1>1. PICK a, m \in Nat : x = a * m /\ m < 2^(PATH_BITS - PATH_BITS)
  BY DEF Doubled
<1>2. 2^(PATH_BITS - PATH_BITS) = 1
  BY AlphaAssumption
<1>. QED  BY <1>1, <1>2

LEMMA DoubledOn ==
    ASSUME NEW k \in 0..(PATH_BITS - 1), NEW x \in 0..(Size - 1), Doubled(k, x)
    PROVE  Doubled(k + 1, Twice(x))
<1>1. PICK a, m \in Nat : a * 2^(PATH_BITS - k) = Size /\ x = a * m /\ m < 2^(PATH_BITS - k)
  BY DEF Doubled
<1>2. PICK n : n = PATH_BITS - (k + 1)
  OBVIOUS
<1>3. n \in 0..MaxBits /\ n \in 0..(MaxBits + 1) /\ n + 1 = PATH_BITS - k
  BY <1>2, AlphaAssumption DEF MaxBits
<1>4. PICK half : half = 2^n
  OBVIOUS
<1>5. half \in Nat \ {0} /\ 2^(PATH_BITS - k) = 2 * half
  BY <1>3, <1>4, PowerFacts
<1>6. (2 * a) * half = Size /\ m < 2 * half /\ 2 * x = (2 * a) * m
  BY <1>1, <1>5
<1>7. Twice(x) = IF 2 * x < Size THEN 2 * x ELSE 2 * x - Size
  BY TwiceFacts
<1>8. PICK c \in Nat : c = 2 * a
  BY <1>1
<1>9. \E mm \in Nat : Twice(x) = c * mm /\ mm < half
  <2>1. CASE m < half
    <3>1. c > 0
      BY <1>1, <1>5, <1>6, <1>8, SizeFacts
    <3>2. c * m < c * half
      BY <1>1, <1>5, <2>1, <3>1
    <3>3. Twice(x) = c * m
      BY <1>6, <1>7, <1>8, <3>2
    <3>. QED  BY <2>1, <3>3
  <2>2. CASE ~(m < half)
    <3>1. m - half \in Nat /\ m - half < half
      BY <1>1, <1>5, <1>6, <2>2
    <3>2. c * (m - half) = c * m - c * half
      BY <1>1, <1>5, <1>8
    <3>3. c * (m - half) \in Nat
      BY <1>8, <3>1
    <3>4. Twice(x) = c * (m - half)
      BY <1>6, <1>7, <1>8, <3>2, <3>3, SizeFacts
    <3>. QED  BY <3>1, <3>4
  <2>. QED  BY <2>1, <2>2
<1>. QED  BY <1>2, <1>4, <1>6, <1>8, <1>9 DEF Doubled

--------------------------------------------------------------------------------
(* A run of equal outcomes *)

Last == path_history % 2 = 1

\* How far a history is from the one of a long run of the outcome.
RunLeft(taken, path) == IF taken THEN Size - 1 - path ELSE path

\* The run is k outcomes old, all of them missed at worst; or the history has settled
\* and what was missed since has been learnt.
StreakInv ==
    \/ \E k \in 0..(PATH_BITS - 1) : Doubled(k, RunLeft(Last, path_history)) /\ missed <= k
    \/ /\ RunLeft(Last, path_history) = 0
       /\ missed + Unlearnt(path_history, Last) <= PATH_BITS + 4

LEMMA RunStep ==
    ASSUME AlphaInv, NEW taken \in BOOLEAN, UpdateWith(taken)
    PROVE  /\ RunLeft(taken, path_history) \in 0..(Size - 1)
           /\ RunLeft(taken, path_history') = Twice(RunLeft(taken, path_history))
           /\ Last' = taken
<1>1. PICK p : p = path_history
  OBVIOUS
<1>2. p \in 0..(Size - 1) /\ Bit(taken) \in 0..1
  BY <1>1, PathType DEF Bit
<1>3. path_history' = IF 2 * p + Bit(taken) < Size THEN 2 * p + Bit(taken)
                      ELSE 2 * p + Bit(taken) - Size
  <2>1. (2 * p + Bit(taken)) % Size = IF 2 * p + Bit(taken) < Size THEN 2 * p + Bit(taken)
                                      ELSE 2 * p + Bit(taken) - Size
    BY <1>2, SizeFacts, Doubling
  <2>. QED  BY <1>1, <2>1, NewOutcome
<1>4. Last' = taken
  BY NewOutcome DEF Last
<1>5. RunLeft(taken, p) \in 0..(Size - 1)
  BY <1>2, SizeFacts DEF RunLeft
<1>6. RunLeft(taken, path_history') = Twice(RunLeft(taken, p))
  <2>1. Twice(RunLeft(taken, p)) = IF 2 * RunLeft(taken, p) < Size THEN 2 * RunLeft(taken, p)
                                   ELSE 2 * RunLeft(taken, p) - Size
    BY <1>5, TwiceFacts
  <2>2. CASE taken
    BY <1>2, <1>3, <2>1, <2>2, SizeFacts DEF RunLeft, Bit
  <2>3. CASE ~taken
    BY <1>2, <1>3, <2>1, <2>3, SizeFacts DEF RunLeft, Bit
  <2>. QED  BY <2>2, <2>3
<1>. QED  BY <1>1, <1>4, <1>5, <1>6

LEMMA StreakStep ==
    ASSUME AlphaInv, StreakInv, NEW taken \in BOOLEAN, Resolve(taken)
    PROVE  StreakInv'
<1>. DEFINE left == RunLeft(taken, path_history)
<1>1. /\ UpdateWith(taken)
      /\ missed' = IF taken # Last THEN Wrong(taken) ELSE missed + Wrong(taken)
      /\ missed \in Nat /\ missed' \in Nat
  BY DEF Resolve, Wrong, Last, AlphaInv
<1>2. /\ left \in 0..(Size - 1) /\ RunLeft(taken, path_history)' = Twice(left)
      /\ Last' = taken
  BY <1>1, RunStep DEF RunLeft
<1>3. Wrong(taken) \in 0..1
  BY DEF Wrong
<1>9. AlphaInv'
  BY ResolveTypes
<1>4. Unlearnt(path_history, Last)' \in 0..4
  <2>1. /\ global_predict'[path_history'] \in 0..3
        /\ choice_predict'[path_history'] \in 0..3
    BY <1>9 DEF AlphaInv, TypeOK
  <2>. QED  BY <2>1 DEF Unlearnt
<1>5. PATH_BITS \in Nat \ {0}
  BY AlphaAssumption
<1>6. ASSUME NEW k \in 0..(PATH_BITS - 1), Doubled(k, left), missed' <= k + 1
      PROVE  StreakInv'
  <2>1. Doubled(k + 1, Twice(left))
    BY <1>2, <1>6, DoubledOn
  <2>2. CASE k + 1 <= PATH_BITS - 1
    BY <1>2, <1>5, <1>6, <2>1, <2>2 DEF StreakInv
  <2>3. CASE k + 1 = PATH_BITS
    <3>1. Twice(left) = 0
      BY <2>1, <2>3, DoubledEnd
    <3>2. missed' + Unlearnt(path_history, Last)' <= PATH_BITS + 4
      BY <1>1, <1>4, <1>5, <1>6, <2>3
    <3>. QED  BY <1>2, <3>1, <3>2 DEF StreakInv
  <2>. QED  BY <1>5, <1>6, <2>2, <2>3
<1>7. CASE taken # Last
  <2>1. Doubled(0, left) /\ 0 \in 0..(PATH_BITS - 1)
    BY <1>2, <1>5, DoubledStart
  <2>2. missed' <= 0 + 1
    BY <1>1, <1>3, <1>7
  <2>. QED  BY <1>6, <2>1, <2>2
<1>8. CASE taken = Last
  <2>1. CASE \E k \in 0..(PATH_BITS - 1) : Doubled(k, RunLeft(Last, path_history)) /\ missed <= k
    <3>1. PICK k \in 0..(PATH_BITS - 1) : Doubled(k, left) /\ missed <= k
      BY <1>8, <2>1
    <3>2. missed' <= k + 1
      BY <1>1, <1>3, <1>5, <1>8, <3>1
    <3>. QED  BY <1>6, <3>1, <3>2
  <2>2. CASE /\ RunLeft(Last, path_history) = 0
             /\ missed + Unlearnt(path_history, Last) <= PATH_BITS + 4
    <3>1. Twice(left) = 0
      <4>1. Twice(0) = 0
        <5>1. 0 \in 0..(Size - 1) /\ 2 * 0 = 0 /\ 0 < Size
          BY SizeFacts
        <5>. QED  BY <5>1, TwiceFacts
      <4>. QED  BY <1>8, <2>2, <4>1
    <3>2. path_history' = path_history
      <4>1. path_history \in 0..(Size - 1) /\ path_history' \in 0..(Size - 1)
        BY <1>9, PathType DEF AlphaInv, TypeOK, Histories, Size
      <4>2. RunLeft(taken, path_history) = 0 /\ RunLeft(taken, path_history') = 0
        BY <1>1, <1>8, <2>2, <3>1, RunStep
      <4>3. \A x, y \in 0..(Size - 1) :
               RunLeft(taken, x) = 0 /\ RunLeft(taken, y) = 0 => x = y
        BY SizeFacts DEF RunLeft
      <4>. QED  BY <4>1, <4>2, <4>3
    <3>3. PICK p \in Histories(PATH_BITS) : p = path_history
      BY DEF AlphaInv, TypeOK
    <3>4. Unlearnt(p, taken)' + Wrong(taken) <= Unlearnt(p, taken)
      BY <1>1, <3>3, Learns
    <3>5. /\ Unlearnt(p, taken)' = Unlearnt(path_history, Last)'
          /\ Unlearnt(p, taken) = Unlearnt(path_history, Last)
      BY <1>2, <1>8, <3>2, <3>3 DEF Unlearnt
    <3>6. Unlearnt(path_history, Last) \in 0..4
      BY <1>8, <3>3, UnlearntBound
    <3>7. missed' + Unlearnt(path_history, Last)' <= PATH_BITS + 4
      BY <1>1, <1>3, <1>4, <1>5, <1>8, <2>2, <3>4, <3>5, <3>6
    <3>. QED  BY <1>2, <3>1, <3>7 DEF StreakInv
  <2>. QED  BY <2>1, <2>2 DEF StreakInv
<1>. QED  BY <1>7, <1>8

LEMMA NextStreak == ASSUME AlphaInv, StreakInv, [Next]_vars PROVE StreakInv'
<1>1. CASE \E taken \in BOOLEAN : Resolve(taken)
  BY <1>1, StreakStep
<1>2. CASE ~\E taken \in BOOLEAN : Resolve(taken)
  BY <1>2 DEF Next, Ask, Predict, tables, vars, StreakInv, Last, Unlearnt
<1>. QED  BY <1>1, <1>2

\* alpha_predict mispredicts a run of equal outcomes, over any mix of branches and
\* after any training, at most PATH_BITS + 4 times: once for every history on the way,
\* and four times under the history the path settles in.
THEOREM StreaksAreLearnt == Spec => []StreakMissesBounded
<1>1. Init => StreakInv
  <2>. SUFFICES ASSUME Init PROVE StreakInv
    OBVIOUS
  <2>1. missed = 0 /\ path_history = 0
    BY DEF Init, alpha_setup
  <2>2. ~Last /\ RunLeft(Last, path_history) = 0
    BY <2>1 DEF Last, RunLeft
  <2>3. Doubled(0, RunLeft(Last, path_history)) /\ 0 \in 0..(PATH_BITS - 1)
    BY <2>2, SizeFacts, DoubledStart, AlphaAssumption
  <2>. QED  BY <2>1, <2>3 DEF StreakInv
<1>2. AlphaInv /\ StreakInv => StreakMissesBounded
  <2>. SUFFICES ASSUME AlphaInv, StreakInv PROVE missed <= PATH_BITS + 4
    BY DEF StreakMissesBounded
  <2>1. Unlearnt(path_history, Last) \in 0..4
    BY UnlearntBound DEF AlphaInv, TypeOK, Last
  <2>. QED  BY <2>1, AlphaAssumption DEF StreakInv, AlphaInv
<1>3. AlphaInv /\ StreakInv /\ [Next]_vars => StreakInv'
  BY NextStreak
<1>. QED  BY AlphaInvariant, <1>1, <1>2, <1>3, PTL DEF Spec

--------------------------------------------------------------------------------
(* A run of alternating outcomes *)

Third == Size \div 3

\* The history of a long run that alternates and ended with the outcome last.
Settles(last) ==
    IF Size % 3 = 1 THEN (IF last THEN Third ELSE 2 * Third)
    ELSE (IF last THEN 2 * Third + 1 ELSE Third)

LEMMA SettlesFacts ==
    /\ Settles(TRUE) \in 0..(Size - 1) /\ Settles(FALSE) \in 0..(Size - 1)
    /\ Settles(TRUE) # Settles(FALSE)
    /\ Settles(TRUE) = IF 2 * Settles(FALSE) + 1 < Size THEN 2 * Settles(FALSE) + 1
                       ELSE 2 * Settles(FALSE) + 1 - Size
    /\ Settles(FALSE) = IF 2 * Settles(TRUE) < Size THEN 2 * Settles(TRUE)
                        ELSE 2 * Settles(TRUE) - Size
<1>1. PICK n \in Nat \ {0} : n = Size /\ n % 3 # 0 /\ n >= 2
  <2>1. Size >= 2
    BY SizeFacts
  <2>. QED  BY <2>1, SizeFacts
<1>2. PICK q : q = n \div 3
  OBVIOUS
<1>3. /\ q \in Nat
      /\ \/ n % 3 = 1 /\ n = 3 * q + 1
         \/ n % 3 = 2 /\ n = 3 * q + 2
  BY <1>1, <1>2
<1>4. CASE n % 3 = 1 /\ n = 3 * q + 1
  BY <1>1, <1>2, <1>3, <1>4 DEF Settles, Third
<1>5. CASE n % 3 = 2 /\ n = 3 * q + 2
  BY <1>1, <1>2, <1>3, <1>5 DEF Settles, Third
<1>. QED  BY <1>3, <1>4, <1>5

\* How far a history is from it, modulo the size of the table.
AltLeft(last, path) ==
    IF path <= Settles(last) THEN Settles(last) - path ELSE Settles(last) - path + Size

\* The mispredictions the two histories it then takes in turn can still cost.
AltUnlearnt == Unlearnt(Settles(TRUE), FALSE) + Unlearnt(Settles(FALSE), TRUE)

AltInv ==
    \/ \E k \in 0..(PATH_BITS - 1) :
          Doubled(k, AltLeft(Last, path_history)) /\ surprised <= k
    \/ /\ AltLeft(Last, path_history) = 0
       /\ surprised + AltUnlearnt <= PATH_BITS + 8

LEMMA AltBound ==
    ASSUME AlphaInv
    PROVE  AltUnlearnt \in 0..8
<1>1. Settles(TRUE) \in Histories(PATH_BITS) /\ Settles(FALSE) \in Histories(PATH_BITS)
  BY SettlesFacts DEF Histories, Size
<1>2. PICK a \in 0..4 : a = Unlearnt(Settles(TRUE), FALSE)
  BY <1>1, UnlearntBound
<1>3. PICK b \in 0..4 : b = Unlearnt(Settles(FALSE), TRUE)
  BY <1>1, UnlearntBound
<1>4. AltUnlearnt = a + b
  BY <1>2, <1>3 DEF AltUnlearnt
<1>. QED  BY <1>4

LEMMA AltLearns ==
    ASSUME AlphaInv, AlphaInv', NEW taken \in BOOLEAN, UpdateWith(taken)
    PROVE  /\ AltUnlearnt' \in 0..8
           /\ path_history = Settles(~taken) => AltUnlearnt' + Wrong(taken) <= AltUnlearnt
<1>1. PICK high \in Histories(PATH_BITS) : high = Settles(TRUE)
  BY SettlesFacts DEF Histories, Size
<1>2. PICK low \in Histories(PATH_BITS) : low = Settles(FALSE) /\ low # high
  BY <1>1, SettlesFacts DEF Histories, Size
<1>3. PICK h \in 0..4 : h = Unlearnt(high, FALSE)
  BY UnlearntBound
<1>4. PICK l \in 0..4 : l = Unlearnt(low, TRUE)
  BY UnlearntBound
<1>5. PICK hh : hh = Unlearnt(high, FALSE)'
  OBVIOUS
<1>6. PICK ll : ll = Unlearnt(low, TRUE)'
  OBVIOUS
<1>7. AltUnlearnt = h + l
  BY <1>1, <1>2, <1>3, <1>4 DEF AltUnlearnt
<1>8. Unlearnt(Settles(TRUE), FALSE)' = hh /\ Unlearnt(Settles(FALSE), TRUE)' = ll
  BY <1>1, <1>2, <1>5, <1>6 DEF Unlearnt
<1>9. AltUnlearnt' = hh + ll
  BY <1>8 DEF AltUnlearnt
<1>10. hh \in 0..4 /\ ll \in 0..4
  <2>1. \A path \in Histories(PATH_BITS) :
           global_predict'[path] \in 0..3 /\ choice_predict'[path] \in 0..3
    BY DEF AlphaInv, TypeOK
  <2>. QED  BY <1>5, <1>6, <2>1 DEF Unlearnt
<1>11. PICK w \in 0..1 : w = Wrong(taken)
  BY DEF Wrong
<1>12. ASSUME taken, path_history = Settles(~taken) PROVE AltUnlearnt' + w <= AltUnlearnt
  <2>1. low = path_history
    BY <1>2, <1>12 DEF Settles
  <2>2. Unlearnt(low, taken)' + w <= Unlearnt(low, taken)
    BY <1>11, <2>1, Learns
  <2>3. Unlearnt(low, taken)' = ll /\ Unlearnt(low, taken) = l
    BY <1>4, <1>6, <1>12 DEF Unlearnt
  <2>4. hh = h
    BY <1>2, <1>3, <1>5, <2>1, Learns
  <2>5. ll + w <= l
    BY <2>2, <2>3
  <2>. QED  BY <1>7, <1>9, <1>10, <2>4, <2>5
<1>13. ASSUME ~taken, path_history = Settles(~taken) PROVE AltUnlearnt' + w <= AltUnlearnt
  <2>1. high = path_history
    BY <1>1, <1>13 DEF Settles
  <2>2. Unlearnt(high, taken)' + w <= Unlearnt(high, taken)
    BY <1>11, <2>1, Learns
  <2>3. Unlearnt(high, taken)' = hh /\ Unlearnt(high, taken) = h
    BY <1>3, <1>5, <1>13 DEF Unlearnt
  <2>4. ll = l
    BY <1>2, <1>4, <1>6, <2>1, Learns
  <2>5. hh + w <= h
    BY <2>2, <2>3
  <2>. QED  BY <1>7, <1>9, <1>10, <2>4, <2>5
<1>. QED  BY <1>9, <1>10, <1>11, <1>12, <1>13

LEMMA AltRange ==
    ASSUME NEW path \in 0..(Size - 1), NEW last \in BOOLEAN
    PROVE  AltLeft(last, path) \in 0..(Size - 1)
<1>1. Settles(last) \in 0..(Size - 1)
  BY SettlesFacts
<1>. QED  BY <1>1, SizeFacts DEF AltLeft

LEMMA AltStep ==
    ASSUME AlphaInv, NEW taken \in BOOLEAN, UpdateWith(taken)
    PROVE  /\ AltLeft(~taken, path_history) \in 0..(Size - 1)
           /\ AltLeft(taken, path_history') = Twice(AltLeft(~taken, path_history))
<1>1. PICK p : p = path_history
  OBVIOUS
<1>2. PICK b \in 0..1 : b = Bit(taken)
  BY DEF Bit
<1>3. p \in 0..(Size - 1)
  BY <1>1, PathType
<1>4. PICK pp : pp = path_history'
  OBVIOUS
<1>5. pp = IF 2 * p + b < Size THEN 2 * p + b ELSE 2 * p + b - Size
  <2>1. (2 * p + b) % Size = IF 2 * p + b < Size THEN 2 * p + b ELSE 2 * p + b - Size
    BY <1>3, SizeFacts, Doubling
  <2>. QED  BY <1>1, <1>2, <1>4, <2>1, NewOutcome
<1>6. PICK x : x = Settles(~taken)
  OBVIOUS
<1>7. PICK y : y = Settles(taken)
  OBVIOUS
<1>8. /\ x \in 0..(Size - 1) /\ y \in 0..(Size - 1)
      /\ y = IF 2 * x + b < Size THEN 2 * x + b ELSE 2 * x + b - Size
  <2>1. CASE taken
    <3>1. x = Settles(FALSE) /\ y = Settles(TRUE) /\ b = 1
      BY <1>2, <1>6, <1>7, <2>1 DEF Bit, Settles
    <3>. QED  BY <3>1, SettlesFacts
  <2>2. CASE ~taken
    <3>1. x = Settles(TRUE) /\ y = Settles(FALSE) /\ b = 0
      BY <1>2, <1>6, <1>7, <2>2 DEF Bit, Settles
    <3>2. x \in 0..(Size - 1) /\ y \in 0..(Size - 1)
      BY <3>1, SettlesFacts
    <3>3. y = IF 2 * x < Size THEN 2 * x ELSE 2 * x - Size
      BY <3>1, SettlesFacts
    <3>4. PICK n \in Nat : n = Size
      BY SizeFacts
    <3>5. y = IF 2 * x < n THEN 2 * x ELSE 2 * x - n
      BY <3>3, <3>4
    <3>6. x \in 0..(n - 1) /\ b = 0
      BY <3>1, <3>2, <3>4
    <3>7. y = IF 2 * x + b < n THEN 2 * x + b ELSE 2 * x + b - n
      BY <3>4, <3>5, <3>6
    <3>. QED  BY <3>2, <3>4, <3>7
  <2>. QED  BY <2>1, <2>2
<1>9. PICK d : d = AltLeft(~taken, p)
  OBVIOUS
<1>10. d \in 0..(Size - 1) /\ d = IF p <= x THEN x - p ELSE x - p + Size
  BY <1>3, <1>6, <1>9, AltRange DEF AltLeft
<1>11. Twice(d) = IF 2 * d < Size THEN 2 * d ELSE 2 * d - Size
  BY <1>10, TwiceFacts
<1>12. AltLeft(taken, pp) = IF pp <= y THEN y - pp ELSE y - pp + Size
  BY <1>7 DEF AltLeft
<1>13. AltLeft(taken, pp) = Twice(d)
  BY <1>3, <1>5, <1>8, <1>10, <1>11, <1>12, SizeFacts
<1>. QED  BY <1>1, <1>4, <1>9, <1>10, <1>13

LEMMA AltResolved ==
    ASSUME AlphaInv, AltInv, NEW taken \in BOOLEAN, Resolve(taken)
    PROVE  AltInv'
<1>. DEFINE left == AltLeft(~taken, path_history)
<1>1. /\ UpdateWith(taken)
      /\ surprised' = IF taken # Last THEN surprised + Wrong(taken) ELSE Wrong(taken)
      /\ surprised \in Nat /\ surprised' \in Nat
  BY DEF Resolve, Wrong, Last, AlphaInv
<1>2. /\ left \in 0..(Size - 1) /\ AltLeft(taken, path_history') = Twice(left)
      /\ Last' = taken
  BY <1>1, AltStep, RunStep
<1>3. AltLeft(Last, path_history)' = Twice(left)
  BY <1>2 DEF AltLeft
<1>4. Wrong(taken) \in 0..1 /\ PATH_BITS \in Nat \ {0}
  BY AlphaAssumption DEF Wrong
<1>5. AltUnlearnt' \in 0..8
  BY <1>1, AltLearns, ResolveTypes
<1>6. ASSUME NEW k \in 0..(PATH_BITS - 1), Doubled(k, left), surprised' <= k + 1
      PROVE  AltInv'
  <2>1. Doubled(k + 1, Twice(left))
    BY <1>2, <1>6, DoubledOn
  <2>2. CASE k + 1 <= PATH_BITS - 1
    BY <1>3, <1>4, <1>6, <2>1, <2>2 DEF AltInv
  <2>3. CASE k + 1 = PATH_BITS
    <3>1. Twice(left) = 0
      BY <2>1, <2>3, DoubledEnd
    <3>2. surprised' + AltUnlearnt' <= PATH_BITS + 8
      BY <1>1, <1>4, <1>5, <1>6, <2>3
    <3>. QED  BY <1>3, <3>1, <3>2 DEF AltInv
  <2>. QED  BY <1>4, <1>6, <2>2, <2>3
<1>7. CASE taken = Last
  <2>1. Doubled(0, left) /\ 0 \in 0..(PATH_BITS - 1)
    BY <1>2, <1>4, DoubledStart
  <2>2. surprised' <= 0 + 1
    BY <1>1, <1>4, <1>7
  <2>. QED  BY <1>6, <2>1, <2>2
<1>8. CASE taken # Last
  <2>1. AltLeft(Last, path_history) = left
    BY <1>8 DEF Last, AltLeft, Settles
  <2>2. CASE \E k \in 0..(PATH_BITS - 1) :
                Doubled(k, AltLeft(Last, path_history)) /\ surprised <= k
    <3>1. PICK k \in 0..(PATH_BITS - 1) : Doubled(k, left) /\ surprised <= k
      BY <2>1, <2>2
    <3>2. surprised' <= k + 1
      BY <1>1, <1>4, <1>8, <3>1
    <3>. QED  BY <1>6, <3>1, <3>2
  <2>3. CASE /\ AltLeft(Last, path_history) = 0
             /\ surprised + AltUnlearnt <= PATH_BITS + 8
    <3>1. left = 0
      BY <2>1, <2>3
    <3>2. Twice(left) = 0
      <4>1. Twice(0) = 0
        <5>1. 0 \in 0..(Size - 1) /\ 2 * 0 = 0 /\ 0 < Size
          BY SizeFacts
        <5>. QED  BY <5>1, TwiceFacts
      <4>. QED  BY <3>1, <4>1
    <3>3. path_history = Settles(~taken)
      <4>1. \A x, y \in 0..(Size - 1) : (IF x <= y THEN y - x ELSE y - x + Size) = 0 => x = y
        BY SizeFacts
      <4>2. path_history \in 0..(Size - 1) /\ Settles(~taken) \in 0..(Size - 1)
        BY PathType, SettlesFacts
      <4>3. PICK s : s = Settles(~taken)
        OBVIOUS
      <4>4. (IF path_history <= s THEN s - path_history ELSE s - path_history + Size) = 0
        BY <3>1, <4>3 DEF AltLeft
      <4>. QED  BY <4>1, <4>2, <4>3, <4>4
    <3>4. AltUnlearnt' + Wrong(taken) <= AltUnlearnt
      BY <1>1, <3>3, AltLearns, ResolveTypes
    <3>5. surprised' + AltUnlearnt' <= PATH_BITS + 8
      BY <1>1, <1>4, <1>5, <1>8, <2>3, <3>4, AltBound
    <3>. QED  BY <1>3, <3>2, <3>5 DEF AltInv
  <2>. QED  BY <2>2, <2>3 DEF AltInv
<1>. QED  BY <1>7, <1>8

LEMMA NextAlternation == ASSUME AlphaInv, AltInv, [Next]_vars PROVE AltInv'
<1>1. CASE \E taken \in BOOLEAN : Resolve(taken)
  BY <1>1, AltResolved
<1>2. CASE ~\E taken \in BOOLEAN : Resolve(taken)
  BY <1>2 DEF Next, Ask, Predict, tables, vars, AltInv, AltLeft, Last, AltUnlearnt, Unlearnt
<1>. QED  BY <1>1, <1>2

\* alpha_predict mispredicts a run of alternating outcomes, over any mix of branches,
\* at most PATH_BITS + 8 times: once for every history on the way, and four times under
\* each of the two histories the path then takes in turn.
THEOREM AlternationIsLearnt == Spec => []AlternationMissesBounded
<1>1. Init => AltInv
  <2>. SUFFICES ASSUME Init PROVE AltInv
    OBVIOUS
  <2>1. surprised = 0 /\ path_history = 0
    BY DEF Init, alpha_setup
  <2>2. AltLeft(Last, path_history) \in 0..(Size - 1)
    <3>1. Last \in BOOLEAN /\ path_history \in 0..(Size - 1)
      BY <2>1, SizeFacts DEF Last
    <3>. QED  BY <3>1, AltRange
  <2>3. Doubled(0, AltLeft(Last, path_history)) /\ 0 \in 0..(PATH_BITS - 1)
    BY <2>2, DoubledStart, AlphaAssumption
  <2>. QED  BY <2>1, <2>3 DEF AltInv
<1>2. AlphaInv /\ AltInv => AlternationMissesBounded
  <2>. SUFFICES ASSUME AlphaInv, AltInv PROVE surprised <= PATH_BITS + 8
    BY DEF AlternationMissesBounded
  <2>1. surprised \in Nat /\ PATH_BITS \in Nat /\ AltUnlearnt \in 0..8
    BY AltBound, AlphaAssumption DEF AlphaInv
  <2>2. CASE \E k \in 0..(PATH_BITS - 1) : surprised <= k
    BY <2>1, <2>2
  <2>3. CASE surprised + AltUnlearnt <= PATH_BITS + 8
    BY <2>1, <2>3
  <2>. QED  BY <2>2, <2>3 DEF AltInv
<1>3. AlphaInv /\ AltInv /\ [Next]_vars => AltInv'
  BY NextAlternation
<1>. QED  BY AlphaInvariant, <1>1, <1>2, <1>3, PTL DEF Spec
================================================================================
