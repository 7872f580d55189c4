------------------------------ MODULE ReaderProofs -------------------------------
(***************************************************************************)
(* TraceReader's safety for every INST_DELAY, every width of a uint it     *)
(* divides, every set of instructions and traces of any length.            *)
(***************************************************************************)
EXTENDS TraceReader, SequenceTheorems, TLAPS

Pending == prediction.valid /\ pc = "client"

\* The immediate judge is ahead of the statistics by the prediction that waits
\* for its score, and a conditional branch counts as predicted once scored.
ScoresAgree ==
    /\ fair.directions =
         stat.correct_bpredicts
             + (IF Pending /\ branch_record.is_conditional /\ DirectionRight
                THEN 1 ELSE 0)
    /\ fair.targets =
         stat.correct_tpredicts + (IF Pending /\ TargetRight THEN 1 ELSE 0)
    /\ stat.cc_branches =
         stat.predicts
             + (IF pc = "client" /\ branch_record.is_conditional THEN 1 ELSE 0)

\* The current branch is not scored yet.
RoomToScore ==
    pc = "client" =>
        IF stat.branches > 0 THEN stat.correct_tpredicts < stat.branches
        ELSE ~prediction.valid /\ ~branch_record.is_conditional

\* The order of the records is inductive by itself.  That the counters are bounded
\* by what they count depends on how far the scores are behind, and the final
\* score on the counters.
ReaderInv ==
    /\ TypeOK
    /\ RecordsAreInOrder
    /\ ScoresAgree
    /\ RoomToScore

--------------------------------------------------------------------------------
(* The ring *)

\* Where get_op_record(k) looks.
Place(ptr, k) == IF k <= ptr THEN ptr - k ELSE ptr - k + INST_DELAY

\* A multiple of the modulus does not change a remainder.
LEMMA ModMultiple ==
    ASSUME NEW n \in Nat, NEW m \in Nat \ {0}, NEW e \in 0..(m - 1)
    PROVE  (n * m + e) % m = e
<1>. DEFINE x == n * m + e
            u == x \div m
            v == x % m
            c == n - u
<1>1. n * m \in Nat
  OBVIOUS
<1>2. x \in Nat
  BY <1>1
<1>3. u \in Int /\ v \in 0..(m - 1) /\ x = u * m + v
  BY <1>2
<1>. HIDE DEF u, v
<1>4. c * m = v - e
  BY <1>3
<1>5. CASE c >= 1
  <2>1. c * m >= m
    BY <1>3, <1>5
  <2>. QED  BY <1>3, <1>4, <2>1
<1>6. CASE c <= -1
  <2>1. c * m <= -m
    BY <1>3, <1>6
  <2>. QED  BY <1>3, <1>4, <2>1
<1>7. CASE c = 0
  BY <1>3, <1>4, <1>7 DEF v
<1>. QED  BY <1>3, <1>5, <1>6, <1>7

\* The two reductions, of a difference of uints and then to the ring, come to
\* counting back around the ring, because the ring's size divides WORD.
LEMMA RecordAt ==
    ASSUME NEW o, o.op_list_ptr \in Slots, NEW k \in Slots
    PROVE  get_op_record(o, k) = o.op_list[Place(o.op_list_ptr, k)]
<1>. DEFINE ptr == o.op_list_ptr
            q == WORD \div INST_DELAY
            d == ptr - k
<1>. INST_DELAY \in Nat \ {0} /\ WORD \in Nat \ {0} /\ WORD % INST_DELAY = 0
  BY OpStateAssumption
<1>. ptr \in Nat /\ k \in Nat /\ ptr < INST_DELAY /\ k < INST_DELAY
  BY DEF Slots
<1>1. q \in Nat /\ WORD = q * INST_DELAY
  OBVIOUS
<1>2. q >= 1
  BY <1>1
<1>3. WORD >= INST_DELAY
  BY <1>1, <1>2
<1>4. CASE k <= ptr
  <2>1. d \in 0..(INST_DELAY - 1)
    BY <1>4
  <2>2. d % WORD = d
    BY <2>1, <1>3
  <2>3. d % INST_DELAY = d
    BY <2>1
  <2>. QED  BY <1>4, <2>2, <2>3 DEF get_op_record, Place
<1>5. CASE k > ptr
  <2>. DEFINE e == d + INST_DELAY
  <2>1. e \in 0..(INST_DELAY - 1)
    BY <1>5
  <2>2. d + WORD \in 0..(WORD - 1)
    BY <1>5, <1>3
  <2>3. d % WORD = d + WORD
    BY <2>2
  <2>4. d + WORD = (q - 1) * INST_DELAY + e
    BY <1>1
  <2>5. ((q - 1) * INST_DELAY + e) % INST_DELAY = e
    <3>1. q - 1 \in Nat
      BY <1>1, <1>2
    <3>. HIDE DEF q, e
    <3>. QED  BY <3>1, <2>1, ModMultiple
  <2>. QED  BY <1>5, <2>3, <2>4, <2>5 DEF get_op_record, Place
<1>. QED  BY <1>4, <1>5

\* Places are slots, and the pointer's next value is a slot.
LEMMA PlaceIsSlot ==
    ASSUME NEW p \in Slots, NEW k \in Slots
    PROVE  Place(p, k) \in Slots
BY OpStateAssumption DEF Slots, Place

LEMMA NextSlot ==
    ASSUME NEW p \in Slots
    PROVE  /\ (p + 1) % INST_DELAY \in Slots
           /\ (p + 1) % INST_DELAY = IF p = INST_DELAY - 1 THEN 0 ELSE p + 1
<1>. INST_DELAY \in Nat \ {0} /\ p \in Nat /\ p < INST_DELAY
  BY OpStateAssumption DEF Slots
<1>1. CASE p = INST_DELAY - 1
  BY <1>1 DEF Slots
<1>2. CASE p # INST_DELAY - 1
  BY <1>2 DEF Slots
<1>. QED  BY <1>1, <1>2

\* When the pointer moves on, what was k back is k + 1 back, and the slot it moves
\* to is reached by none of these.
LEMMA PlacesShift ==
    ASSUME NEW p \in Slots, NEW k \in Slots, k # 0
    PROVE  LET next == (p + 1) % INST_DELAY
           IN  /\ k - 1 \in Slots
               /\ Place(next, k) = Place(p, k - 1)
               /\ Place(next, k) # next
               /\ Place(next, 0) = next
<1>. INST_DELAY \in Nat \ {0} /\ p \in 0..(INST_DELAY - 1) /\ k \in 1..(INST_DELAY - 1)
  BY OpStateAssumption DEF Slots
<1>1. CASE p = INST_DELAY - 1
  BY <1>1, NextSlot DEF Place, Slots
<1>2. CASE p # INST_DELAY - 1
  BY <1>2, NextSlot DEF Place, Slots
<1>. QED  BY <1>1, <1>2

\* A turn keeps the architectural state's type and moves clock and pointer.
LEMMA TurnType ==
    ASSUME NEW o \in OpStates, NEW inst \in Insts
    PROVE  /\ Turn(o, inst) \in OpStates
           /\ Turn(o, inst).clock = o.clock + 1
           /\ Turn(o, inst).op_list_ptr = (o.op_list_ptr + 1) % INST_DELAY
           /\ Turn(o, inst).op_list =
                [o.op_list EXCEPT ![(o.op_list_ptr + 1) % INST_DELAY] =
                    Loaded(inst, o.clock + 1)]
<1>. DEFINE ticked == inc_clock(o)
            op == ticked.op_list[ticked.op_list_ptr]
            committed == Commit(ticked, op)
            record == Loaded(inst, ticked.clock)
<1>1. /\ ticked \in OpStates
      /\ ticked.clock = o.clock + 1
      /\ ticked.op_list_ptr = (o.op_list_ptr + 1) % INST_DELAY
      /\ ticked.op_list = o.op_list
  <2>1. /\ o.clock + 1 \in Nat
        /\ (o.op_list_ptr + 1) % INST_DELAY \in Slots
    BY NextSlot DEF OpStates
  <2>. QED  BY <2>1 DEF OpStates, inc_clock
<1>2. record \in Records
  BY <1>1, OpStateAssumption DEF Loaded, Records, OpStates
<1>. HIDE DEF ticked
<1>3. op \in Records
  BY <1>1 DEF OpStates
<1>. HIDE DEF op, record
<1>4. /\ committed \in OpStates
      /\ committed.clock = ticked.clock
      /\ committed.op_list_ptr = ticked.op_list_ptr
      /\ committed.op_list = ticked.op_list
  <2>1. CASE op.is_valid /\ op.dst # REG_NUL
    <3>1. op.dst \in Regs
      BY <1>3, <2>1 DEF Records
    <3>2. op.dst_val \in {i.dst_val : i \in Insts} \cup {0}
      BY <1>3 DEF Records
    <3>. QED  BY <1>1, <2>1, <3>1, <3>2 DEF Commit, OpStates
  <2>2. CASE ~(op.is_valid /\ op.dst # REG_NUL)
    BY <1>1, <2>2 DEF Commit
  <2>. QED  BY <2>1, <2>2
<1>. HIDE DEF committed
<1>5. Turn(o, inst) = [committed EXCEPT !.op_list[ticked.op_list_ptr] = record]
  BY DEF Turn, ticked, op, committed, record
<1>6. /\ Turn(o, inst) \in OpStates
      /\ Turn(o, inst).clock = committed.clock
      /\ Turn(o, inst).op_list_ptr = committed.op_list_ptr
      /\ Turn(o, inst).op_list =
            [committed.op_list EXCEPT ![ticked.op_list_ptr] = record]
  BY <1>1, <1>2, <1>4, <1>5 DEF OpStates
<1>. QED  BY <1>1, <1>4, <1>6 DEF record

\* The order of the records of a state, whatever the machine around it.
InOrder(o) ==
    \A k \in Slots :
        LET op == get_op_record(o, k)
        IN  IF k < o.clock
            THEN op.is_valid /\ op.clock_time_set = o.clock - k
            ELSE ~op.is_valid

\* After a turn the new record is the most recent, and every other one is one
\* instruction further back.
LEMMA TurnShifts ==
    ASSUME NEW o \in OpStates, NEW inst \in Insts
    PROVE  /\ get_op_record(Turn(o, inst), 0) = Loaded(inst, o.clock + 1)
           /\ \A k \in Slots : k # 0 =>
                /\ k - 1 \in Slots
                /\ get_op_record(Turn(o, inst), k) = get_op_record(o, k - 1)
<1>. DEFINE n == Turn(o, inst)
            next == (o.op_list_ptr + 1) % INST_DELAY
<1>1. /\ n.op_list_ptr = next
      /\ n.op_list = [o.op_list EXCEPT ![next] = Loaded(inst, o.clock + 1)]
  BY TurnType
<1>2. /\ o.op_list_ptr \in Slots
      /\ o.op_list \in [Slots -> Records]
      /\ next \in Slots
      /\ 0 \in Slots
  BY NextSlot, OpStateAssumption DEF OpStates, Slots
<1>. HIDE DEF n, next
<1>3. \A k \in Slots : get_op_record(n, k) = n.op_list[Place(next, k)]
  BY <1>1, <1>2, RecordAt
<1>4. get_op_record(n, 0) = Loaded(inst, o.clock + 1)
  <2>1. Place(next, 0) = next
    BY <1>2 DEF Place, Slots
  <2>. QED  BY <1>1, <1>2, <1>3, <2>1
<1>5. ASSUME NEW k \in Slots, k # 0
      PROVE  k - 1 \in Slots /\ get_op_record(n, k) = get_op_record(o, k - 1)
  <2>1. /\ k - 1 \in Slots
        /\ Place(next, k) = Place(o.op_list_ptr, k - 1)
        /\ Place(next, k) # next
    BY <1>2, <1>5, PlacesShift DEF next
  <2>2. Place(next, k) \in Slots
    BY <1>2, PlaceIsSlot
  <2>3. get_op_record(o, k - 1) = o.op_list[Place(o.op_list_ptr, k - 1)]
    BY <1>2, <2>1, RecordAt
  <2>. QED  BY <1>1, <1>2, <1>3, <2>1, <2>2, <2>3
<1>. QED  BY <1>4, <1>5 DEF n

\* A turn keeps the records in order.
LEMMA TurnKeepsOrder ==
    ASSUME NEW o \in OpStates, NEW inst \in Insts, InOrder(o)
    PROVE  InOrder(Turn(o, inst))
<1>. DEFINE n == Turn(o, inst)
<1>1. n.clock = o.clock + 1 /\ o.clock \in Nat
  BY TurnType DEF OpStates
<1>2. /\ get_op_record(n, 0) = Loaded(inst, o.clock + 1)
      /\ \A k \in Slots : k # 0 =>
            k - 1 \in Slots /\ get_op_record(n, k) = get_op_record(o, k - 1)
  BY TurnShifts
<1>. HIDE DEF n
<1>. SUFFICES ASSUME NEW k \in Slots
              PROVE  IF k < n.clock
                     THEN /\ get_op_record(n, k).is_valid
                          /\ get_op_record(n, k).clock_time_set = n.clock - k
                     ELSE ~get_op_record(n, k).is_valid
  BY DEF InOrder, n
<1>3. CASE k = 0
  BY <1>1, <1>2, <1>3 DEF Loaded
<1>4. CASE k # 0
  <2>1. IF k - 1 < o.clock
        THEN /\ get_op_record(o, k - 1).is_valid
             /\ get_op_record(o, k - 1).clock_time_set = o.clock - (k - 1)
        ELSE ~get_op_record(o, k - 1).is_valid
    BY <1>2, <1>4 DEF InOrder
  <2>2. k \in Nat
    BY DEF Slots
  <2>. QED  BY <1>1, <1>2, <1>4, <2>1, <2>2
<1>. QED  BY <1>3, <1>4

--------------------------------------------------------------------------------
(* Every step *)

LEMMA OrderIsInOrder == RecordsAreInOrder <=> InOrder(os)
BY DEF RecordsAreInOrder, InOrder

LEMMA ReaderInvInit == Init => ReaderInv
<1>. SUFFICES ASSUME Init PROVE ReaderInv
  OBVIOUS
<1>1. /\ NewOpState.clock = 0
      /\ NewOpState.op_list_ptr = 0
      /\ NewOpState.op_list = [s \in Slots |-> EmptyRecord]
  BY DEF NewOpState
<1>2. 0 \in Slots
  BY OpStateAssumption DEF Slots
<1>3. NewOpState \in OpStates
  BY <1>2 DEF NewOpState, OpStates, EmptyRecord, Records
<1>4. TypeOK
  BY <1>1, <1>3, ReaderAssumption DEF Init, TypeOK, EmptyRecord
<1>5. RecordsAreInOrder
  <2>. SUFFICES ASSUME NEW k \in Slots
                PROVE  ~(k < os.clock) /\ ~get_op_record(os, k).is_valid
    BY DEF RecordsAreInOrder
  <2>1. os = NewOpState
    BY DEF Init
  <2>2. get_op_record(os, k) = NewOpState.op_list[Place(0, k)]
    BY <1>1, <1>2, <2>1, RecordAt
  <2>3. Place(0, k) \in Slots
    BY <1>2, PlaceIsSlot
  <2>. QED  BY <1>1, <2>1, <2>2, <2>3 DEF EmptyRecord, Slots
<1>6. ScoresAgree /\ RoomToScore
  BY DEF Init, ScoresAgree, RoomToScore, Pending
<1>. QED  BY <1>4, <1>5, <1>6 DEF ReaderInv

LEMMA ScoreKeepsInv ==
    ASSUME ReaderInv, Score
    PROVE  ReaderInv'
<1>1. TypeOK'
  <2>1. CASE stat.branches = 0
    BY <2>1 DEF ReaderInv, Score, TypeOK
  <2>2. CASE stat.branches # 0
    <3>. DEFINE p == IF branch_record.is_conditional THEN stat.predicts + 1
                     ELSE stat.predicts
                cb == IF prediction.valid /\ branch_record.is_conditional
                          /\ DirectionRight
                      THEN stat.correct_bpredicts + 1 ELSE stat.correct_bpredicts
                ct == IF prediction.valid /\ TargetRight
                      THEN stat.correct_tpredicts + 1 ELSE stat.correct_tpredicts
    <3>1. stat' = [stat EXCEPT !.predicts = p, !.correct_bpredicts = cb,
                              !.correct_tpredicts = ct]
      BY <2>2 DEF Score
    <3>2. stat \in [branches : Nat, cc_branches : Nat, predicts : Nat,
                    correct_bpredicts : Nat, correct_tpredicts : Nat]
      BY DEF ReaderInv, TypeOK
    <3>3. p \in Nat /\ cb \in Nat /\ ct \in Nat
      BY <3>2
    <3>4. /\ cb <= p
          /\ ct <= stat.correct_tpredicts + 1
          /\ p <= stat.cc_branches
      BY <3>2 DEF ReaderInv, TypeOK, ScoresAgree, Score
    <3>. HIDE DEF p, cb, ct
    <3>5. /\ stat' \in [branches : Nat, cc_branches : Nat, predicts : Nat,
                        correct_bpredicts : Nat, correct_tpredicts : Nat]
          /\ stat'.branches = stat.branches
          /\ stat'.cc_branches = stat.cc_branches
          /\ stat'.predicts = p
          /\ stat'.correct_bpredicts = cb
          /\ stat'.correct_tpredicts = ct
      BY <3>1, <3>2, <3>3
    <3>6. stat.correct_tpredicts < stat.branches
      BY <2>2 DEF ReaderInv, TypeOK, RoomToScore, Score
    <3>7. ct <= stat.branches
      BY <3>2, <3>3, <3>4, <3>6
    <3>. QED  BY <3>5, <3>7, <3>4 DEF ReaderInv, TypeOK, Score
  <2>. QED  BY <2>1, <2>2
<1>2. RecordsAreInOrder'
  BY DEF ReaderInv, Score, RecordsAreInOrder
<1>3. ScoresAgree'
  BY DEF ReaderInv, Score, TypeOK, ScoresAgree, RoomToScore, Pending,
     DirectionRight, TargetRight
<1>4. RoomToScore'
  BY DEF Score, RoomToScore
<1>. QED  BY <1>1, <1>2, <1>3, <1>4 DEF ReaderInv

\* What the two steps that read an instruction do to the architectural state.
LEMMA TurnKeepsType ==
    ASSUME ReaderInv, NEW inst \in Insts, os' = Turn(os, inst), os.clock < MaxInsts
    PROVE  /\ os' \in OpStates
           /\ os'.clock = os.clock + 1
           /\ os'.clock <= MaxInsts
           /\ \A s \in Slots : os'.op_list[s].clock_time_set <= os'.clock
           /\ RecordsAreInOrder'
<1>1. os \in OpStates /\ InOrder(os)
  BY OrderIsInOrder DEF ReaderInv, TypeOK
<1>2. os.clock \in Nat /\ os.op_list \in [Slots -> Records]
  BY <1>1 DEF OpStates
<1>3. /\ os' \in OpStates
      /\ os'.clock = os.clock + 1
      /\ os'.op_list = [os.op_list EXCEPT ![(os.op_list_ptr + 1) % INST_DELAY] =
                            Loaded(inst, os.clock + 1)]
  BY <1>1, TurnType
<1>4. InOrder(os')
  BY <1>1, TurnKeepsOrder
<1>5. RecordsAreInOrder'
  BY <1>4 DEF RecordsAreInOrder, InOrder
<1>6. os'.clock <= MaxInsts
  BY <1>2, <1>3, ReaderAssumption
<1>7. ASSUME NEW s \in Slots
      PROVE  os'.op_list[s].clock_time_set <= os'.clock
  <2>1. os.op_list[s].clock_time_set \in Nat
    BY <1>2 DEF Records
  <2>2. os.op_list[s].clock_time_set <= os.clock
    BY DEF ReaderInv, TypeOK
  <2>3. os'.op_list[s] = os.op_list[s] \/ os'.op_list[s] = Loaded(inst, os.clock + 1)
    BY <1>2, <1>3
  <2>. QED  BY <1>2, <1>3, <2>1, <2>2, <2>3 DEF Loaded
<1>. QED  BY <1>3, <1>5, <1>6, <1>7

LEMMA ReadOpKeepsInv ==
    ASSUME ReaderInv, NEW inst \in Insts, ReadOp(inst)
    PROVE  ReaderInv'
<1>1. /\ os' \in OpStates
      /\ os'.clock = os.clock + 1
      /\ os'.clock <= MaxInsts
      /\ \A s \in Slots : os'.op_list[s].clock_time_set <= os'.clock
      /\ RecordsAreInOrder'
  BY TurnKeepsType DEF ReadOp
<1>2. TypeOK'
  BY <1>1 DEF ReaderInv, ReadOp, TypeOK, OpStates
<1>3. ScoresAgree' /\ RoomToScore'
  BY DEF ReaderInv, ReadOp, ScoresAgree, RoomToScore, Pending,
     DirectionRight, TargetRight
<1>. QED  BY <1>1, <1>2, <1>3 DEF ReaderInv

LEMMA ReadBranchKeepsInv ==
    ASSUME ReaderInv, NEW inst \in Insts, ReadBranch(inst)
    PROVE  ReaderInv'
<1>1. /\ os' \in OpStates
      /\ os'.clock = os.clock + 1
      /\ os'.clock <= MaxInsts
      /\ \A s \in Slots : os'.op_list[s].clock_time_set <= os'.clock
      /\ RecordsAreInOrder'
  BY TurnKeepsType DEF ReadBranch
<1>2. /\ inst.is_conditional \in BOOLEAN
      /\ inst.taken \in BOOLEAN
      /\ inst.branch_target \in Targets
  BY ReaderAssumption
<1>3. os.clock \in Nat
  BY DEF ReaderInv, TypeOK, OpStates
<1>4. TypeOK'
  <2>1. /\ branch_record'.is_conditional \in BOOLEAN
        /\ truth' \in [taken : BOOLEAN, target : Targets \cup {0}]
        /\ prediction' \in [valid : BOOLEAN, taken : BOOLEAN,
                            target : Targets \cup {0}]
    BY <1>2 DEF ReaderInv, ReadBranch, TypeOK
  <2>2. /\ stat' \in [branches : Nat, cc_branches : Nat, predicts : Nat,
                      correct_bpredicts : Nat, correct_tpredicts : Nat]
        /\ stat'.branches <= os.clock + 1
        /\ stat'.cc_branches <= stat'.branches
        /\ stat'.predicts <= stat'.cc_branches
        /\ stat'.correct_bpredicts <= stat'.predicts
        /\ stat'.correct_tpredicts <= stat'.branches
    <3>. DEFINE cc == IF inst.is_conditional THEN stat.cc_branches + 1
                      ELSE stat.cc_branches
                n == stat.branches + 1
    <3>1. stat' = [stat EXCEPT !.branches = n, !.cc_branches = cc]
      BY DEF ReadBranch
    <3>2. /\ stat \in [branches : Nat, cc_branches : Nat, predicts : Nat,
                       correct_bpredicts : Nat, correct_tpredicts : Nat]
          /\ stat.branches <= os.clock
          /\ stat.cc_branches <= stat.branches
          /\ stat.predicts <= stat.cc_branches
          /\ stat.correct_bpredicts <= stat.predicts
          /\ stat.correct_tpredicts <= stat.branches
      BY DEF ReaderInv, TypeOK
    <3>3. /\ cc \in Nat /\ n \in Nat /\ cc <= n /\ stat.cc_branches <= cc
          /\ n <= os.clock + 1 /\ stat.correct_tpredicts <= n
      BY <1>3, <3>2
    <3>. HIDE DEF cc, n
    <3>4. /\ stat'.branches = n
          /\ stat'.cc_branches = cc
          /\ stat'.predicts = stat.predicts
          /\ stat'.correct_bpredicts = stat.correct_bpredicts
          /\ stat'.correct_tpredicts = stat.correct_tpredicts
          /\ stat' \in [branches : Nat, cc_branches : Nat, predicts : Nat,
                        correct_bpredicts : Nat, correct_tpredicts : Nat]
      BY <3>1, <3>2, <3>3
    <3>. QED  BY <1>3, <3>2, <3>3, <3>4
  <2>. QED  BY <1>1, <2>1, <2>2 DEF ReaderInv, ReadBranch, TypeOK
<1>5. ScoresAgree'
  BY <1>2 DEF ReaderInv, ReadBranch, TypeOK, ScoresAgree, Pending
<1>6. RoomToScore'
  BY <1>3 DEF ReaderInv, ReadBranch, TypeOK, RoomToScore
<1>. QED  BY <1>1, <1>4, <1>5, <1>6 DEF ReaderInv

LEMMA PredictKeepsInv ==
    ASSUME ReaderInv, NEW taken \in BOOLEAN, NEW target \in Targets,
           PredictBranch(taken, target)
    PROVE  ReaderInv'
<1>1. CASE prediction.valid
  BY <1>1 DEF ReaderInv, PredictBranch, TypeOK, RecordsAreInOrder, ScoresAgree,
     RoomToScore, Pending, DirectionRight, TargetRight
<1>2. CASE ~prediction.valid
  <2>1. ScoresAgree'
    BY <1>2 DEF ReaderInv, PredictBranch, TypeOK, ScoresAgree, Pending,
       DirectionRight, TargetRight
  <2>2. RoomToScore'
    BY <1>2 DEF ReaderInv, PredictBranch, RoomToScore
  <2>3. TypeOK'
    <3>1. fair' \in [directions : Nat, targets : Nat]
      <4>. DEFINE d == IF branch_record.is_conditional /\ taken = truth.taken
                       THEN 1 ELSE 0
                  t == IF taken = truth.taken /\ (taken => target = truth.target)
                       THEN 1 ELSE 0
      <4>1. fair' = [directions |-> fair.directions + d, targets |-> fair.targets + t]
        BY <1>2 DEF PredictBranch
      <4>2. fair \in [directions : Nat, targets : Nat]
        BY DEF ReaderInv, TypeOK
      <4>3. d \in Nat /\ t \in Nat
        OBVIOUS
      <4>. HIDE DEF d, t
      <4>. QED  BY <4>1, <4>2, <4>3
    <3>2. prediction' \in [valid : BOOLEAN, taken : BOOLEAN,
                          target : Targets \cup {0}]
      <4>1. prediction' = [valid |-> TRUE, taken |-> taken, target |-> target]
        BY <1>2 DEF PredictBranch
      <4>2. target \in Targets \cup {0} /\ TRUE \in BOOLEAN
        OBVIOUS
      <4>. QED  BY <4>1, <4>2, Zenon
    <3>. QED  BY <3>1, <3>2 DEF ReaderInv, PredictBranch, TypeOK
  <2>4. RecordsAreInOrder'
    BY DEF ReaderInv, PredictBranch, RecordsAreInOrder
  <2>. QED  BY <2>1, <2>2, <2>3, <2>4 DEF ReaderInv
<1>. QED  BY <1>1, <1>2

LEMMA ReaderInvNext == ReaderInv /\ [Next]_vars => ReaderInv'
<1>. SUFFICES ASSUME ReaderInv, [Next]_vars PROVE ReaderInv'
  OBVIOUS
<1>1. CASE Score
  BY <1>1, ScoreKeepsInv
<1>2. CASE EndOfTrace
  BY <1>2 DEF EndOfTrace, ReaderInv, TypeOK, RecordsAreInOrder, ScoresAgree,
     RoomToScore, Pending, DirectionRight, TargetRight
<1>3. ASSUME NEW inst \in Insts, ReadOp(inst) \/ ReadBranch(inst)
      PROVE  ReaderInv'
  BY <1>3, ReadOpKeepsInv, ReadBranchKeepsInv
<1>4. ASSUME NEW taken \in BOOLEAN, NEW target \in Targets,
             PredictBranch(taken, target)
      PROVE  ReaderInv'
  BY <1>4, PredictKeepsInv
<1>5. CASE UNCHANGED vars
  BY <1>5 DEF vars, ReaderInv, TypeOK, RecordsAreInOrder, ScoresAgree,
     RoomToScore, Pending, DirectionRight, TargetRight
<1>. QED  BY <1>1, <1>2, <1>3, <1>4, <1>5 DEF Next

LEMMA ReaderInvariant == Spec => []ReaderInv
<1>. QED  BY ReaderInvInit, ReaderInvNext, PTL DEF Spec

--------------------------------------------------------------------------------
(* Theorems *)

\* The architectural state, the pending prediction and the statistics keep their
\* types, and every counter is bounded by what it counts.
THEOREM ReaderTypeCorrect == Spec => []TypeOK
<1>1. ReaderInv => TypeOK
  BY DEF ReaderInv
<1>. QED  BY <1>1, ReaderInvariant, PTL

\* get_op_record(k) is the record of k instructions ago, for a ring of any size.
THEOREM ReaderOrder == Spec => []RecordsAreInOrder
<1>1. ReaderInv => RecordsAreInOrder
  BY DEF ReaderInv
<1>. QED  BY <1>1, ReaderInvariant, PTL

\* No record in reach of the predictor has its values available.
THEOREM ReaderKeepsValues == Spec => []NoEarlyValues
<1>1. ReaderInv => NoEarlyValues
  <2>. SUFFICES ASSUME ReaderInv, NEW k \in Slots, get_op_record(os, k).is_valid
                PROVE  ~are_values_available(os, get_op_record(os, k))
    BY DEF NoEarlyValues
  <2>1. k < os.clock /\ get_op_record(os, k).clock_time_set = os.clock - k
    BY DEF ReaderInv, RecordsAreInOrder
  <2>2. os.clock \in Nat /\ k \in Nat /\ k < INST_DELAY /\ INST_DELAY \in Nat
    BY OpStateAssumption DEF ReaderInv, TypeOK, OpStates, Slots
  <2>. QED  BY <2>1, <2>2 DEF are_values_available
<1>. QED  BY <1>1, ReaderInvariant, PTL

\* The record that the next turn of the loop commits is due then: the assertion
\* in get_dst_val holds for it, and has only just come to hold.
CommitIsDue ==
    LET ticked == inc_clock(os)
        op == ticked.op_list[ticked.op_list_ptr]
    IN  op.is_valid => /\ are_values_available(ticked, op)
                       /\ ~are_values_available(os, op)

\* No commit trips the assertion, and none is late.
THEOREM ReaderCommits == Spec => []CommitIsDue
<1>1. ReaderInv => CommitIsDue
  <2>. DEFINE ticked == inc_clock(os)
              op == ticked.op_list[ticked.op_list_ptr]
              last == INST_DELAY - 1
  <2>. SUFFICES ASSUME ReaderInv, op.is_valid
                PROVE  /\ are_values_available(ticked, op)
                       /\ ~are_values_available(os, op)
    BY DEF CommitIsDue
  <2>1. /\ os \in OpStates
        /\ os.op_list_ptr \in Slots
        /\ os.clock \in Nat
    BY DEF ReaderInv, TypeOK, OpStates
  <2>2. /\ ticked.clock = os.clock + 1
        /\ op = os.op_list[(os.op_list_ptr + 1) % INST_DELAY]
    BY <2>1 DEF inc_clock, OpStates
  <2>3. last \in Slots /\ last \in Nat /\ INST_DELAY \in Nat
    BY OpStateAssumption DEF Slots
  <2>4. (os.op_list_ptr + 1) % INST_DELAY = Place(os.op_list_ptr, last)
    BY <2>1, NextSlot, OpStateAssumption DEF Place, Slots
  <2>5. op = get_op_record(os, last)
    BY <2>1, <2>2, <2>3, <2>4, RecordAt
  <2>6. op.clock_time_set = os.clock - last
    BY <2>3, <2>5 DEF ReaderInv, RecordsAreInOrder
  <2>. HIDE DEF op, ticked
  <2>. QED  BY <2>1, <2>2, <2>3, <2>6 DEF are_values_available
<1>. QED  BY <1>1, ReaderInvariant, PTL

\* Deferred scoring comes to the score of an immediate judge, whatever the client
\* does and however long the trace.
THEOREM ReaderScoresFairly == Spec => []FinalScoreIsFair
<1>1. ReaderInv => FinalScoreIsFair
  BY DEF ReaderInv, TypeOK, ScoresAgree, Pending, FinalScoreIsFair
<1>. QED  BY <1>1, ReaderInvariant, PTL

--------------------------------------------------------------------------------
(* The ring is a delay line *)

InstOf(op) == CHOOSE inst \in Insts : inst.what = op.what

\* Every record in the ring is that of an instruction, as it was read.
Faithful(o) ==
    \A k \in Slots : k < o.clock =>
        \E inst \in Insts : get_op_record(o, k) = Loaded(inst, o.clock - k)

\* The mapping, for any state of the ring.
Waiting(o) ==
    LET n == IF o.clock < INST_DELAY THEN o.clock ELSE INST_DELAY
    IN  [k \in 1..n |-> InstOf(get_op_record(o, n - k))]

Shown(o) == [r \in Regs |-> IF o.regs_valid[r] THEN <<o.regs[r]>> ELSE << >>]

LEMMA InstOfLoaded ==
    ASSUME NamesTellApart, NEW inst \in Insts, NEW clock
    PROVE  InstOf(Loaded(inst, clock)) = inst
BY DEF NamesTellApart, InstOf, Loaded

LEMMA TurnKeepsFaith ==
    ASSUME NEW o \in OpStates, NEW inst \in Insts, Faithful(o)
    PROVE  Faithful(Turn(o, inst))
<1>. DEFINE n == Turn(o, inst)
<1>1. n.clock = o.clock + 1 /\ o.clock \in Nat
  BY TurnType DEF OpStates
<1>2. /\ get_op_record(n, 0) = Loaded(inst, o.clock + 1)
      /\ \A k \in Slots : k # 0 =>
            k - 1 \in Slots /\ get_op_record(n, k) = get_op_record(o, k - 1)
  BY TurnShifts
<1>. HIDE DEF n
<1>. SUFFICES ASSUME NEW k \in Slots, k < n.clock
              PROVE  \E i \in Insts : get_op_record(n, k) = Loaded(i, n.clock - k)
  BY DEF Faithful, n
<1>3. CASE k = 0
  BY <1>1, <1>2, <1>3
<1>4. CASE k # 0
  <2>1. k \in Nat /\ k - 1 \in Slots /\ k - 1 < o.clock
    BY <1>1, <1>2, <1>4 DEF Slots
  <2>2. PICK i \in Insts : get_op_record(o, k - 1) = Loaded(i, o.clock - (k - 1))
    BY <2>1 DEF Faithful
  <2>3. o.clock - (k - 1) = n.clock - k
    BY <1>1, <2>1
  <2>. QED  BY <1>2, <1>4, <2>2, <2>3
<1>. QED  BY <1>3, <1>4

\* The oldest record of the ring is the one a turn commits.
LEMMA TurnShows ==
    ASSUME NEW o \in OpStates, NEW inst \in Insts
    PROVE  LET op == get_op_record(o, INST_DELAY - 1)
           IN  Shown(Turn(o, inst)) =
                 IF op.is_valid /\ op.dst # REG_NUL
                 THEN [Shown(o) EXCEPT ![op.dst] = <<op.dst_val>>]
                 ELSE Shown(o)
<1>. DEFINE last == INST_DELAY - 1
            op == get_op_record(o, last)
            ticked == inc_clock(o)
            committed == Commit(ticked, op)
            next == (o.op_list_ptr + 1) % INST_DELAY
<1>1. /\ o.op_list_ptr \in Slots
      /\ last \in Slots
      /\ next \in Slots
      /\ next = Place(o.op_list_ptr, last)
      /\ Place(o.op_list_ptr, last) \in Slots
  <2>1. last \in Slots /\ o.op_list_ptr \in Slots
    BY OpStateAssumption DEF Slots, OpStates
  <2>. QED  BY <2>1, NextSlot, PlaceIsSlot, OpStateAssumption DEF Place, Slots
<1>2. op = o.op_list[next] /\ op \in Records
  BY <1>1, RecordAt DEF OpStates
<1>3. /\ ticked.op_list_ptr = next
      /\ ticked.op_list = o.op_list
      /\ ticked.regs = o.regs
      /\ ticked.regs_valid = o.regs_valid
      /\ ticked \in OpStates
  <2>1. o.clock + 1 \in Nat /\ next \in Slots
    BY <1>1 DEF OpStates
  <2>. QED  BY <2>1 DEF inc_clock, OpStates
<1>. HIDE DEF op, ticked, next, last
<1>4. Turn(o, inst) = [committed EXCEPT !.op_list[next] = Loaded(inst, ticked.clock)]
  BY <1>2, <1>3 DEF Turn, ticked
<1>5. CASE op.is_valid /\ op.dst # REG_NUL
  <2>1. op.dst \in Regs
    BY <1>2, <1>5 DEF Records
  <2>2. /\ committed \in [clock : Nat, op_list_ptr : Slots, op_list : [Slots -> Records],
                          regs : [Regs -> {i.dst_val : i \in Insts} \cup {0}],
                          regs_valid : [Regs -> BOOLEAN]]
        /\ committed.regs = [o.regs EXCEPT ![op.dst] = op.dst_val]
        /\ committed.regs_valid = [o.regs_valid EXCEPT ![op.dst] = TRUE]
    <3>1. op.dst_val \in {i.dst_val : i \in Insts} \cup {0}
      BY <1>2 DEF Records
    <3>. QED  BY <1>3, <1>5, <2>1, <3>1 DEF Commit, OpStates
  <2>. HIDE DEF committed
  <2>3. /\ Turn(o, inst).regs = committed.regs
        /\ Turn(o, inst).regs_valid = committed.regs_valid
    BY <1>4, <2>2
  <2>4. o.regs \in [Regs -> {i.dst_val : i \in Insts} \cup {0}]
        /\ o.regs_valid \in [Regs -> BOOLEAN]
    BY DEF OpStates
  <2>5. \A r \in Regs :
          /\ Turn(o, inst).regs[r] = IF r = op.dst THEN op.dst_val ELSE o.regs[r]
          /\ Turn(o, inst).regs_valid[r] = IF r = op.dst THEN TRUE ELSE o.regs_valid[r]
    BY <2>1, <2>2, <2>3, <2>4
  <2>6. Shown(Turn(o, inst)) = [Shown(o) EXCEPT ![op.dst] = <<op.dst_val>>]
    BY <2>1, <2>5 DEF Shown
  <2>. QED  BY <1>5, <2>6 DEF op, last
<1>6. CASE ~(op.is_valid /\ op.dst # REG_NUL)
  <2>1. committed = ticked
    BY <1>6 DEF Commit
  <2>2. /\ Turn(o, inst).regs = o.regs
        /\ Turn(o, inst).regs_valid = o.regs_valid
    BY <1>3, <1>4, <2>1 DEF OpStates
  <2>. QED  BY <1>6, <2>2 DEF Shown, op, last
<1>. QED  BY <1>5, <1>6

\* The instruction of k turns ago, for a ring whose records are in order.
LEMMA RecordTells ==
    ASSUME NamesTellApart, NEW o \in OpStates, Faithful(o), InOrder(o),
           NEW k \in Slots, k < o.clock
    PROVE  LET op == get_op_record(o, k)
           IN  /\ InstOf(op) \in Insts
               /\ op.is_valid
               /\ op.dst = InstOf(op).dst
               /\ op.dst_val = InstOf(op).dst_val
<1>. PICK inst \in Insts : get_op_record(o, k) = Loaded(inst, o.clock - k)
  BY DEF Faithful
<1>1. InstOf(get_op_record(o, k)) = inst
  BY InstOfLoaded
<1>. QED  BY <1>1 DEF Loaded

\* A sequence is an Append when its elements are.
LEMMA IsAppend ==
    ASSUME NEW S, NEW s \in Seq(S), NEW e \in S, NEW t,
           t = [k \in 1..(Len(s) + 1) |-> t[k]],
           \A k \in 1..(Len(s) + 1) : t[k] = IF k = Len(s) + 1 THEN e ELSE s[k]
    PROVE  t = Append(s, e)
<1>. Len(s) \in Nat /\ \A k \in 1..Len(s) : s[k] \in S
  OBVIOUS
<1>1. /\ Append(s, e) \in Seq(S)
      /\ Len(Append(s, e)) = Len(s) + 1
      /\ \A k \in 1..(Len(s) + 1) :
            Append(s, e)[k] = IF k = Len(s) + 1 THEN e ELSE s[k]
  BY AppendProperties
<1>2. t \in [1..(Len(s) + 1) -> S]
  <2>1. \A k \in 1..(Len(s) + 1) : t[k] \in S
    OBVIOUS
  <2>. QED  BY <2>1
<1>3. t \in Seq(S) /\ Len(t) = Len(s) + 1
  BY <1>2
<1>. QED  BY <1>1, <1>3, SeqEqual

\* A turn is a step of the delay line.
LEMMA TurnEnters ==
    ASSUME NamesTellApart, NEW o \in OpStates, NEW inst \in Insts,
           Faithful(o), InOrder(o)
    PROVE  LET s == Waiting(o)
               t == Waiting(Turn(o, inst))
               v == Shown(o)
               u == Shown(Turn(o, inst))
           IN  \/ /\ Len(s) < INST_DELAY
                  /\ t = Append(s, inst)
                  /\ u = v
               \/ /\ Len(s) = INST_DELAY
                  /\ t = Append(Tail(s), inst)
                  /\ u = IF Head(s).dst = REG_NUL THEN v
                         ELSE [v EXCEPT ![Head(s).dst] = <<Head(s).dst_val>>]
<1>. DEFINE n == Turn(o, inst)
            s == Waiting(o)
            t == Waiting(n)
            last == INST_DELAY - 1
            op == get_op_record(o, last)
            old(k) == InstOf(get_op_record(o, k))
            new(k) == InstOf(get_op_record(n, k))
<1>1. /\ INST_DELAY \in Nat /\ INST_DELAY > 0
      /\ o.clock \in Nat
      /\ n.clock = o.clock + 1
      /\ last \in Slots
      /\ Slots = 0..last
  <2>1. o.clock \in Nat /\ n.clock = o.clock + 1
    BY TurnType DEF OpStates
  <2>. HIDE DEF n
  <2>. QED  BY <2>1, OpStateAssumption DEF Slots
<1>2. \A k \in Slots : k < o.clock => old(k) \in Insts
  BY RecordTells
<1>3. new(0) = inst
  BY TurnShifts, InstOfLoaded
<1>4. \A k \in Slots : k # 0 => k - 1 \in Slots /\ new(k) = old(k - 1)
  BY TurnShifts
<1>5. Shown(n) = IF op.is_valid /\ op.dst # REG_NUL
                 THEN [Shown(o) EXCEPT ![op.dst] = <<op.dst_val>>] ELSE Shown(o)
  BY TurnShows
<1>6. /\ s = [k \in 1..(IF o.clock < INST_DELAY THEN o.clock ELSE INST_DELAY) |->
                old((IF o.clock < INST_DELAY THEN o.clock ELSE INST_DELAY) - k)]
      /\ t = [k \in 1..(IF n.clock < INST_DELAY THEN n.clock ELSE INST_DELAY) |->
                new((IF n.clock < INST_DELAY THEN n.clock ELSE INST_DELAY) - k)]
  BY DEF Waiting
<1>7. op.is_valid => last < o.clock
  BY <1>1 DEF InOrder
<1>8. last < o.clock => op.dst = old(last).dst /\ op.dst_val = old(last).dst_val /\ op.is_valid
  BY <1>1, RecordTells
<1>. HIDE DEF n, s, t, op, old, new
<1>9. CASE o.clock < INST_DELAY
  <2>1. /\ s = [k \in 1..o.clock |-> old(o.clock - k)]
        /\ t = [k \in 1..(o.clock + 1) |-> new(o.clock + 1 - k)]
    BY <1>1, <1>6, <1>9
  <2>2. \A k \in 1..o.clock : o.clock - k \in Slots /\ o.clock - k < o.clock
    BY <1>1, <1>9
  <2>3. s \in Seq(Insts) /\ Len(s) = o.clock
    BY <1>1, <1>2, <2>1, <2>2
  <2>4. \A k \in 1..(o.clock + 1) :
            new(o.clock + 1 - k) = IF k = o.clock + 1 THEN inst ELSE s[k]
    <3>. SUFFICES ASSUME NEW k \in 1..(o.clock + 1)
                  PROVE  new(o.clock + 1 - k) = IF k = o.clock + 1 THEN inst ELSE s[k]
      OBVIOUS
    <3>1. CASE k = o.clock + 1
      <4>1. o.clock + 1 - k = 0
        BY <1>1, <3>1
      <4>. QED  BY <1>3, <3>1, <4>1
    <3>2. CASE k # o.clock + 1
      <4>1. /\ k \in 1..o.clock
            /\ o.clock + 1 - k \in Slots
            /\ o.clock + 1 - k # 0
            /\ (o.clock + 1 - k) - 1 = o.clock - k
        BY <1>1, <1>9, <3>2
      <4>2. new(o.clock + 1 - k) = old(o.clock - k)
        BY <1>4, <4>1
      <4>. QED  BY <2>1, <3>2, <4>1, <4>2
    <3>. QED  BY <3>1, <3>2
  <2>5. t = Append(s, inst)
    <3>1. t = [k \in 1..(Len(s) + 1) |-> t[k]]
      BY <2>1, <2>3
    <3>2. \A k \in 1..(Len(s) + 1) : t[k] = IF k = Len(s) + 1 THEN inst ELSE s[k]
      BY <2>1, <2>3, <2>4
    <3>. QED  BY <2>3, <3>1, <3>2, IsAppend
  <2>6. ~op.is_valid
    BY <1>1, <1>7, <1>9
  <2>. QED  BY <1>5, <1>9, <2>3, <2>5, <2>6 DEF s, t, n
<1>10. CASE o.clock >= INST_DELAY
  <2>1. /\ s = [k \in 1..INST_DELAY |-> old(INST_DELAY - k)]
        /\ t = [k \in 1..INST_DELAY |-> new(INST_DELAY - k)]
    BY <1>1, <1>6, <1>10
  <2>2. \A k \in 1..INST_DELAY : INST_DELAY - k \in Slots /\ INST_DELAY - k < o.clock
    BY <1>1, <1>10
  <2>3. s \in Seq(Insts) /\ Len(s) = INST_DELAY
    BY <1>1, <1>2, <2>1, <2>2
  <2>4. Head(s) = old(last)
    BY <1>1, <2>1, <2>3
  <2>5. \A k \in 1..INST_DELAY :
            new(INST_DELAY - k) = IF k = INST_DELAY THEN inst ELSE s[k + 1]
    <3>. SUFFICES ASSUME NEW k \in 1..INST_DELAY
                  PROVE  new(INST_DELAY - k) = IF k = INST_DELAY THEN inst ELSE s[k + 1]
      OBVIOUS
    <3>1. CASE k = INST_DELAY
      <4>1. INST_DELAY - k = 0
        BY <1>1, <3>1
      <4>. QED  BY <1>3, <3>1, <4>1
    <3>2. CASE k # INST_DELAY
      <4>1. /\ k + 1 \in 1..INST_DELAY
            /\ INST_DELAY - k \in Slots
            /\ INST_DELAY - k # 0
            /\ (INST_DELAY - k) - 1 = INST_DELAY - (k + 1)
        BY <1>1, <3>2
      <4>2. new(INST_DELAY - k) = old(INST_DELAY - (k + 1))
        BY <1>4, <4>1
      <4>. QED  BY <2>1, <3>2, <4>1, <4>2
    <3>. QED  BY <3>1, <3>2
  <2>6. /\ Tail(s) \in Seq(Insts)
        /\ Len(Tail(s)) = last
        /\ \A k \in 1..last : Tail(s)[k] = s[k + 1]
    BY <1>1, <2>3
  <2>7. t = Append(Tail(s), inst)
    <3>1. Len(Tail(s)) + 1 = INST_DELAY
      BY <1>1, <2>6
    <3>2. t = [k \in 1..(Len(Tail(s)) + 1) |-> t[k]]
      BY <2>1, <3>1
    <3>3. \A k \in 1..(Len(Tail(s)) + 1) :
            t[k] = IF k = Len(Tail(s)) + 1 THEN inst ELSE Tail(s)[k]
      <4>. SUFFICES ASSUME NEW k \in 1..INST_DELAY
                    PROVE  t[k] = IF k = INST_DELAY THEN inst ELSE Tail(s)[k]
        BY <3>1
      <4>1. t[k] = IF k = INST_DELAY THEN inst ELSE s[k + 1]
        BY <2>1, <2>5
      <4>2. k # INST_DELAY => k \in 1..last
        BY <1>1
      <4>. QED  BY <2>6, <4>1, <4>2
    <3>. QED  BY <2>6, <3>2, <3>3, IsAppend
  <2>8. op.is_valid /\ op.dst = Head(s).dst /\ op.dst_val = Head(s).dst_val
    BY <1>1, <1>8, <1>10, <2>4
  <2>. QED  BY <1>5, <2>3, <2>7, <2>8 DEF s, t, n
<1>. QED  BY <1>1, <1>9, <1>10

LineInv == ReaderInv /\ Faithful(os)

LEMMA LineInvInit == Init => LineInv
<1>. SUFFICES ASSUME Init PROVE LineInv
  OBVIOUS
<1>1. os.clock = 0
  BY DEF Init, NewOpState
<1>. QED  BY <1>1, ReaderInvInit DEF LineInv, Faithful, Slots

LEMMA LineInvNext == LineInv /\ [Next]_vars => LineInv'
<1>. SUFFICES ASSUME LineInv, [Next]_vars PROVE LineInv'
  OBVIOUS
<1>1. ReaderInv'
  BY ReaderInvNext DEF LineInv
<1>2. os' = os \/ \E inst \in Insts : os' = Turn(os, inst)
  BY DEF Next, Score, EndOfTrace, ReadOp, ReadBranch, PredictBranch, vars
<1>3. Faithful(os')
  <2>1. os \in OpStates
    BY DEF LineInv, ReaderInv, TypeOK
  <2>. QED  BY <1>2, <2>1, TurnKeepsFaith DEF LineInv
<1>. QED  BY <1>1, <1>3 DEF LineInv

LEMMA LineInit ==
    ASSUME Init
    PROVE  Line!Init
<1>1. /\ os.clock = 0
      /\ \A r \in Regs : os.regs_valid[r] = FALSE
  BY DEF Init, NewOpState
<1>2. Inflight = << >>
  BY <1>1, OpStateAssumption DEF Inflight
<1>. QED  BY <1>1, <1>2 DEF Line!Init

LEMMA LineNext ==
    ASSUME NamesTellApart, LineInv, [Next]_vars
    PROVE  [Line!Next]_(Line!vars)
<1>1. Inflight = Waiting(os) /\ Inflight' = Waiting(os')
  BY DEF Inflight, Waiting, InstOf
<1>2. [r \in Regs |-> IF os.regs_valid[r] THEN <<os.regs[r]>> ELSE << >>] = Shown(os)
  BY DEF Shown
<1>3. [r \in Regs |-> IF os.regs_valid[r] THEN <<os.regs[r]>> ELSE << >>]' = Shown(os')
  BY DEF Shown
<1>4. os' = os \/ \E inst \in Insts : os' = Turn(os, inst)
  BY DEF Next, Score, EndOfTrace, ReadOp, ReadBranch, PredictBranch, vars
<1>5. CASE os' = os
  BY <1>1, <1>2, <1>3, <1>5 DEF Line!vars
<1>6. ASSUME NEW inst \in Insts, os' = Turn(os, inst)
      PROVE  Line!Enter(inst)
  <2>1. os \in OpStates /\ Faithful(os) /\ InOrder(os)
    BY OrderIsInOrder DEF LineInv, ReaderInv, TypeOK
  <2>. QED
    BY <1>1, <1>2, <1>3, <1>6, <2>1, TurnEnters DEF Line!Enter, Line!Result
<1>. QED  BY <1>4, <1>5, <1>6 DEF Line!Next

\* The ring, its pointer and the registers are a delay line of any length: what was
\* read INST_DELAY instructions ago becomes visible, in order, and nothing else does.
THEOREM ReaderIsADelayLine ==
    ASSUME NamesTellApart
    PROVE  Spec => ImplementsDelayLine
<1>1. Init => Line!Init
  BY LineInit
<1>2. LineInv /\ [Next]_vars => [Line!Next]_(Line!vars)
  BY LineNext
<1>. QED
  BY <1>1, <1>2, LineInvInit, LineInvNext, PTL DEF Spec, ImplementsDelayLine, Line!Spec
================================================================================
