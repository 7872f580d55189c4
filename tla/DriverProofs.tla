------------------------------ MODULE DriverProofs ------------------------------
(***************************************************************************)
(* The driver of the contest, for every trace, every environment and every *)
(* size of the predictor's tables.                                         *)
(***************************************************************************)
EXTENDS Driver, FiniteSetTheorems, SequenceTheorems, WellFoundedInduction, TLAPS

--------------------------------------------------------------------------------
(* The lines of a trace *)

\* Induction, for a set of numbers.
LEMMA SetInduction ==
    ASSUME NEW T \in SUBSET Nat, 0 \in T, \A n \in T : n + 1 \in T
    PROVE  T = Nat
<1>. SUFFICES ASSUME Nat \ T # {} PROVE FALSE
  OBVIOUS
<1>1. PICK n \in Nat \ T : \A m \in Nat \ T : <<m, n>> \notin OpToRel(<, Nat)
  <2>. HIDE DEF OpToRel
  <2>1. Nat \ T \subseteq Nat
    OBVIOUS
  <2>. QED  BY <2>1, NatLessThanWellFounded, WFMin
<1>2. n \in Nat /\ n # 0 /\ n - 1 \in Nat /\ (n - 1) + 1 = n
  OBVIOUS
<1>3. <<n - 1, n>> \in OpToRel(<, Nat)
  BY <1>2 DEF OpToRel
<1>. QED  BY <1>1, <1>2, <1>3

\* The definition of LinesUpTo, as an equation.
NextLines(t, lines, n) ==
    IF n = 0 THEN << >>
    ELSE IF t[n].is_branch THEN Append(lines[n - 1], Line(t[n]))
    ELSE lines[n - 1]

LinesOf(t, lines, m) == lines = [n \in 0..m |-> NextLines(t, lines, n)]

\* A function that satisfies the equation exists, however long the trace.
LEMMA LinesExist ==
    ASSUME NEW t, NEW m \in Nat
    PROVE  \E lines : LinesOf(t, lines, m)
<1>. DEFINE T == {n \in Nat : \E lines : LinesOf(t, lines, n)}
<1>1. 0 \in T
  <2>. DEFINE f == [n \in 0..0 |-> << >>]
  <2>1. LinesOf(t, f, 0)
    BY DEF LinesOf, NextLines
  <2>. QED  BY <2>1
<1>2. ASSUME NEW n \in T PROVE n + 1 \in T
  <2>1. PICK f : LinesOf(t, f, n)
    BY <1>2
  <2>. DEFINE v == IF t[n + 1].is_branch THEN Append(f[n], Line(t[n + 1])) ELSE f[n]
              g == [k \in 0..(n + 1) |-> IF k = n + 1 THEN v ELSE f[k]]
  <2>2. ASSUME NEW k \in 0..(n + 1) PROVE g[k] = NextLines(t, g, k)
    <3>1. CASE k = n + 1
      <4>1. g[k] = v /\ g[k - 1] = f[n] /\ k # 0
        BY <3>1
      <4>. QED  BY <3>1, <4>1 DEF NextLines
    <3>2. CASE k \in 0..n
      <4>1. g[k] = f[k] /\ f[k] = NextLines(t, f, k)
        BY <2>1, <3>2 DEF LinesOf
      <4>2. k # 0 => g[k - 1] = f[k - 1]
        BY <3>2
      <4>. HIDE DEF g
      <4>. QED  BY <4>1, <4>2 DEF NextLines
    <3>. QED  BY <3>1, <3>2
  <2>3. g = [k \in 0..(n + 1) |-> g[k]]
    OBVIOUS
  <2>. HIDE DEF g
  <2>4. LinesOf(t, g, n + 1)
    BY <2>2, <2>3 DEF LinesOf
  <2>. QED  BY <2>4
<1>. HIDE DEF T
<1>3. T \in SUBSET Nat
  BY DEF T
<1>4. T = Nat
  BY <1>1, <1>2, <1>3, SetInduction
<1>. QED  BY <1>4 DEF T

\* So LinesUpTo, which is chosen to satisfy it, does.
LEMMA LinesUpToDef ==
    ASSUME NEW t, Len(t) \in Nat
    PROVE  LinesOf(t, LinesUpTo(t), Len(t))
<1>1. PICK f : LinesOf(t, f, Len(t))
  BY LinesExist
<1>2. LinesUpTo(t) = CHOOSE lines : LinesOf(t, lines, Len(t))
  BY DEF LinesUpTo, LinesOf, NextLines
<1>. QED  BY <1>1, <1>2

\* The lines a text trace may have.
TextLines == {Line(inst) : inst \in {i \in Insts : i.is_branch}}

\* The lines of a trace grow by one with each branch.
LEMMA LinesStep ==
    ASSUME NEW t \in Seq(Insts)
    PROVE  /\ LinesUpTo(t)[0] = << >>
           /\ \A n \in 0..(Len(t) - 1) :
                 LinesUpTo(t)[n + 1] =
                    IF t[n + 1].is_branch THEN Append(LinesUpTo(t)[n], Line(t[n + 1]))
                    ELSE LinesUpTo(t)[n]
           /\ \A n \in 0..Len(t) :
                 LinesUpTo(t)[n] \in Seq(TextLines) /\ Len(LinesUpTo(t)[n]) <= n
<1>. DEFINE f == LinesUpTo(t)
            T == {n \in Nat : n <= Len(t) => f[n] \in Seq(TextLines) /\ Len(f[n]) <= n}
<1>1. Len(t) \in Nat /\ \A n \in 0..Len(t) : f[n] = NextLines(t, f, n)
  BY LinesUpToDef DEF LinesOf
<1>2. f[0] = << >>
  BY <1>1 DEF NextLines
<1>3. ASSUME NEW n \in 0..(Len(t) - 1)
      PROVE  f[n + 1] = IF t[n + 1].is_branch THEN Append(f[n], Line(t[n + 1])) ELSE f[n]
  <2>1. n + 1 \in 0..Len(t) /\ n + 1 # 0 /\ (n + 1) - 1 = n
    BY <1>1
  <2>. QED  BY <1>1, <2>1 DEF NextLines
<1>. HIDE DEF f
<1>4. 0 \in T
  <2>1. f[0] \in Seq(TextLines) /\ Len(f[0]) <= 0
    BY <1>2
  <2>. QED  BY <2>1
<1>5. ASSUME NEW n \in T PROVE n + 1 \in T
  <2>. SUFFICES ASSUME n + 1 <= Len(t) PROVE f[n + 1] \in Seq(TextLines) /\ Len(f[n + 1]) <= n + 1
    OBVIOUS
  <2>1. n \in 0..(Len(t) - 1) /\ f[n] \in Seq(TextLines) /\ Len(f[n]) <= n /\ n \in Nat
    BY <1>1
  <2>2. CASE t[n + 1].is_branch
    <3>1. t[n + 1] \in Insts
      BY <2>1
    <3>2. Line(t[n + 1]) \in TextLines
      BY <2>2, <3>1 DEF TextLines
    <3>3. f[n + 1] = Append(f[n], Line(t[n + 1]))
      BY <1>3, <2>1, <2>2
    <3>. QED  BY <2>1, <3>2, <3>3
  <2>3. CASE ~t[n + 1].is_branch
    BY <1>3, <2>1, <2>3
  <2>. QED  BY <2>2, <2>3
<1>6. T = Nat
  <2>1. T \in SUBSET Nat
    OBVIOUS
  <2>. HIDE DEF T
  <2>. QED  BY <1>4, <1>5, <2>1, SetInduction
<1>7. \A n \in 0..Len(t) : f[n] \in Seq(TextLines) /\ Len(f[n]) <= n
  BY <1>6
<1>. USE DEF f
<1>8. LinesUpTo(t)[0] = << >>
  BY <1>2
<1>9. \A n \in 0..(Len(t) - 1) :
         LinesUpTo(t)[n + 1] =
            IF t[n + 1].is_branch THEN Append(LinesUpTo(t)[n], Line(t[n + 1]))
            ELSE LinesUpTo(t)[n]
  BY <1>3
<1>10. \A n \in 0..Len(t) :
          LinesUpTo(t)[n] \in Seq(TextLines) /\ Len(LinesUpTo(t)[n]) <= n
  BY <1>7
<1>. QED  BY <1>8, <1>9, <1>10

\* Sequence a is the beginning of sequence b.
Begins(a, b) == Len(a) <= Len(b) /\ \A k \in 1..Len(a) : b[k] = a[k]

\* What has been read of the trace are the first of its lines.
LEMMA LinesGrow ==
    ASSUME NEW t \in Seq(Insts), NEW n \in 0..Len(t)
    PROVE  Begins(LinesUpTo(t)[n], Lines(t))
<1>. DEFINE f == LinesUpTo(t)
            T == {m \in Nat : n + m <= Len(t) => Begins(f[n], f[n + m])}
<1>1. Len(t) \in Nat /\ \A m \in 0..Len(t) : f[m] \in Seq(TextLines)
  <2>1. Len(t) \in Nat
    OBVIOUS
  <2>2. \A m \in 0..Len(t) : LinesUpTo(t)[m] \in Seq(TextLines)
    BY LinesStep
  <2>. QED  BY <2>1, <2>2
<1>2. 0 \in T
  BY <1>1 DEF Begins
<1>3. ASSUME NEW m \in T PROVE m + 1 \in T
  <2>. SUFFICES ASSUME n + (m + 1) <= Len(t) PROVE Begins(f[n], f[n + (m + 1)])
    OBVIOUS
  <2>1. /\ n + m \in 0..(Len(t) - 1) /\ n + (m + 1) = (n + m) + 1
        /\ Begins(f[n], f[n + m])
    BY <1>1, <1>3
  <2>2. f[n + (m + 1)] = IF t[n + (m + 1)].is_branch
                         THEN Append(f[n + m], Line(t[n + (m + 1)])) ELSE f[n + m]
    BY <2>1, LinesStep
  <2>3. f[n] \in Seq(TextLines) /\ f[n + m] \in Seq(TextLines)
    BY <1>1, <2>1
  <2>4. PICK a, b : a = f[n] /\ b = f[n + m]
    OBVIOUS
  <2>. HIDE DEF f
  <2>5. a \in Seq(TextLines) /\ b \in Seq(TextLines) /\ Begins(a, b)
    BY <2>1, <2>3, <2>4
  <2>6. CASE t[n + (m + 1)].is_branch
    <3>1. PICK x : x = Line(t[n + (m + 1)])
      OBVIOUS
    <3>2. f[n + (m + 1)] = Append(b, x)
      BY <2>2, <2>4, <2>6, <3>1
    <3>3. Begins(a, Append(b, x))
      BY <2>5 DEF Begins
    <3>. QED  BY <2>4, <3>2, <3>3
  <2>7. CASE ~t[n + (m + 1)].is_branch
    BY <2>1, <2>2, <2>7
  <2>. QED  BY <2>6, <2>7
<1>4. T \in SUBSET Nat
  OBVIOUS
<1>. HIDE DEF T
<1>5. T = Nat
  BY <1>2, <1>3, <1>4, SetInduction
<1>6. Len(t) - n \in T
  BY <1>1, <1>5
<1>7. n + (Len(t) - n) = Len(t)
  BY <1>1
<1>. QED  BY <1>1, <1>6, <1>7 DEF T, Lines

--------------------------------------------------------------------------------
(* The judge and the driver keep step *)

\* Of a turn of the ring only the clock matters here.
LEMMA ClockTurns ==
    ASSUME NEW s, "clock" \in DOMAIN s, NEW inst
    PROVE  /\ "clock" \in DOMAIN Judge!Turn(s, inst)
           /\ Judge!Turn(s, inst).clock = s.clock + 1
<1>. DEFINE ticked == Judge!inc_clock(s)
            committed == Judge!Commit(ticked, ticked.op_list[ticked.op_list_ptr])
<1>1. "clock" \in DOMAIN ticked /\ ticked.clock = s.clock + 1
  BY DEF Judge!inc_clock
<1>. HIDE DEF ticked
<1>2. "clock" \in DOMAIN committed /\ committed.clock = ticked.clock
  BY <1>1 DEF Judge!Commit
<1>3. Judge!Turn(s, inst) =
        [committed EXCEPT !.op_list[ticked.op_list_ptr] =
            Judge!Loaded(inst, ticked.clock)]
  BY DEF Judge!Turn, ticked
<1>. HIDE DEF committed
<1>. QED  BY <1>1, <1>2, <1>3

\* The statistics of the judge.
Statistics == [branches : Nat, cc_branches : Nat, predicts : Nat,
               correct_bpredicts : Nat, correct_tpredicts : Nat]

\* What a call of the judge counts.
LEMMA ScoreCounts ==
    ASSUME stat \in Statistics, Judge!Score
    PROVE  /\ stat' \in Statistics
           /\ stat'.branches = stat.branches
           /\ stat'.cc_branches = stat.cc_branches
           /\ stat'.correct_bpredicts =
                 IF stat.branches # 0 /\ prediction.valid
                    /\ branch_record.is_conditional /\ Judge!DirectionRight
                 THEN stat.correct_bpredicts + 1 ELSE stat.correct_bpredicts
           /\ stat'.correct_tpredicts =
                 IF stat.branches # 0 /\ prediction.valid /\ Judge!TargetRight
                 THEN stat.correct_tpredicts + 1 ELSE stat.correct_tpredicts
<1>1. CASE stat.branches = 0
  BY <1>1 DEF Judge!Score
<1>2. CASE stat.branches # 0
  <2>1. PICK p \in Nat : p = IF branch_record.is_conditional
                             THEN stat.predicts + 1 ELSE stat.predicts
    BY DEF Statistics
  <2>2. PICK d \in Nat : d = IF prediction.valid /\ branch_record.is_conditional
                                /\ Judge!DirectionRight
                             THEN stat.correct_bpredicts + 1
                             ELSE stat.correct_bpredicts
    BY DEF Statistics
  <2>3. PICK g \in Nat : g = IF prediction.valid /\ Judge!TargetRight
                             THEN stat.correct_tpredicts + 1
                             ELSE stat.correct_tpredicts
    BY DEF Statistics
  <2>4. stat' = [stat EXCEPT !.predicts = p, !.correct_bpredicts = d,
                             !.correct_tpredicts = g]
    BY <1>2, <2>1, <2>2, <2>3 DEF Judge!Score
  <2>5. /\ stat' \in Statistics
        /\ stat'.branches = stat.branches /\ stat'.cc_branches = stat.cc_branches
        /\ stat'.correct_bpredicts = d /\ stat'.correct_tpredicts = g
    BY <2>4 DEF Statistics
  <2>. QED  BY <1>2, <2>2, <2>3, <2>5
<1>. QED  BY <1>1, <1>2

\* What the judge counts when it reads a branch.
LEMMA ReadBranchCounts ==
    ASSUME stat \in Statistics, NEW inst, Judge!ReadBranch(inst)
    PROVE  /\ stat' \in Statistics
           /\ stat'.branches = stat.branches + 1
           /\ stat'.cc_branches = IF inst.is_conditional THEN stat.cc_branches + 1
                                  ELSE stat.cc_branches
           /\ stat'.correct_bpredicts = stat.correct_bpredicts
           /\ stat'.correct_tpredicts = stat.correct_tpredicts
<1>1. PICK n \in Nat : n = IF inst.is_conditional THEN stat.cc_branches + 1
                           ELSE stat.cc_branches
  BY DEF Statistics
<1>2. PICK m \in Nat : m = stat.branches + 1
  BY DEF Statistics
<1>3. stat' = [stat EXCEPT !.branches = m, !.cc_branches = n]
  BY <1>1, <1>2 DEF Judge!ReadBranch
<1>4. /\ stat' \in Statistics
      /\ stat'.branches = m /\ stat'.cc_branches = n
      /\ stat'.correct_bpredicts = stat.correct_bpredicts
      /\ stat'.correct_tpredicts = stat.correct_tpredicts
  BY <1>3 DEF Statistics
<1>. QED  BY <1>1, <1>2, <1>4

\* What the variables of judge and driver look like.
Shapes ==
    /\ trace \in Traces
    /\ next \in {"get_branch_record", "get_prediction", "predict_branch",
                 "update_predictor"}
    /\ pc \in {"client", "reading", "done"}
    /\ "clock" \in DOMAIN os /\ os.clock \in 0..Len(trace)
    /\ stat \in Statistics
    /\ DOMAIN prediction = {"valid", "taken", "target"}

\* Between two records the judge waits for its client, which predicts every branch
\* once and hands on the target it got in exchange.
Protocol ==
    /\ next # "get_branch_record" => pc = "client" /\ stat.branches > 0
    /\ Uncompared => prediction.valid = FALSE
    /\ next = "update_predictor" =>
            prediction.valid = TRUE /\ targetaddress = truth.target
    /\ next = "get_branch_record" /\ pc = "client" =>
            /\ stat.branches = 0 => prediction.valid = FALSE
            /\ stat.branches > 0 => prediction.valid = TRUE

\* What the judge holds is the line of the text trace that a tester has come to.
CurrentLine ==
    [instruction_addr |-> br.instruction_addr,
     instruction_next_addr |-> br.instruction_next_addr,
     is_call |-> br.is_call, is_return |-> br.is_return,
     is_conditional |-> br.is_conditional,
     taken |-> truth.taken, actual_addr |-> truth.target]

\* The judge has counted the branches of the instructions it has read, and holds the
\* last of them.
Position ==
    /\ stat.branches = Len(LinesUpTo(trace)[os.clock])
    /\ stat.branches > 0 => CurrentLine = Lines(trace)[stat.branches]

\* The inductive invariant of judge and driver: their refinements rest on it.
DriverInv == Shapes /\ Protocol /\ Position

LEMMA InitInv == Init => DriverInv
<1>. SUFFICES ASSUME Init PROVE DriverInv
  OBVIOUS
<1>1. trace \in Traces /\ trace \in Seq(Insts) /\ Len(trace) \in Nat
  BY DriverAssumption DEF Init
<1>2. os.clock = 0 /\ "clock" \in DOMAIN os /\ pc = "client"
  BY DEF Init, Judge!Init, Judge!NewOpState
<1>3. stat \in Statistics /\ stat.branches = 0
  BY DEF Init, Judge!Init, Statistics
<1>4. DOMAIN prediction = {"valid", "taken", "target"} /\ prediction.valid = FALSE
  BY DEF Init, Judge!Init
<1>5. next = "get_branch_record"
  BY DEF Init
<1>6. Shapes
  BY <1>1, <1>2, <1>3, <1>4, <1>5 DEF Shapes
<1>7. Protocol
  BY <1>2, <1>3, <1>4, <1>5 DEF Protocol, Uncompared
<1>8. Position
  <2>1. LinesUpTo(trace)[0] = << >>
    BY <1>1, LinesStep
  <2>. QED  BY <1>2, <1>3, <2>1 DEF Position
<1>. QED  BY <1>6, <1>7, <1>8 DEF DriverInv

\* The alternatives of GetBranchRecord: the four steps of a call of the judge.
Scores == next = "get_branch_record" /\ Judge!Score /\ UNCHANGED <<next, predictorVars, trace>>

ReadsOp ==
    /\ next = "get_branch_record" /\ os.clock < Len(trace)
    /\ Judge!ReadOp(trace[os.clock + 1])
    /\ UNCHANGED <<next, predictorVars, trace>>

ReadsBranch ==
    /\ next = "get_branch_record" /\ os.clock < Len(trace)
    /\ Judge!ReadBranch(trace[os.clock + 1])
    /\ next' = "get_prediction"
    /\ UNCHANGED <<predictorVars, trace>>

Ends ==
    /\ next = "get_branch_record" /\ os.clock = Len(trace)
    /\ Judge!EndOfTrace
    /\ UNCHANGED <<next, predictorVars, trace>>

LEMMA CasesOfGetBranchRecord ==
    GetBranchRecord => Scores \/ ReadsOp \/ ReadsBranch \/ Ends
BY DEF GetBranchRecord, Scores, ReadsOp, ReadsBranch, Ends

\* Each step of judge and driver preserves the invariant.
LEMMA ScoresInv == DriverInv /\ Scores => DriverInv'
<1>. SUFFICES ASSUME DriverInv, Scores PROVE DriverInv'
  OBVIOUS
<1>1. stat' \in Statistics /\ stat'.branches = stat.branches
  BY ScoreCounts DEF DriverInv, Shapes, Scores
<1>2. /\ pc' = "reading" /\ next' = "get_branch_record"
      /\ UNCHANGED <<trace, os, branch_record, truth, prediction>>
  BY DEF Scores, Judge!Score
<1>3. Shapes'
  BY <1>1, <1>2 DEF DriverInv, Shapes
<1>4. Protocol'
  BY <1>2 DEF Protocol, Uncompared
<1>5. Position'
  BY <1>1, <1>2 DEF DriverInv, Position, CurrentLine, br
<1>. QED  BY <1>3, <1>4, <1>5 DEF DriverInv

LEMMA ReadsOpInv == DriverInv /\ ReadsOp => DriverInv'
<1>. SUFFICES ASSUME DriverInv, ReadsOp PROVE DriverInv'
  OBVIOUS
<1>1. "clock" \in DOMAIN os' /\ os'.clock = os.clock + 1
  BY ClockTurns DEF DriverInv, Shapes, ReadsOp, Judge!ReadOp
<1>2. /\ pc' = "reading" /\ next' = "get_branch_record"
      /\ os.clock < Len(trace)
      /\ UNCHANGED <<trace, branch_record, truth, prediction, stat>>
  BY DEF ReadsOp, Judge!ReadOp
<1>3. Shapes'
  BY <1>1, <1>2, DriverAssumption DEF DriverInv, Shapes
<1>4. Protocol'
  BY <1>2 DEF Protocol, Uncompared
<1>5. Position'
  <2>1. trace \in Seq(Insts) /\ os.clock \in 0..(Len(trace) - 1)
    BY <1>2, DriverAssumption DEF DriverInv, Shapes
  <2>2. ~trace[os.clock + 1].is_branch
    BY DEF ReadsOp, Judge!ReadOp
  <2>3. LinesUpTo(trace)[os'.clock] = LinesUpTo(trace)[os.clock]
    BY <1>1, <2>1, <2>2, LinesStep
  <2>. QED  BY <1>2, <2>3 DEF DriverInv, Position, CurrentLine, br
<1>. QED  BY <1>3, <1>4, <1>5 DEF DriverInv

LEMMA ReadsBranchInv == DriverInv /\ ReadsBranch => DriverInv'
<1>. SUFFICES ASSUME DriverInv, ReadsBranch PROVE DriverInv'
  OBVIOUS
<1>. DEFINE inst == trace[os.clock + 1]
<1>1. "clock" \in DOMAIN os' /\ os'.clock = os.clock + 1
  BY ClockTurns DEF DriverInv, Shapes, ReadsBranch, Judge!ReadBranch
<1>2. /\ pc' = "client" /\ next' = "get_prediction"
      /\ os.clock < Len(trace) /\ inst.is_branch
      /\ branch_record' = [is_conditional |-> inst.is_conditional, what |-> inst.what]
      /\ truth' = [taken |-> inst.taken, target |-> inst.branch_target]
      /\ trace' = trace
  BY DEF ReadsBranch, Judge!ReadBranch
<1>3. /\ DOMAIN prediction' = {"valid", "taken", "target"}
      /\ prediction'.valid = FALSE
  BY DEF DriverInv, Shapes, ReadsBranch, Judge!ReadBranch
<1>4. stat' \in Statistics /\ stat'.branches = stat.branches + 1
  BY ReadBranchCounts DEF DriverInv, Shapes, ReadsBranch
<1>5. Shapes'
  BY <1>1, <1>2, <1>3, <1>4, DriverAssumption DEF DriverInv, Shapes
<1>6. stat.branches \in Nat /\ stat.branches = Len(LinesUpTo(trace)[os.clock])
  BY DEF DriverInv, Shapes, Statistics, Position
<1>7. Protocol'
  BY <1>2, <1>3, <1>4, <1>6 DEF Protocol, Uncompared
<1>8. Position'
  <2>1. trace \in Seq(Insts) /\ os.clock \in 0..(Len(trace) - 1)
    BY <1>2, DriverAssumption DEF DriverInv, Shapes
  <2>2. PICK read : read = LinesUpTo(trace)[os.clock] /\ read \in Seq(TextLines)
    <3>1. os.clock \in 0..Len(trace)
      BY <2>1
    <3>. QED  BY <2>1, <3>1, LinesStep
  <2>3. LinesUpTo(trace)[os.clock + 1] = Append(read, Line(inst))
    BY <1>2, <2>1, <2>2, LinesStep
  <2>4. Begins(Append(read, Line(inst)), Lines(trace))
    <3>1. os.clock + 1 \in 0..Len(trace)
      BY <2>1
    <3>. QED  BY <2>1, <2>3, <3>1, LinesGrow
  <2>5. PICK line : line = Line(inst)
    OBVIOUS
  <2>6. /\ Len(Append(read, line)) = Len(read) + 1
        /\ Append(read, line)[Len(read) + 1] = line
        /\ Len(read) \in Nat
    BY <2>2
  <2>7. Lines(trace)[Len(read) + 1] = line
    BY <2>4, <2>5, <2>6 DEF Begins
  <2>8. CurrentLine' = line
    BY <1>2, <2>5 DEF CurrentLine, br, Line
  <2>. QED  BY <1>1, <1>2, <1>4, <1>6, <2>2, <2>3, <2>5, <2>6, <2>7, <2>8 DEF Position
<1>. QED  BY <1>5, <1>7, <1>8 DEF DriverInv

LEMMA EndsInv == DriverInv /\ Ends => DriverInv'
<1>. SUFFICES ASSUME DriverInv, Ends PROVE DriverInv'
  OBVIOUS
<1>1. /\ pc' = "done" /\ next' = "get_branch_record"
      /\ UNCHANGED <<trace, os, branch_record, truth, prediction, stat>>
  BY DEF Ends, Judge!EndOfTrace
<1>2. Shapes'
  BY <1>1 DEF DriverInv, Shapes
<1>3. Protocol'
  BY <1>1 DEF Protocol, Uncompared
<1>4. Position'
  BY <1>1 DEF DriverInv, Position, CurrentLine, br
<1>. QED  BY <1>2, <1>3, <1>4 DEF DriverInv

LEMMA GetPredictionInv == DriverInv /\ GetPrediction => DriverInv'
<1>. SUFFICES ASSUME DriverInv, GetPrediction PROVE DriverInv'
  OBVIOUS
<1>1. /\ next = "get_prediction" /\ next' = "predict_branch"
      /\ UNCHANGED <<trace, os, pc, branch_record, truth, prediction, stat>>
  BY DEF GetPrediction, judgeVars
<1>2. Shapes'
  BY <1>1 DEF DriverInv, Shapes
<1>3. Protocol'
  BY <1>1 DEF DriverInv, Protocol, Uncompared
<1>4. Position'
  BY <1>1 DEF DriverInv, Position, CurrentLine, br
<1>. QED  BY <1>2, <1>3, <1>4 DEF DriverInv

LEMMA PredictBranchInv == DriverInv /\ PredictBranch => DriverInv'
<1>. SUFFICES ASSUME DriverInv, PredictBranch PROVE DriverInv'
  OBVIOUS
<1>1. /\ next = "predict_branch" /\ next' = "update_predictor"
      /\ UNCHANGED <<trace, os, pc, branch_record, truth, stat>>
  BY DEF PredictBranch, Judge!PredictBranch
<1>2. prediction.valid = FALSE
  BY <1>1 DEF DriverInv, Protocol, Uncompared
<1>3. /\ prediction' = [valid |-> TRUE, taken |-> predicted_taken, target |-> targetaddress]
      /\ targetaddress' = truth.target
  BY <1>2 DEF PredictBranch, Judge!PredictBranch
<1>4. Shapes'
  BY <1>1, <1>3 DEF DriverInv, Shapes
<1>5. Protocol'
  BY <1>1, <1>3 DEF DriverInv, Protocol, Uncompared
<1>6. Position'
  BY <1>1 DEF DriverInv, Position, CurrentLine, br
<1>. QED  BY <1>4, <1>5, <1>6 DEF DriverInv

LEMMA UpdatePredictorInv == DriverInv /\ UpdatePredictor => DriverInv'
<1>. SUFFICES ASSUME DriverInv, UpdatePredictor PROVE DriverInv'
  OBVIOUS
<1>1. /\ next = "update_predictor" /\ next' = "get_branch_record"
      /\ UNCHANGED <<trace, os, pc, branch_record, truth, prediction, stat>>
  BY DEF UpdatePredictor, judgeVars
<1>2. Shapes'
  BY <1>1 DEF DriverInv, Shapes
<1>3. Protocol'
  BY <1>1 DEF DriverInv, Protocol, Uncompared
<1>4. Position'
  BY <1>1 DEF DriverInv, Position, CurrentLine, br
<1>. QED  BY <1>2, <1>3, <1>4 DEF DriverInv

LEMMA StutterInv == DriverInv /\ UNCHANGED vars => DriverInv'
<1>. SUFFICES ASSUME DriverInv, UNCHANGED vars PROVE DriverInv'
  OBVIOUS
<1>1. UNCHANGED <<targetaddress, trace, next, os, pc, branch_record, truth, prediction, stat>>
  BY DEF vars, predictorVars, judgeVars
<1>2. Shapes'
  BY <1>1 DEF DriverInv, Shapes
<1>3. Protocol'
  BY <1>1 DEF DriverInv, Protocol, Uncompared
<1>4. Position'
  BY <1>1 DEF DriverInv, Position, CurrentLine, br
<1>. QED  BY <1>2, <1>3, <1>4 DEF DriverInv

LEMMA StepInv == DriverInv /\ [Next]_vars => DriverInv'
BY CasesOfGetBranchRecord, ScoresInv, ReadsOpInv, ReadsBranchInv, EndsInv,
   GetPredictionInv, PredictBranchInv, UpdatePredictorInv, StutterInv DEF Next

\* The invariant holds in every reachable state.
LEMMA InStep == Spec => []DriverInv
BY InitInv, StepInv, PTL DEF Spec

--------------------------------------------------------------------------------
(* The tester's predictor is the driver's *)

\* Driver instantiates Tester, whose predictor reads the same variables, constants and
\* settings; each of its operators is the driver's.
LEMMA SameSetup == ASSUME NEW e PROVE Text!Setup(e) = Setup(e)
BY DEF Text!Setup, Setup, Text!getparam, getparam, Text!Bits, Bits, Text!Algorithm,
       Algorithm, Text!WAY_RROBIN, Text!WAY_LRU, WAY_RROBIN, WAY_LRU

LEMMA SameCaches == ASSUME NEW g PROVE Text!NewCaches(g) = NewCaches(g)
BY DEF Text!NewCaches, NewCaches, Text!Sets, Sets, Text!Ways, Ways, Text!EMPTY, EMPTY,
       Text!NewCounters, NewCounters, Text!Enabled, Enabled

LEMMA SameDirections ==
    ASSUME NEW addr, NEW taken
    PROVE  /\ Text!Direction!alpha_setup <=> Direction!alpha_setup
           /\ Text!Direction!alpha_predict(addr) = Direction!alpha_predict(addr)
           /\ Text!Direction!alpha_update(addr, taken)
                <=> Direction!alpha_update(addr, taken)
<1>. USE DEF Text!Direction!Histories, Direction!Histories, Text!Direction!PC,
             Text!Direction!LocalTaken, Text!Direction!GlobalTaken,
             Text!Direction!UsesGlobal, Direction!PC, Direction!LocalTaken,
             Direction!GlobalTaken, Direction!UsesGlobal
<1>1. Text!Direction!alpha_setup <=> Direction!alpha_setup
  BY DEF Text!Direction!alpha_setup, Direction!alpha_setup
<1>2. Text!Direction!alpha_predict(addr) = Direction!alpha_predict(addr)
  BY Zenon DEF Text!Direction!alpha_predict, Direction!alpha_predict
<1>3. Text!Direction!alpha_update(addr, taken)
                <=> Direction!alpha_update(addr, taken)
  BY DEF Text!Direction!alpha_update, Direction!alpha_update,
     Text!Direction!Train, Text!Direction!inc_cnt, Text!Direction!dec_cnt,
     Text!Direction!Shift, Direction!Train, Direction!inc_cnt, Direction!dec_cnt,
     Direction!Shift
<1>. QED BY <1>1, <1>2, <1>3

LEMMA SameLookups ==
    ASSUME NEW g, NEW c, NEW addr
    PROVE  /\ Text!Target!Hit(g, c, addr) = Target!Hit(g, c, addr)
           /\ Text!Target!Lookup(g, c, addr) = Target!Lookup(g, c, addr)
BY DEF Text!Target!Hit, Text!Target!Lookup, Text!Target!Enabled, Text!Target!Matches,
   Text!Target!FirstMatch, Text!Target!Index, Text!Target!Tag, Text!Target!Ways,
   Target!Hit, Target!Lookup, Target!Enabled, Target!Matches, Target!FirstMatch,
   Target!Index, Target!Tag, Target!Ways

LEMMA SameUpdate ==
    ASSUME NEW g, NEW c, NEW addr, NEW target
    PROVE  Text!Target!Update(g, c, addr, target) = Target!Update(g, c, addr, target)
BY SameLookups DEF
   Text!Target!Update, Text!Target!Inserted, Text!Target!Untouched,
   Text!Target!Refreshed, Text!Target!Fits, Text!Target!Matches,
   Text!Target!FirstMatch, Text!Target!Index, Text!Target!Tag, Text!Target!Enabled,
   Text!Target!EvictedAddr, Text!Target!EvictedTarget, Text!Target!InUse,
   Text!Target!AddrOf, Text!Target!EMPTY, Text!Target!Victim, Text!Target!Replaced,
   Text!Target!Touch, Text!Target!Oldest, Text!Target!Ways, Text!Target!WAY_LRU,
   Text!Target!WAY_RROBIN, Target!Update, Target!Inserted, Target!Untouched,
   Target!Refreshed, Target!Fits, Target!Matches, Target!FirstMatch, Target!Index,
   Target!Tag, Target!Enabled, Target!EvictedAddr, Target!EvictedTarget,
   Target!InUse, Target!AddrOf, Target!EMPTY, Target!Victim, Target!Replaced,
   Target!Touch, Target!Oldest, Target!Ways, Target!WAY_LRU, Target!WAY_RROBIN

LEMMA SameBtbPredict ==
    ASSUME NEW b
    PROVE  Text!Target!BtbPredict(b) = Target!BtbPredict(b)
BY SameSetup, SameLookups DEF Text!Target!BtbPredict, Target!BtbPredict,
   Text!Target!HasReturn, Text!Target!ReturnAddress, Text!Target!InBtb,
   Text!Target!InDisp, Text!Target!InMain, Text!Target!CachedTarget, Target!HasReturn,
   Target!ReturnAddress, Target!InBtb, Target!InDisp, Target!InMain,
   Target!CachedTarget

LEMMA SameStack ==
    ASSUME NEW capacity, NEW stack, NEW addr, NEW space
    PROVE  /\ Text!Target!Call(capacity, stack, addr, space)
                = Target!Call(capacity, stack, addr, space)
           /\ Text!Target!Ret(stack, space) = Target!Ret(stack, space)
BY DEF Text!Target!Call, Text!Target!Ret, Text!Target!Overflows, Text!Target!HasReturn,
   Target!Call, Target!Ret, Target!Overflows, Target!HasReturn

LEMMA SameBtbUpdate ==
    ASSUME NEW b, Target!btb_update(b)
    PROVE  Text!Target!btb_update(b)
BY SameSetup, SameUpdate, SameStack DEF Text!Target!btb_update,
   Text!Target!DispResult, Text!Target!MainResult, Target!btb_update,
   Target!DispResult, Target!MainResult

--------------------------------------------------------------------------------
(* The driver implements the tester *)

\* The conditional branches the predictor was trained with: the tester's num_cond.
NumCond == stat.cc_branches - One(Untrained /\ branch_record.is_conditional)

\* The initial states of the driver are the tester's.
LEMMA TesterInit == Init => Text!Init
<1>. SUFFICES ASSUME Init PROVE Text!Init
  OBVIOUS
<1>1. Lines(trace) \in TextTraces
  BY DEF Init, TextTraces
<1>2. Text!PredictorInit(Lines(trace))
  <2>1. PredictorInit(Lines(trace)) /\ PredictedTarget = 0
    BY DEF Init, PredictedTarget, Judge!Init
  <2>. QED  BY <2>1, SameSetup, SameCaches, SameDirections DEF PredictorInit,
            Text!PredictorInit, Text!Hooked, Hooked, Text!NewStack, NewStack
<1>3. /\ next = "get_branch_record" /\ stat.branches = 0
      /\ NumCond = 0 /\ mis_bpreds = 0 /\ mis_tpreds = 0
  BY DEF Init, Judge!Init, NumCond, mis_bpreds, mis_tpreds, One, Untrained, Uncompared,
         Unscored
<1>. QED  BY <1>1, <1>2, <1>3 DEF Text!Init, NumCond

\* The parts of the tester's state, one by one.
LEMMA TesterUnchanged ==
    ASSUME UNCHANGED <<env, oraclefd, addr_hist, caches, tables, predicted_taken>>,
           UNCHANGED <<PredictedTarget, trace, next, stat.branches, NumCond,
                       mis_bpreds, mis_tpreds>>
    PROVE  UNCHANGED Text!vars
BY DEF Text!vars, Text!predictorVars, Text!caches, Text!tables, caches, tables, NumCond

\* What the judge does within a call the tester does not see, except for a branch that
\* is read (scanf) and a prediction that is compared.
LEMMA ScoresStutters == DriverInv /\ Scores => UNCHANGED Text!vars
<1>. SUFFICES ASSUME DriverInv, Scores PROVE UNCHANGED Text!vars
  OBVIOUS
<1>1. /\ pc = "client" /\ pc' = "reading" /\ next = "get_branch_record"
      /\ UNCHANGED <<predictorVars, trace, next, os, branch_record, truth, prediction>>
      /\ Judge!Score
  BY DEF Scores, Judge!Score
<1>2. stat \in Statistics
  BY DEF DriverInv, Shapes
<1>3. /\ stat.branches = 0 => prediction.valid = FALSE
      /\ UNCHANGED <<Judge!DirectionRight, Judge!TargetRight>>
  BY <1>1 DEF DriverInv, Protocol, Judge!DirectionRight, Judge!TargetRight
<1>4. UNCHANGED <<PredictedTarget, stat.branches, NumCond>>
  BY <1>1, <1>2, ScoreCounts DEF predictorVars, PredictedTarget, NumCond, Untrained, Uncompared
<1>5. UNCHANGED mis_bpreds
  BY <1>1, <1>2, <1>3, ScoreCounts DEF mis_bpreds, Uncompared, Unscored, One, Statistics
<1>6. UNCHANGED mis_tpreds
  BY <1>1, <1>2, <1>3, ScoreCounts DEF mis_tpreds, Uncompared, Unscored, One, Statistics
<1>. QED  BY <1>1, <1>4, <1>5, <1>6, TesterUnchanged DEF predictorVars

LEMMA ReadsOpStutters == ReadsOp => UNCHANGED Text!vars
<1>. SUFFICES ASSUME ReadsOp PROVE UNCHANGED Text!vars
  OBVIOUS
<1>1. UNCHANGED <<predictorVars, trace, next, pc, branch_record, truth, prediction, stat>>
  BY DEF ReadsOp, Judge!ReadOp
<1>2. UNCHANGED <<PredictedTarget, NumCond, mis_bpreds, mis_tpreds>>
  BY <1>1 DEF predictorVars, PredictedTarget, NumCond, mis_bpreds, mis_tpreds, Untrained,
         Uncompared, Unscored, Judge!DirectionRight, Judge!TargetRight
<1>. QED  BY <1>1, <1>2, TesterUnchanged DEF predictorVars

LEMMA EndsStutters == Ends => UNCHANGED Text!vars
<1>. SUFFICES ASSUME Ends PROVE UNCHANGED Text!vars
  OBVIOUS
<1>1. /\ pc = "reading" /\ pc' = "done"
      /\ UNCHANGED <<predictorVars, trace, next, branch_record, truth, prediction, stat>>
  BY DEF Ends, Judge!EndOfTrace
<1>2. UNCHANGED <<PredictedTarget, NumCond, mis_bpreds, mis_tpreds>>
  BY <1>1 DEF predictorVars, PredictedTarget, NumCond, mis_bpreds, mis_tpreds, Untrained,
         Uncompared, Unscored, One
<1>. QED  BY <1>1, <1>2, TesterUnchanged DEF predictorVars

LEMMA ReadsBranchScans == DriverInv /\ ReadsBranch => Text!Scanf
<1>. SUFFICES ASSUME DriverInv, ReadsBranch PROVE Text!Scanf
  OBVIOUS
<1>. DEFINE inst == trace[os.clock + 1]
<1>1. /\ pc = "reading" /\ pc' = "client"
      /\ next = "get_branch_record" /\ next' = "get_prediction"
      /\ UNCHANGED <<predictorVars, trace>>
      /\ prediction'.valid = FALSE /\ prediction'.target = prediction.target
      /\ branch_record'.is_conditional = inst.is_conditional
  BY DEF ReadsBranch, Judge!ReadBranch, DriverInv, Shapes
<1>2. /\ stat \in Statistics /\ stat' \in Statistics
      /\ stat'.branches = stat.branches + 1
      /\ stat'.cc_branches = IF inst.is_conditional THEN stat.cc_branches + 1
                             ELSE stat.cc_branches
      /\ stat'.correct_bpredicts = stat.correct_bpredicts
      /\ stat'.correct_tpredicts = stat.correct_tpredicts
  BY ReadBranchCounts DEF DriverInv, Shapes, ReadsBranch
<1>3. stat.branches < Len(Lines(trace))
  <2>1. DriverInv'
    BY ReadsBranchInv
  <2>2. trace \in Seq(Insts) /\ os'.clock \in 0..Len(trace)
    BY <1>1, <2>1, DriverAssumption DEF DriverInv, Shapes
  <2>3. Begins(LinesUpTo(trace)[os'.clock], Lines(trace))
    BY <2>2, LinesGrow
  <2>4. stat.branches + 1 <= Len(Lines(trace))
    BY <1>1, <1>2, <2>1, <2>3 DEF DriverInv, Position, Begins
  <2>5. Len(Lines(trace)) \in Nat
    BY <2>2, LinesStep DEF Lines
  <2>. QED  BY <1>2, <2>4, <2>5 DEF Statistics
<1>4. UNCHANGED <<PredictedTarget, NumCond, mis_bpreds, mis_tpreds>>
  <2>1. UNCHANGED <<PredictedTarget, NumCond>>
    BY <1>1, <1>2 DEF predictorVars, PredictedTarget, NumCond, Untrained, Uncompared, One,
       Statistics
  <2>2. UNCHANGED mis_bpreds
    BY <1>1, <1>2 DEF mis_bpreds, Uncompared, Unscored, One, Statistics
  <2>3. UNCHANGED mis_tpreds
    BY <1>1, <1>2 DEF mis_tpreds, Uncompared, Unscored, One, Statistics
  <2>. QED  BY <2>1, <2>2, <2>3
<1>5. UNCHANGED Text!predictorVars
  BY <1>1, <1>4 DEF predictorVars, Text!predictorVars, Text!caches, Text!tables, caches, tables
<1>. QED  BY <1>1, <1>2, <1>3, <1>4, <1>5 DEF Text!Scanf, NumCond

\* The tester's branch is the driver's.
LEMMA SameBranch ==
    ASSUME DriverInv, next # "get_branch_record"
    PROVE  /\ Text!br.instruction_addr = br.instruction_addr
           /\ Text!br.instruction_next_addr = br.instruction_next_addr
           /\ Text!br.is_call = br.is_call /\ Text!br.is_return = br.is_return
           /\ Text!br.is_conditional = br.is_conditional
           /\ Text!br.is_conditional = branch_record.is_conditional
           /\ Text!br.taken = truth.taken
           /\ Text!br.actual_addr = truth.target
<1>1. Text!br = CurrentLine
  BY DEF DriverInv, Protocol, Position, Text!br
<1>. QED  BY <1>1 DEF CurrentLine, br

\* The driver's three other calls are the tester's, with the comparison in the place of
\* predict_branch.
LEMMA GetPredictionPredicts == DriverInv /\ GetPrediction => Text!GetPrediction
<1>. SUFFICES ASSUME DriverInv, GetPrediction PROVE Text!GetPrediction
  OBVIOUS
<1>1. /\ next = "get_prediction" /\ next' = "predict_branch"
      /\ get_prediction(br)
      /\ UNCHANGED <<trace, pc, branch_record, truth, prediction, stat>>
  BY DEF GetPrediction, judgeVars
<1>2. UNCHANGED <<NumCond, mis_bpreds, mis_tpreds>>
  BY <1>1 DEF NumCond, mis_bpreds, mis_tpreds, Untrained, Uncompared, Unscored,
              Judge!DirectionRight, Judge!TargetRight
<1>3. PICK b : b = Text!br
  OBVIOUS
<1>4. /\ b.instruction_addr = br.instruction_addr
      /\ b.instruction_next_addr = br.instruction_next_addr
      /\ b.is_return = br.is_return
      /\ b.is_conditional = br.is_conditional
  BY <1>1, <1>3, SameBranch
<1>5. Text!get_prediction(b)
  <2>1. Text!ReadOracle(b)
    BY <1>1, <1>4 DEF get_prediction, ReadOracle, Text!ReadOracle, Text!Hooked, Hooked,
                     Text!OracleInStep, OracleInStep
  <2>2. Text!ThinksTaken(b) = ThinksTaken(br)
    BY <1>4, SameDirections DEF Text!ThinksTaken, ThinksTaken, Text!Hooked, Hooked
  <2>3. Text!Target!BtbPredict(b) = Target!BtbPredict(br)
    <3>1. Target!BtbPredict(b) = Target!BtbPredict(br)
      BY <1>4 DEF Target!BtbPredict
    <3>. QED  BY <3>1, SameBtbPredict
  <2>4. Text!Target!btb_predict(b)
    <3>1. PredictedTarget' = targetaddress'
      BY <1>1 DEF PredictedTarget
    <3>2. targetaddress' = Target!BtbPredict(br)
      BY <1>1 DEF get_prediction, Target!btb_predict
    <3>3. rastack' = IF br.is_return THEN Target!Ret(rastack, STAT_SPACE) ELSE rastack
      BY <1>1 DEF get_prediction, Target!btb_predict
    <3>. QED  BY <1>4, <2>3, <3>1, <3>2, <3>3, SameStack DEF Text!Target!btb_predict
  <2>5. predicted_taken' = ThinksTaken(br)
        /\ UNCHANGED <<env, dispcache, maincache, tables>>
    BY <1>1 DEF get_prediction
  <2>. QED  BY <2>1, <2>2, <2>4, <2>5 DEF Text!get_prediction, Text!tables, tables
<1>. QED  BY <1>1, <1>2, <1>3, <1>5 DEF Text!GetPrediction, NumCond

LEMMA PredictBranchCompares == DriverInv /\ PredictBranch => Text!Compare
<1>. SUFFICES ASSUME DriverInv, PredictBranch PROVE Text!Compare
  OBVIOUS
<1>1. /\ next = "predict_branch" /\ next' = "update_predictor"
      /\ UNCHANGED <<env, oraclefd, addr_hist, caches, tables, predicted_taken, trace>>
      /\ UNCHANGED <<pc, branch_record, truth, stat>>
      /\ pc = "client"
  BY DEF PredictBranch, Judge!PredictBranch
<1>2. prediction.valid = FALSE
  BY <1>1 DEF DriverInv, Protocol, Uncompared
<1>3. prediction' = [valid |-> TRUE, taken |-> predicted_taken, target |-> targetaddress]
  BY <1>2 DEF PredictBranch, Judge!PredictBranch
<1>4. stat \in Statistics
  BY DEF DriverInv, Shapes
<1>5. PredictedTarget = targetaddress /\ UNCHANGED PredictedTarget
  BY <1>1, <1>3 DEF PredictedTarget
<1>6. UNCHANGED NumCond
  BY <1>1 DEF NumCond, Untrained, Uncompared
<1>7. mis_bpreds' = IF Text!br.is_conditional /\ predicted_taken # Text!br.taken
                    THEN mis_bpreds + 1 ELSE mis_bpreds
  <2>1. Judge!DirectionRight' <=> predicted_taken = truth.taken
    BY <1>1, <1>3 DEF Judge!DirectionRight
  <2>2. mis_bpreds = (stat.cc_branches - One(branch_record.is_conditional))
                        - stat.correct_bpredicts
    BY <1>1, <1>2, <1>4 DEF mis_bpreds, Uncompared, Unscored, One, Statistics
  <2>3. mis_bpreds' = stat.cc_branches
            - (stat.correct_bpredicts
                 + One(branch_record.is_conditional /\ predicted_taken = truth.taken))
    BY <1>1, <1>3, <1>4, <2>1 DEF mis_bpreds, Uncompared, Unscored, One, Statistics
  <2>4. Text!br.is_conditional = branch_record.is_conditional
        /\ Text!br.taken = truth.taken
    BY <1>1, SameBranch
  <2>. HIDE DEF mis_bpreds, Text!br
  <2>. QED  BY <1>4, <2>2, <2>3, <2>4 DEF One, Statistics
<1>8. mis_tpreds' =
        IF predicted_taken # Text!br.taken
           \/ (Text!br.taken /\ PredictedTarget # Text!br.actual_addr)
        THEN mis_tpreds + 1 ELSE mis_tpreds
  <2>1. Judge!TargetRight' <=>
            /\ predicted_taken = truth.taken
            /\ truth.taken => targetaddress = truth.target
    BY <1>1, <1>3 DEF Judge!TargetRight, Judge!DirectionRight
  <2>2. mis_tpreds = (stat.branches - 1) - stat.correct_tpredicts
    BY <1>1, <1>2, <1>4 DEF mis_tpreds, Uncompared, Unscored, One, Statistics
  <2>3. mis_tpreds' = stat.branches
            - (stat.correct_tpredicts
                 + One(predicted_taken = truth.taken
                         /\ (truth.taken => targetaddress = truth.target)))
    BY <1>1, <1>3, <1>4, <2>1 DEF mis_tpreds, Uncompared, Unscored, One, Statistics
  <2>4. Text!br.taken = truth.taken /\ Text!br.actual_addr = truth.target
    BY <1>1, SameBranch
  <2>. HIDE DEF mis_tpreds, Text!br
  <2>. QED  BY <1>4, <1>5, <2>2, <2>3, <2>4 DEF One, Statistics
<1>9. UNCHANGED Text!predictorVars
  BY <1>1, <1>5 DEF Text!predictorVars, Text!caches, Text!tables, caches, tables
<1>. QED  BY <1>1, <1>6, <1>7, <1>8, <1>9 DEF Text!Compare, NumCond

LEMMA UpdatePredictorUpdates == DriverInv /\ UpdatePredictor => Text!UpdatePredictor
<1>. SUFFICES ASSUME DriverInv, UpdatePredictor PROVE Text!UpdatePredictor
  OBVIOUS
<1>1. /\ next = "update_predictor" /\ next' = "get_branch_record"
      /\ update_predictor(br, truth.taken, targetaddress)
      /\ UNCHANGED <<targetaddress, trace, pc, branch_record, truth, prediction, stat>>
  BY DEF UpdatePredictor, judgeVars
<1>2. stat \in Statistics /\ prediction.valid = TRUE /\ targetaddress = truth.target
  BY <1>1 DEF DriverInv, Shapes, Protocol
<1>3. UNCHANGED <<PredictedTarget, mis_bpreds, mis_tpreds>>
  BY <1>1 DEF PredictedTarget, mis_bpreds, mis_tpreds, Uncompared, Unscored,
              Judge!DirectionRight, Judge!TargetRight
<1>4. NumCond' = IF Text!br.is_conditional THEN NumCond + 1 ELSE NumCond
  <2>1. NumCond = stat.cc_branches - One(branch_record.is_conditional)
        /\ NumCond' = stat.cc_branches
    BY <1>1, <1>2 DEF NumCond, Untrained, Uncompared, One, Statistics
  <2>2. Text!br.is_conditional = branch_record.is_conditional
    BY <1>1, SameBranch
  <2>. HIDE DEF NumCond, Text!br
  <2>. QED  BY <1>2, <2>1, <2>2 DEF One, Statistics
<1>5. PICK b : b = Text!br
  OBVIOUS
<1>6. /\ b.instruction_addr = br.instruction_addr
      /\ b.instruction_next_addr = br.instruction_next_addr
      /\ b.is_call = br.is_call /\ b.is_return = br.is_return
      /\ b.is_conditional = br.is_conditional
      /\ b.taken = truth.taken /\ b.actual_addr = targetaddress
  BY <1>1, <1>2, <1>5, SameBranch
<1>7. Text!update_predictor(b, b.taken, b.actual_addr)
  <2>1. Text!Resolved(b, b.actual_addr) = Resolved(br, targetaddress)
    BY <1>6 DEF Text!Resolved, Resolved
  <2>2. Text!Target!btb_update(Resolved(br, targetaddress))
    BY <1>1, SameBtbUpdate DEF update_predictor
  <2>3. IF b.is_conditional THEN Text!Direction!alpha_update(b.instruction_addr, b.taken)
        ELSE UNCHANGED Text!tables
    BY <1>1, <1>6, SameDirections DEF update_predictor, Text!tables, tables
  <2>. QED  BY <1>1, <2>1, <2>2, <2>3 DEF update_predictor, Text!update_predictor
<1>. QED  BY <1>1, <1>3, <1>4, <1>5, <1>7 DEF Text!UpdatePredictor, NumCond

LEMMA StutterStutters == UNCHANGED vars => UNCHANGED Text!vars
<1>. SUFFICES ASSUME UNCHANGED vars PROVE UNCHANGED Text!vars
  OBVIOUS
<1>1. UNCHANGED <<predictorVars, trace, next, pc, branch_record, truth, prediction, stat>>
  BY DEF vars, judgeVars
<1>2. UNCHANGED <<PredictedTarget, NumCond, mis_bpreds, mis_tpreds>>
  BY <1>1 DEF predictorVars, PredictedTarget, NumCond, mis_bpreds, mis_tpreds, Untrained,
         Uncompared, Unscored, Judge!DirectionRight, Judge!TargetRight
<1>. QED  BY <1>1, <1>2, TesterUnchanged DEF predictorVars

\* Every step of the driver is one of the tester's, or none.
LEMMA TesterStep == DriverInv /\ [Next]_vars => [Text!Next]_(Text!vars)
BY CasesOfGetBranchRecord, ScoresStutters, ReadsOpStutters, EndsStutters,
   ReadsBranchScans, GetPredictionPredicts, PredictBranchCompares,
   UpdatePredictorUpdates, StutterStutters DEF Next, Text!Next

\* The driver of the contest and the tester are the same program: on every trace and
\* under every setting they take the same predictor through the same states and
\* count the same mispredictions (main.cc:36, test.cc:59, tread.cc:101).
THEOREM DriverIsTester == Spec => ImplementsTester
BY TesterInit, TesterStep, InStep, PTL DEF Spec, ImplementsTester, Text!Spec

--------------------------------------------------------------------------------
(* The oracle *)

\* An oracle that has read n lines of a text.
HasRead(oracle, n, lines) ==
    /\ oracle \in Seq(TextLines)
    /\ Len(oracle) = Len(lines) - n
    /\ \A k \in 1..Len(oracle) : oracle[k] = lines[n + k]

\* A line is there for the next branch, and it is that branch's.
LEMMA OracleReads ==
    ASSUME NEW lines \in Seq(TextLines), NEW n \in Nat, n < Len(lines),
           NEW oracle, HasRead(oracle, n, lines)
    PROVE  /\ oracle # << >> /\ Head(oracle) = lines[n + 1]
           /\ HasRead(Tail(oracle), n + 1, lines)
<1>1. Len(oracle) \in Nat /\ Len(oracle) > 0 /\ oracle \in Seq(TextLines)
      /\ Len(lines) \in Nat
  BY DEF HasRead
<1>2. oracle # << >> /\ Head(oracle) = oracle[1]
  BY <1>1
<1>3. /\ Tail(oracle) \in Seq(TextLines) /\ Len(Tail(oracle)) = Len(oracle) - 1
      /\ \A k \in 1..(Len(oracle) - 1) : Tail(oracle)[k] = oracle[k + 1]
  BY <1>1
<1>4. \A k \in 1..(Len(oracle) - 1) :
        /\ k + 1 \in 1..Len(oracle) /\ n + (k + 1) = (n + 1) + k
  BY <1>1
<1>5. 1 \in 1..Len(oracle) /\ Head(oracle) = lines[n + 1]
  BY <1>1, <1>2 DEF HasRead
<1>6. Len(Tail(oracle)) = Len(lines) - (n + 1)
  BY <1>1, <1>3 DEF HasRead
<1>7. \A k \in 1..Len(Tail(oracle)) : Tail(oracle)[k] = lines[(n + 1) + k]
  BY <1>3, <1>4 DEF HasRead
<1>8. HasRead(Tail(oracle), n + 1, lines)
  BY <1>3, <1>6, <1>7 DEF HasRead
<1>. QED  BY <1>2, <1>5, <1>8

\* The oracle has read a line for every branch that was predicted, and a prediction
\* made with it is right.
OracleInv ==
    Hooked =>
        /\ HasRead(oraclefd, Predicted, Lines(trace))
        /\ next = "predict_branch" => predicted_taken = truth.taken
        /\ mis_bpreds = 0

\* There are lines for all the branches that were read.
LEMMA LinesFacts ==
    ASSUME DriverInv
    PROVE  /\ trace \in Seq(Insts) /\ Lines(trace) \in Seq(TextLines)
           /\ stat \in Statistics /\ stat.branches \in Nat
           /\ stat.branches <= os.clock /\ stat.branches <= Len(Lines(trace))
<1>1. trace \in Seq(Insts) /\ os.clock \in 0..Len(trace) /\ Len(trace) \in 0..Len(trace)
  BY DriverAssumption DEF DriverInv, Shapes
<1>2. Lines(trace) \in Seq(TextLines)
  BY <1>1, LinesStep DEF Lines
<1>3. stat \in Statistics /\ stat.branches \in Nat
  BY DEF DriverInv, Shapes, Statistics
<1>4. stat.branches = Len(LinesUpTo(trace)[os.clock])
  BY DEF DriverInv, Position
<1>5. Len(LinesUpTo(trace)[os.clock]) <= os.clock
  BY <1>1, LinesStep
<1>6. Begins(LinesUpTo(trace)[os.clock], Lines(trace))
  BY <1>1, LinesGrow
<1>. QED  BY <1>1, <1>2, <1>3, <1>4, <1>5, <1>6 DEF Begins

\* OracleInv holds initially, is preserved, and implies what is asserted.
LEMMA OracleInit == Init => OracleInv
<1>. SUFFICES ASSUME Init, Hooked PROVE OracleInv
  BY DEF OracleInv
<1>1. DriverInv
  BY InitInv
<1>2. next = "get_branch_record" /\ stat.branches = 0 /\ Predicted = 0
  BY DEF Init, Judge!Init, Predicted, One
<1>3. mis_bpreds = 0
  BY DEF Init, Judge!Init, mis_bpreds, One, Uncompared, Unscored
<1>4. oraclefd = Lines(trace)
  BY DEF Init, PredictorInit
<1>5. HasRead(oraclefd, 0, Lines(trace))
  BY <1>1, <1>4, LinesFacts DEF HasRead
<1>. QED  BY <1>2, <1>3, <1>5 DEF OracleInv

\* What the predictor does not take part in.
LEMMA OracleWaits ==
    ASSUME DriverInv, OracleInv, UNCHANGED <<env, oraclefd, trace, mis_bpreds, Predicted>>,
           next' # "predict_branch"
    PROVE  OracleInv'
BY DEF OracleInv, Hooked

LEMMA OracleStep == DriverInv /\ OracleInv /\ [Next]_vars => OracleInv'
<1>. SUFFICES ASSUME DriverInv, OracleInv, [Next]_vars PROVE OracleInv'
  OBVIOUS
<1>1. CASE Scores \/ ReadsOp \/ Ends
  <2>1. UNCHANGED Text!vars /\ UNCHANGED <<next, trace>> /\ next = "get_branch_record"
    BY <1>1, ScoresStutters, ReadsOpStutters, EndsStutters DEF Scores, ReadsOp, Ends
  <2>2. UNCHANGED <<env, oraclefd, mis_bpreds, stat.branches>>
    BY <2>1 DEF Text!vars, Text!predictorVars
  <2>3. UNCHANGED Predicted
    BY <2>1, <2>2 DEF Predicted
  <2>. QED  BY <2>1, <2>2, <2>3, OracleWaits
<1>2. CASE ReadsBranch
  <2>1. /\ next = "get_branch_record" /\ next' = "get_prediction"
        /\ UNCHANGED <<env, oraclefd, trace>>
    BY <1>2 DEF ReadsBranch, predictorVars
  <2>2. UNCHANGED mis_bpreds /\ stat'.branches = stat.branches + 1
    BY <1>2, ReadsBranchScans DEF Text!Scanf
  <2>3. UNCHANGED Predicted
    BY <2>1, <2>2, LinesFacts DEF Predicted, One
  <2>. QED  BY <2>1, <2>2, <2>3, OracleWaits
<1>3. CASE GetPrediction
  <2>. SUFFICES ASSUME Hooked' PROVE OracleInv'
    BY DEF OracleInv
  <2>1. /\ next = "get_prediction" /\ next' = "predict_branch"
        /\ get_prediction(br)
        /\ UNCHANGED <<trace, truth, stat, env>>
        /\ UNCHANGED mis_bpreds
    BY <1>3, GetPredictionPredicts DEF GetPrediction, judgeVars, get_prediction,
       Text!GetPrediction
  <2>2. Hooked
    BY <2>1 DEF Hooked
  <2>3. stat.branches > 0 /\ Predicted = stat.branches - 1 /\ Predicted' = stat.branches
    <3>1. stat.branches > 0 /\ stat.branches \in Nat
      BY <2>1, LinesFacts DEF DriverInv, Protocol
    <3>2. Predicted = stat.branches - 1
      BY <2>1, <3>1 DEF Predicted, One
    <3>3. Predicted' = stat.branches - 0
      BY <2>1 DEF Predicted, One
    <3>. QED  BY <3>1, <3>2, <3>3
  <2>4. stat.branches - 1 \in Nat /\ (stat.branches - 1) + 1 = stat.branches
        /\ stat.branches - 1 < Len(Lines(trace)) /\ Lines(trace) \in Seq(TextLines)
    BY <2>3, LinesFacts
  <2>5. HasRead(oraclefd, stat.branches - 1, Lines(trace))
    BY <2>2, <2>3 DEF OracleInv
  <2>6. Head(oraclefd) = Lines(trace)[stat.branches]
        /\ HasRead(Tail(oraclefd), stat.branches, Lines(trace))
    BY <2>4, <2>5, OracleReads
  <2>7. oraclefd' = Tail(oraclefd) /\ predicted_taken' = Head(oraclefd).taken
    BY <2>1, <2>2 DEF get_prediction, ReadOracle, ThinksTaken
  <2>8. Head(oraclefd).taken = truth.taken
    BY <2>3, <2>6 DEF DriverInv, Position, CurrentLine
  <2>. QED  BY <2>1, <2>2, <2>3, <2>6, <2>7, <2>8 DEF OracleInv
<1>4. CASE PredictBranch
  <2>1. /\ next = "predict_branch" /\ next' = "update_predictor"
        /\ UNCHANGED <<trace, env, oraclefd, stat>>
    BY <1>4 DEF PredictBranch, Judge!PredictBranch
  <2>2. UNCHANGED Predicted
    BY <2>1 DEF Predicted
  <2>3. Hooked => predicted_taken = Text!br.taken
    BY <2>1, SameBranch DEF OracleInv
  <2>4. mis_bpreds' = IF Text!br.is_conditional /\ predicted_taken # Text!br.taken
                      THEN mis_bpreds + 1 ELSE mis_bpreds
    BY <1>4, PredictBranchCompares DEF Text!Compare
  <2>5. Hooked => UNCHANGED mis_bpreds
    BY <2>3, <2>4
  <2>6. Hooked' = Hooked
    BY <2>1 DEF Hooked
  <2>. QED  BY <2>1, <2>2, <2>5, <2>6 DEF OracleInv
<1>5. CASE UpdatePredictor
  <2>1. /\ next = "update_predictor" /\ next' = "get_branch_record"
        /\ UNCHANGED <<trace, env, oraclefd, stat>>
        /\ UNCHANGED mis_bpreds
    BY <1>5, UpdatePredictorUpdates DEF UpdatePredictor, update_predictor, judgeVars,
       Text!UpdatePredictor
  <2>2. UNCHANGED Predicted
    BY <2>1 DEF Predicted
  <2>. QED  BY <2>1, <2>2, OracleWaits
<1>6. CASE UNCHANGED vars
  <2>1. UNCHANGED <<trace, next, env, oraclefd, predicted_taken, stat, pc, branch_record,
                    truth, prediction>>
    BY <1>6 DEF vars, predictorVars, judgeVars
  <2>2. UNCHANGED <<Predicted, mis_bpreds>>
    BY <2>1 DEF Predicted, mis_bpreds, Uncompared, Unscored, Judge!DirectionRight
  <2>. QED  BY <2>1, <2>2 DEF OracleInv, Hooked
<1>. QED  BY <1>1, <1>2, <1>3, <1>4, <1>5, <1>6, CasesOfGetBranchRecord DEF Next

LEMMA OracleHolds == DriverInv /\ OracleInv => OracleIsExact
<1>. SUFFICES ASSUME DriverInv, OracleInv, Hooked PROVE OracleIsExact
  BY DEF OracleIsExact
<1>1. ASSUME next = "get_prediction" PROVE OracleInStep(br)
  <2>1. stat.branches > 0 /\ Predicted = stat.branches - 1
    BY <1>1, LinesFacts DEF DriverInv, Protocol, Predicted, One
  <2>2. stat.branches - 1 \in Nat /\ (stat.branches - 1) + 1 = stat.branches
        /\ stat.branches - 1 < Len(Lines(trace)) /\ Lines(trace) \in Seq(TextLines)
    BY <2>1, LinesFacts
  <2>3. HasRead(oraclefd, stat.branches - 1, Lines(trace))
    BY <2>1 DEF OracleInv
  <2>4. oraclefd # << >> /\ Head(oraclefd) = Lines(trace)[stat.branches]
    BY <2>2, <2>3, OracleReads
  <2>5. Lines(trace)[stat.branches].instruction_addr = br.instruction_addr
    BY <2>1 DEF DriverInv, Position, CurrentLine
  <2>. QED  BY <2>4, <2>5 DEF OracleInStep
<1>. QED  BY <1>1 DEF OracleInv, OracleIsExact

\* "This oracle was capable of perfect prediction of a given branch's
\* taken/not-taken status" (writeup.tex:279): the assertion that the two readers of
\* the trace are at the same branch never fires, and no direction is wrong.
THEOREM OracleIsPerfect == Spec => []OracleIsExact
<1>1. Spec => [](DriverInv /\ OracleInv)
  BY InitInv, StepInv, OracleInit, OracleStep, PTL DEF Spec
<1>. QED  BY <1>1, OracleHolds, PTL

--------------------------------------------------------------------------------
(* The driver implements Btb *)

\* Driver instantiates Btb on the target half of the predictor's variables; each of its
\* operators is the predictor's.
LEMMA HalfCaches ==
    ASSUME NEW g
    PROVE  TargetHalf!NewCaches(g) = NewCaches(g)
BY DEF TargetHalf!NewCaches, NewCaches, TargetHalf!Sets, Sets, TargetHalf!Ways, Ways,
   TargetHalf!EMPTY, EMPTY, TargetHalf!NewCounters, NewCounters, TargetHalf!Enabled,
   Enabled

LEMMA HalfLookups ==
    ASSUME NEW g, NEW c, NEW addr
    PROVE  /\ TargetHalf!Hit(g, c, addr) = Target!Hit(g, c, addr)
           /\ TargetHalf!Lookup(g, c, addr) = Target!Lookup(g, c, addr)
BY DEF TargetHalf!Hit, TargetHalf!Lookup, TargetHalf!Enabled, TargetHalf!Matches,
   TargetHalf!FirstMatch, TargetHalf!Index, TargetHalf!Tag, TargetHalf!Ways,
   Target!Hit, Target!Lookup, Target!Enabled, Target!Matches, Target!FirstMatch,
   Target!Index, Target!Tag, Target!Ways

LEMMA HalfUpdate ==
    ASSUME NEW g, NEW c, NEW addr, NEW target
    PROVE  TargetHalf!Update(g, c, addr, target) = Target!Update(g, c, addr, target)
BY HalfLookups DEF
   TargetHalf!Update, TargetHalf!Inserted, TargetHalf!Untouched,
   TargetHalf!Refreshed, TargetHalf!Fits, TargetHalf!Matches,
   TargetHalf!FirstMatch, TargetHalf!Index, TargetHalf!Tag, TargetHalf!Enabled,
   TargetHalf!EvictedAddr, TargetHalf!EvictedTarget, TargetHalf!InUse,
   TargetHalf!AddrOf, TargetHalf!EMPTY, TargetHalf!Victim, TargetHalf!Replaced,
   TargetHalf!Touch, TargetHalf!Oldest, TargetHalf!Ways, TargetHalf!WAY_LRU,
   TargetHalf!WAY_RROBIN, Target!Update, Target!Inserted, Target!Untouched,
   Target!Refreshed, Target!Fits, Target!Matches, Target!FirstMatch, Target!Index,
   Target!Tag, Target!Enabled, Target!EvictedAddr, Target!EvictedTarget,
   Target!InUse, Target!AddrOf, Target!EMPTY, Target!Victim, Target!Replaced,
   Target!Touch, Target!Oldest, Target!Ways, Target!WAY_LRU, Target!WAY_RROBIN

LEMMA HalfStack ==
    ASSUME NEW capacity, NEW stack, NEW addr, NEW space
    PROVE  /\ TargetHalf!Call(capacity, stack, addr, space)
                = Target!Call(capacity, stack, addr, space)
           /\ TargetHalf!Ret(stack, space) = Target!Ret(stack, space)
BY DEF TargetHalf!Call, TargetHalf!Ret, TargetHalf!Overflows, TargetHalf!HasReturn,
   Target!Call, Target!Ret, Target!Overflows, Target!HasReturn

LEMMA HalfPredict ==
    ASSUME NEW b
    PROVE  TargetHalf!BtbPredict(b) = Target!BtbPredict(b)
BY HalfLookups DEF TargetHalf!BtbPredict, Target!BtbPredict,
   TargetHalf!HasReturn, TargetHalf!ReturnAddress, TargetHalf!InBtb,
   TargetHalf!InDisp, TargetHalf!InMain, TargetHalf!CachedTarget, Target!HasReturn,
   Target!ReturnAddress, Target!InBtb, Target!InDisp, Target!InMain,
   Target!CachedTarget

LEMMA HalfBtbUpdate ==
    ASSUME NEW b, Target!btb_update(b)
    PROVE  TargetHalf!btb_update(b)
BY HalfUpdate, HalfStack DEF TargetHalf!btb_update,
   TargetHalf!DispResult, TargetHalf!MainResult, Target!btb_update,
   Target!DispResult, Target!MainResult

\* A stack of at most n addresses.
Holds(stack, n) ==
    /\ "callqueue" \in DOMAIN stack
    /\ stack.callqueue \in Seq(Uint)
    /\ Len(stack.callqueue) <= n

\* A return takes one address off the stack, if there is one, and a call adds one.
LEMMA RetHolds ==
    ASSUME NEW stack, NEW n \in Nat, Holds(stack, n)
    PROVE  Holds(Target!Ret(stack, STAT_SPACE), n)
<1>. DEFINE q == stack.callqueue
<1>1. CASE q = << >>
  <2>1. Target!Ret(stack, STAT_SPACE) =
            [stack EXCEPT !.ret_underflow = (@ + 1) % STAT_SPACE]
    BY <1>1 DEF Target!Ret, Target!HasReturn
  <2>. QED  BY <2>1 DEF Holds
<1>2. CASE q # << >>
  <2>1. Target!Ret(stack, STAT_SPACE) = [stack EXCEPT !.callqueue = Tail(q)]
    BY <1>2 DEF Target!Ret, Target!HasReturn
  <2>2. q \in Seq(Uint) /\ Len(q) <= n
    BY DEF Holds
  <2>3. Tail(q) \in Seq(Uint) /\ Len(Tail(q)) = Len(q) - 1
    BY <1>2, <2>2
  <2>. HIDE DEF q
  <2>. QED  BY <2>1, <2>2, <2>3 DEF Holds
<1>. QED  BY <1>1, <1>2

LEMMA CallHolds ==
    ASSUME NEW stack, NEW n \in Nat, Holds(stack, n), NEW addr \in Uint, NEW capacity
    PROVE  Holds(Target!Call(capacity, stack, addr, STAT_SPACE), n + 1)
<1>. DEFINE q == stack.callqueue
            pushed == <<addr>> \o q
<1>1. q \in Seq(Uint) /\ Len(q) <= n /\ Len(q) \in Nat
  BY DEF Holds
<1>2. pushed \in Seq(Uint) /\ Len(pushed) = Len(q) + 1
  BY <1>1, ConcatProperties
<1>. HIDE DEF q, pushed
<1>3. /\ SubSeq(pushed, 1, Len(pushed) - 1) \in Seq(Uint)
      /\ Len(SubSeq(pushed, 1, Len(pushed) - 1)) = Len(q)
  BY <1>1, <1>2
<1>. USE DEF pushed, q
<1>. QED  BY <1>1, <1>2, <1>3 DEF Holds, Target!Call

\* The addresses on the stack are those of calls the predictor was trained with.
StackInv == Holds(rastack, Trained)

\* What a line is made of.
LEMMA LineTypes ==
    ASSUME NEW line \in TextLines
    PROVE  /\ BtbLine(line) \in BtbTrace
           /\ line.instruction_next_addr \in Uint /\ line.instruction_addr \in Nat
           /\ line.is_conditional \in BOOLEAN /\ line.taken \in BOOLEAN
<1>1. PICK inst \in Insts : inst.is_branch /\ line = Line(inst)
  BY DEF TextLines
<1>2. /\ inst.what.instruction_next_addr \in Uint /\ inst.what.instruction_addr \in Uint
      /\ inst.is_conditional \in BOOLEAN /\ inst.taken \in BOOLEAN
  BY <1>1, DriverAssumption
<1>3. Uint \subseteq Nat
  BY SpaceAssumption DEF Uint
<1>. QED  BY <1>1, <1>2, <1>3 DEF BtbTrace, Line

\* While a branch is dealt with, it is the line that was read last.
LEMMA CurrentFacts ==
    ASSUME DriverInv, next # "get_branch_record"
    PROVE  /\ stat.branches - 1 \in Nat
           /\ Lines(trace)[stat.branches] = CurrentLine
           /\ CurrentLine \in TextLines
           /\ br.instruction_next_addr \in Uint
<1>1. stat.branches \in Nat /\ stat.branches > 0
  BY LinesFacts DEF DriverInv, Protocol
<1>2. stat.branches \in 1..Len(Lines(trace)) /\ Lines(trace) \in Seq(TextLines)
  BY <1>1, LinesFacts
<1>3. Lines(trace)[stat.branches] \in TextLines
  BY <1>2
<1>4. CurrentLine = Lines(trace)[stat.branches]
  BY <1>1 DEF DriverInv, Position
<1>5. CurrentLine.instruction_next_addr = br.instruction_next_addr
  BY DEF CurrentLine
<1>. QED  BY <1>1, <1>3, <1>4, <1>5, LineTypes

\* StackInv holds initially and is preserved.
LEMMA StackInit == Init => StackInv
<1>. SUFFICES ASSUME Init PROVE StackInv
  OBVIOUS
<1>1. Trained = 0
  BY DEF Init, Judge!Init, Trained, One, Untrained, Uncompared
<1>2. rastack = NewStack
  BY DEF Init, PredictorInit
<1>. QED  BY <1>1, <1>2 DEF StackInv, Holds, NewStack

\* The numbers of branches predicted and trained, around each step.
LEMMA Counts ==
    ASSUME DriverInv, [Next]_vars
    PROVE  /\ (Scores \/ ReadsOp \/ Ends \/ ReadsBranch \/ PredictBranch \/ UNCHANGED vars)
                => UNCHANGED <<Predicted, Trained>>
           /\ GetPrediction =>
                /\ UNCHANGED Trained /\ Trained = stat.branches - 1
                /\ Predicted' = stat.branches
           /\ UpdatePredictor =>
                /\ Predicted' = stat.branches /\ UNCHANGED Predicted
                /\ Trained = stat.branches - 1 /\ Trained' = stat.branches
<1>. USE DEF Predicted, Trained, Untrained, Uncompared, One
<1>1. stat.branches \in Nat
  BY LinesFacts
<1>2. Scores \/ ReadsOp \/ Ends => UNCHANGED <<next, stat.branches>>
  BY ScoresStutters, ReadsOpStutters, EndsStutters DEF Scores, ReadsOp, Ends, Text!vars
<1>3. ReadsBranch => /\ next = "get_branch_record" /\ next' = "get_prediction"
                     /\ stat'.branches = stat.branches + 1
  BY ReadsBranchScans DEF ReadsBranch, Text!Scanf
<1>4. PredictBranch => /\ next = "predict_branch" /\ next' = "update_predictor"
                       /\ UNCHANGED stat
  BY DEF PredictBranch, Judge!PredictBranch
<1>5. GetPrediction => /\ next = "get_prediction" /\ next' = "predict_branch"
                       /\ UNCHANGED stat
  BY DEF GetPrediction, judgeVars
<1>6. UpdatePredictor => /\ next = "update_predictor" /\ next' = "get_branch_record"
                         /\ UNCHANGED stat
  BY DEF UpdatePredictor, judgeVars
<1>7. UNCHANGED vars => UNCHANGED <<next, stat>>
  BY DEF vars, judgeVars
<1>8. Scores \/ ReadsOp \/ Ends => UNCHANGED <<Predicted, Trained>>
  BY <1>2
<1>9. UNCHANGED vars => UNCHANGED <<Predicted, Trained>>
  BY <1>7
<1>10. ReadsBranch => UNCHANGED <<Predicted, Trained>>
  BY <1>1, <1>3
<1>11. PredictBranch => UNCHANGED <<Predicted, Trained>>
  BY <1>1, <1>4
<1>12. GetPrediction => /\ UNCHANGED Trained /\ Trained = stat.branches - 1
                        /\ Predicted' = stat.branches
  BY <1>1, <1>5
<1>13. UpdatePredictor => /\ Predicted' = stat.branches /\ UNCHANGED Predicted
                          /\ Trained = stat.branches - 1 /\ Trained' = stat.branches
  BY <1>1, <1>6
<1>. QED  BY <1>8, <1>9, <1>10, <1>11, <1>12, <1>13

LEMMA StackStep == DriverInv /\ StackInv /\ [Next]_vars => StackInv'
<1>. SUFFICES ASSUME DriverInv, StackInv, [Next]_vars PROVE StackInv'
  OBVIOUS
<1>1. CASE Scores \/ ReadsOp \/ Ends \/ ReadsBranch \/ PredictBranch \/ UNCHANGED vars
  <2>1. UNCHANGED rastack
    BY <1>1 DEF Scores, ReadsOp, Ends, ReadsBranch, PredictBranch, vars, predictorVars,
                caches
  <2>. QED  BY <1>1, <2>1, Counts DEF StackInv
<1>2. CASE GetPrediction
  <2>1. Trained' = Trained /\ Trained \in Nat
    BY <1>2, Counts, CurrentFacts DEF GetPrediction
  <2>2. rastack' = IF br.is_return THEN Target!Ret(rastack, STAT_SPACE) ELSE rastack
    BY <1>2 DEF GetPrediction, get_prediction, Target!btb_predict
  <2>3. Holds(Target!Ret(rastack, STAT_SPACE), Trained)
    BY <2>1, RetHolds DEF StackInv
  <2>. QED  BY <2>1, <2>2, <2>3 DEF StackInv
<1>3. CASE UpdatePredictor
  <2>1. next = "update_predictor"
    BY <1>3 DEF UpdatePredictor
  <2>2. Trained' = Trained + 1 /\ Trained \in Nat /\ br.instruction_next_addr \in Uint
    BY <1>3, <2>1, Counts, CurrentFacts, LinesFacts
  <2>3. rastack' = IF br.is_call
                   THEN Target!Call(Setup(env).capacity, rastack,
                                    br.instruction_next_addr, STAT_SPACE)
                   ELSE rastack
    BY <1>3 DEF UpdatePredictor, update_predictor, Target!btb_update, Resolved
  <2>4. Holds(Target!Call(Setup(env).capacity, rastack, br.instruction_next_addr,
                          STAT_SPACE), Trained + 1)
    BY <2>2, CallHolds DEF StackInv
  <2>5. Holds(rastack, Trained + 1)
    BY <2>2 DEF StackInv, Holds
  <2>. QED  BY <2>2, <2>3, <2>4, <2>5 DEF StackInv
<1>. QED  BY <1>1, <1>2, <1>3, CasesOfGetBranchRecord DEF Next

\* The machine's branch and the pairs it was updated with.
HalfBranch ==
    IF Predicted = 0 THEN Target!NoBranch ELSE BtbLine(Lines(trace)[Predicted])

HalfResolved ==
    LET lines == Lines(trace)
    IN  {<<lines[k].instruction_addr, lines[k].actual_addr>> : k \in 1..Trained}

\* A prediction is followed by its update: the phase of Btb.
HalfPhase == IF next \in {"predict_branch", "update_predictor"} THEN "update" ELSE "predict"

\* The initial states of the driver are those of Btb.
LEMMA HalfInit == Init => TargetHalf!Init
<1>. SUFFICES ASSUME Init PROVE TargetHalf!Init
  OBVIOUS
<1>1. next = "get_branch_record" /\ Predicted = 0 /\ Trained = 0 /\ PredictedTarget = 0
  BY DEF Init, Judge!Init, Predicted, Trained, One, Untrained, Uncompared, PredictedTarget
<1>2. Setup(env) \in Settings
  BY DEF Init, PredictorInit, Settings
<1>3. /\ dispcache \in TargetHalf!NewCaches(Setup(env).disp)
      /\ maincache \in TargetHalf!NewCaches(Setup(env).main)
  BY HalfCaches DEF Init, PredictorInit
<1>4. rastack = TargetHalf!NewStack
  BY DEF Init, PredictorInit, NewStack, TargetHalf!NewStack
<1>5. HalfBranch = TargetHalf!NoBranch
  BY <1>1 DEF HalfBranch, TargetHalf!NoBranch, Target!NoBranch
<1>6. HalfResolved = {}
  BY <1>1 DEF HalfResolved
<1>. QED  BY <1>1, <1>2, <1>3, <1>4, <1>5, <1>6 DEF TargetHalf!Init, HalfBranch, HalfResolved

LEMMA HalfUnchanged ==
    ASSUME UNCHANGED <<env, caches, trace, PredictedTarget, Predicted, Trained, HalfPhase>>
    PROVE  UNCHANGED TargetHalf!vars
<1>1. UNCHANGED <<HalfBranch, HalfResolved, Setup(env)>>
  BY DEF HalfBranch, HalfResolved
<1>. QED  BY <1>1 DEF TargetHalf!vars, caches, HalfBranch, HalfResolved, HalfPhase

\* Every step of the driver is one of Btb's, or none.
LEMMA HalfStep == DriverInv /\ StackInv /\ [Next]_vars => [TargetHalf!Next]_(TargetHalf!vars)
<1>. SUFFICES ASSUME DriverInv, StackInv, [Next]_vars
              PROVE  [TargetHalf!Next]_(TargetHalf!vars)
  OBVIOUS
<1>1. CASE Scores \/ ReadsOp \/ Ends \/ UNCHANGED vars
  <2>1. UNCHANGED Text!vars /\ UNCHANGED <<env, caches, trace, next>>
    BY <1>1, ScoresStutters, ReadsOpStutters, EndsStutters, StutterStutters
       DEF Scores, ReadsOp, Ends, vars, predictorVars
  <2>2. UNCHANGED <<PredictedTarget, HalfPhase>>
    BY <2>1 DEF Text!vars, Text!predictorVars, HalfPhase
  <2>. QED  BY <1>1, <2>1, <2>2, Counts, HalfUnchanged
<1>2. CASE ReadsBranch
  <2>1. UNCHANGED <<env, caches, trace>> /\ UNCHANGED HalfPhase
    BY <1>2 DEF ReadsBranch, predictorVars, HalfPhase
  <2>2. UNCHANGED PredictedTarget
    BY <1>2, ReadsBranchScans DEF Text!Scanf, Text!predictorVars
  <2>. QED  BY <1>2, <2>1, <2>2, Counts, HalfUnchanged
<1>3. CASE PredictBranch
  <2>1. UNCHANGED <<env, caches, trace>> /\ UNCHANGED HalfPhase
    BY <1>3 DEF PredictBranch, HalfPhase
  <2>2. UNCHANGED PredictedTarget
    BY <1>3, PredictBranchCompares DEF Text!Compare, Text!predictorVars
  <2>. QED  BY <1>3, <2>1, <2>2, Counts, HalfUnchanged
<1>4. CASE GetPrediction
  <2>. DEFINE b == BtbLine(Lines(trace)[stat.branches])
  <2>1. /\ next = "get_prediction" /\ next' = "predict_branch"
        /\ get_prediction(br) /\ trace' = trace
    BY <1>4 DEF GetPrediction
  <2>2. /\ Lines(trace)[stat.branches] = CurrentLine /\ CurrentLine \in TextLines
        /\ stat.branches \in Nat /\ stat.branches # 0
    BY <2>1, CurrentFacts, LinesFacts
  <2>3. b \in BtbTrace
    BY <2>2, LineTypes
  <2>4. /\ b.instruction_addr = br.instruction_addr
        /\ b.instruction_next_addr = br.instruction_next_addr
        /\ b.is_return = br.is_return
    BY <2>2 DEF BtbLine, CurrentLine
  <2>5. /\ Predicted' = stat.branches /\ UNCHANGED Trained /\ Trained = stat.branches - 1
    BY <1>4, Counts
  <2>6. HalfBranch' = b /\ UNCHANGED HalfResolved
    BY <2>1, <2>2, <2>5 DEF HalfBranch, HalfResolved
  <2>7. Len(rastack.callqueue) < MaxInsts
    <3>1. Len(rastack.callqueue) <= Trained /\ Len(rastack.callqueue) \in Nat
      BY DEF StackInv, Holds
    <3>2. stat.branches <= os.clock /\ os.clock \in 0..Len(trace) /\ Len(trace) <= MaxInsts
          /\ Len(trace) \in Nat /\ MaxInsts \in Nat
      BY LinesFacts, DriverAssumption DEF DriverInv, Shapes
    <3>. QED  BY <2>2, <2>5, <3>1, <3>2
  <2>8. TargetHalf!btb_predict(b)
    <3>1. PredictedTarget' = targetaddress'
      BY <2>1 DEF PredictedTarget
    <3>2. targetaddress' = Target!BtbPredict(br)
      BY <2>1 DEF get_prediction, Target!btb_predict
    <3>3. rastack' = IF br.is_return THEN Target!Ret(rastack, STAT_SPACE) ELSE rastack
      BY <2>1 DEF get_prediction, Target!btb_predict
    <3>4. Target!BtbPredict(b) = Target!BtbPredict(br)
      BY <2>4 DEF Target!BtbPredict
    <3>. HIDE DEF b
    <3>5. TargetHalf!BtbPredict(b) = Target!BtbPredict(b)
      BY HalfPredict
    <3>. QED  BY <2>4, <3>1, <3>2, <3>3, <3>4, <3>5, HalfStack DEF TargetHalf!btb_predict
  <2>9. UNCHANGED <<Setup(env), dispcache, maincache>>
    BY <2>1 DEF get_prediction
  <2>. HIDE DEF b
  <2>10. TargetHalf!GetPrediction(b)
    BY <2>1, <2>6, <2>7, <2>8, <2>9 DEF TargetHalf!GetPrediction, HalfBranch, HalfResolved
  <2>. QED  BY <2>3, <2>10 DEF TargetHalf!Next
<1>5. CASE UpdatePredictor
  <2>1. /\ next = "update_predictor" /\ next' = "get_branch_record"
        /\ update_predictor(br, truth.taken, targetaddress)
        /\ UNCHANGED <<trace, prediction>>
    BY <1>5 DEF UpdatePredictor, judgeVars
  <2>2. /\ Lines(trace)[stat.branches] = CurrentLine
        /\ stat.branches \in Nat /\ stat.branches # 0
    BY <2>1, CurrentFacts, LinesFacts
  <2>3. /\ Predicted' = stat.branches /\ Predicted = stat.branches
        /\ Trained = stat.branches - 1 /\ Trained' = stat.branches
    BY <1>5, Counts
  <2>4. HalfBranch = BtbLine(CurrentLine) /\ UNCHANGED HalfBranch
    BY <2>1, <2>2, <2>3 DEF HalfBranch
  <2>5. targetaddress = truth.target
    BY <2>1 DEF DriverInv, Protocol
  <2>6. HalfBranch = Resolved(br, targetaddress)
    BY <2>4, <2>5 DEF BtbLine, CurrentLine, Resolved, br
  <2>7. TargetHalf!btb_update(HalfBranch)
    BY <2>1, <2>6, HalfBtbUpdate DEF update_predictor
  <2>8. HalfResolved' = HalfResolved \cup
                            {<<HalfBranch.instruction_addr, HalfBranch.target>>}
    <3>1. /\ HalfBranch.instruction_addr = Lines(trace)[stat.branches].instruction_addr
          /\ HalfBranch.target = Lines(trace)[stat.branches].actual_addr
      BY <2>2, <2>4 DEF BtbLine
    <3>2. 1..stat.branches = (1..(stat.branches - 1)) \cup {stat.branches}
      BY <2>2
    <3>. HIDE DEF HalfBranch
    <3>. QED  BY <2>1, <2>3, <3>1, <3>2 DEF HalfResolved
  <2>9. UNCHANGED <<Setup(env), PredictedTarget>>
    BY <2>1 DEF update_predictor, PredictedTarget
  <2>10. TargetHalf!UpdatePredictor
    BY <2>1, <2>4, <2>7, <2>8, <2>9 DEF TargetHalf!UpdatePredictor, HalfBranch, HalfResolved
  <2>. QED  BY <2>10 DEF TargetHalf!Next
<1>. QED  BY <1>1, <1>2, <1>3, <1>4, <1>5, CasesOfGetBranchRecord DEF Next

\* Under the driver the predictor's target half is the machine of Btb: every
\* prediction is followed by the update of the same branch with its actual target,
\* whatever its class, its outcome and the oracle (main.cc:36, predictor.cc:730).
THEOREM TargetHalfIsBtb == Spec => ImplementsBtb
<1>1. Spec => [](DriverInv /\ StackInv)
  BY InitInv, StepInv, StackInit, StackStep, PTL DEF Spec
<1>. QED  BY <1>1, HalfInit, HalfStep, PTL DEF Spec, ImplementsBtb, TargetHalf!Spec

--------------------------------------------------------------------------------
(* A branch that is always taken *)

\* The exponents up to which powers of two are needed.
TableBits == PC_BITS + LOCAL_BITS + PATH_BITS

\* Powers of two are positive, and each is twice the one before.
LEMMA Powers ==
    /\ \A n \in 0..(TableBits + 1) : 2^n \in Nat \ {0}
    /\ \A n \in 0..TableBits : 2^(n + 1) = 2 * 2^n
<1>. DEFINE T == {n \in Nat : n <= TableBits + 1 => 2^n \in Nat \ {0}}
<1>1. TableBits \in Nat
  BY TablesAssumption DEF TableBits
<1>2. \A n \in 0..TableBits : 2^(n + 1) = 2 * 2^n
  BY TablesAssumption DEF TableBits
<1>3. 0 \in T
  BY <1>1
<1>4. ASSUME NEW n \in T PROVE n + 1 \in T
  <2>1. CASE n + 1 <= TableBits + 1
    <3>1. n \in 0..TableBits /\ 2^n \in Nat \ {0}
      BY <1>1, <1>4, <2>1
    <3>2. PICK x \in Nat \ {0} : x = 2^n
      BY <3>1
    <3>3. 2^(n + 1) = 2 * x
      BY <1>2, <3>1, <3>2
    <3>. QED  BY <3>3
  <2>2. CASE ~(n + 1 <= TableBits + 1)
    BY <2>2
  <2>. QED  BY <2>1, <2>2
<1>5. T = Nat
  <2>. HIDE DEF T
  <2>1. T \in SUBSET Nat
    BY DEF T
  <2>. QED  BY <1>3, <1>4, <2>1, SetInduction
<1>6. ASSUME NEW n \in 0..(TableBits + 1) PROVE 2^n \in Nat \ {0}
  <2>1. n \in T /\ n <= TableBits + 1
    BY <1>1, <1>5
  <2>. QED  BY <2>1
<1>. QED  BY <1>2, <1>6

\* Different widths have different powers.
LEMMA PowersGrow ==
    ASSUME NEW m \in 0..(TableBits + 1), NEW n \in 0..(TableBits + 1), m < n
    PROVE  2^m < 2^n
<1>. DEFINE T == {d \in Nat : m + d + 1 <= TableBits + 1 => 2^m < 2^(m + d + 1)}
<1>1. TableBits \in Nat
  BY TablesAssumption DEF TableBits
<1>2. 2^m \in Nat \ {0}
  BY Powers
<1>3. 0 \in T
  <2>1. CASE m + 0 + 1 <= TableBits + 1
    <3>1. m \in 0..TableBits /\ m + 0 + 1 = m + 1
      BY <1>1, <2>1
    <3>2. PICK x \in Nat \ {0} : x = 2^m
      BY <1>2
    <3>3. 2^(m + 1) = 2 * x
      BY <3>1, <3>2, Powers
    <3>4. x < 2 * x
      OBVIOUS
    <3>. QED  BY <3>1, <3>2, <3>3, <3>4
  <2>2. CASE ~(m + 0 + 1 <= TableBits + 1)
    BY <2>2
  <2>. QED  BY <2>1, <2>2
<1>4. ASSUME NEW d \in T PROVE d + 1 \in T
  <2>1. CASE m + (d + 1) + 1 <= TableBits + 1
    <3>1. m + d + 1 \in 0..TableBits /\ m + (d + 1) + 1 = (m + d + 1) + 1
      BY <1>1, <2>1
    <3>2. 2^(m + d + 1) \in Nat \ {0}
      BY <1>1, <3>1, Powers
    <3>3. PICK x \in Nat \ {0} : x = 2^(m + d + 1)
      BY <3>2
    <3>4. 2^((m + d + 1) + 1) = 2 * x
      BY <3>1, <3>3, Powers
    <3>5. PICK y \in Nat : y = 2^m
      BY <1>2
    <3>6. y < x
      BY <1>1, <1>4, <3>1, <3>3, <3>5
    <3>7. y < 2 * x
      BY <3>6
    <3>. QED  BY <3>1, <3>4, <3>5, <3>7
  <2>2. CASE ~(m + (d + 1) + 1 <= TableBits + 1)
    BY <2>2
  <2>. QED  BY <2>1, <2>2
<1>5. T = Nat
  <2>. HIDE DEF T
  <2>1. T \in SUBSET Nat
    BY DEF T
  <2>. QED  BY <1>3, <1>4, <2>1, SetInduction
<1>6. PICK d \in Nat : d = n - m - 1
  BY <1>1
<1>7. m + d + 1 = n /\ n <= TableBits + 1
  BY <1>1, <1>6
<1>8. d \in T
  BY <1>5
<1>. QED  BY <1>7, <1>8

\* The lesser of two numbers.
Least(m, n) == IF m <= n THEN m ELSE n

\* The history after n outcomes taken, of the given number of bits.
Ones(n, bits) == 2^Least(n, bits) - 1

\* Shifting one more outcome taken into such a history gives the next.
LEMMA OnesShift ==
    ASSUME NEW n \in Nat, NEW bits \in {LOCAL_BITS, PATH_BITS}
    PROVE  /\ Ones(n, bits) \in 0..(2^bits - 1)
           /\ Direction!Shift(Ones(n, bits), bits, TRUE) = Ones(n + 1, bits)
<1>1. bits \in 1..TableBits /\ TableBits \in Nat
  BY TablesAssumption DEF TableBits
<1>2. PICK b \in Nat \ {0} : b = 2^bits
  BY <1>1, Powers
<1>3. CASE n < bits
  <2>1. Least(n, bits) = n /\ Least(n + 1, bits) = n + 1
    BY <1>1, <1>3 DEF Least
  <2>2. n \in 0..TableBits /\ n \in 0..(TableBits + 1)
    BY <1>1, <1>3
  <2>3. PICK x \in Nat \ {0} : x = 2^n
    BY <2>2, Powers
  <2>4. 2^(n + 1) = 2 * x
    BY <2>2, <2>3, Powers
  <2>5. 2 * x <= b
    <3>1. CASE n + 1 = bits
      BY <1>2, <2>4, <3>1
    <3>2. CASE n + 1 < bits
      <4>1. 2^(n + 1) < 2^bits
        BY <1>1, <2>2, <3>2, PowersGrow
      <4>. QED  BY <1>2, <2>4, <4>1
    <3>. QED  BY <1>1, <1>3, <3>1, <3>2
  <2>6. 2 * (x - 1) + 1 = 2 * x - 1 /\ 2 * x - 1 \in 0..(b - 1)
    BY <2>5
  <2>7. (2 * x - 1) % b = 2 * x - 1
    BY <2>6
  <2>. QED  BY <1>2, <2>1, <2>3, <2>4, <2>5, <2>6, <2>7 DEF Ones, Direction!Shift
<1>4. CASE n >= bits
  <2>1. Ones(n, bits) = b - 1 /\ Ones(n + 1, bits) = b - 1
    <3>1. Least(n, bits) = bits /\ Least(n + 1, bits) = bits
      BY <1>1, <1>4 DEF Least
    <3>. QED  BY <1>2, <3>1 DEF Ones
  <2>2. 2 * (b - 1) + 1 = b + (b - 1) /\ b - 1 \in 0..(b - 1)
    OBVIOUS
  <2>3. (b + (b - 1)) % b = b - 1
    <3>1. PICK r \in 0..(b - 1) : r = b - 1
      BY <2>2
    <3>2. (b + r) % b = r
      OBVIOUS
    <3>. QED  BY <3>1, <3>2
  <2>. QED  BY <1>2, <2>1, <2>2, <2>3 DEF Direction!Shift
<1>5. n < bits \/ n >= bits
  BY <1>1
<1>. QED  BY <1>3, <1>4, <1>5
\* What the direction tables look like.
TablesType ==
    /\ local_hist_table \in [0..(2^PC_BITS - 1) -> 0..(2^LOCAL_BITS - 1)]
    /\ local_predict \in [0..(2^LOCAL_BITS - 1) -> 0..7]
    /\ global_predict \in [0..(2^PATH_BITS - 1) -> 0..3]
    /\ choice_predict \in [0..(2^PATH_BITS - 1) -> 0..3]

\* What n outcomes taken of the branch at addr, and no others, leave in the tables.
PathLearnt(n) ==
    /\ path_history = Ones(n, PATH_BITS)
    /\ \A j \in 0..PATH_BITS :
        j >= n => global_predict[2^j - 1] = 1 /\ choice_predict[2^j - 1] = 2

\* The counters of the local histories that are still ahead are untouched; that of the
\* full history was trained once it was reached.
LocalLearnt(addr, n) ==
    /\ local_hist_table[Direction!PC(addr)] = Ones(n, LOCAL_BITS)
    /\ \A j \in 0..LOCAL_BITS : j >= n => local_predict[2^j - 1] = 3
    /\ n > LOCAL_BITS => local_predict[2^LOCAL_BITS - 1] >= 4

\* The path history once it is full: the global predictor has turned, or the local one
\* is right as well and so the choice is of no matter.
FullPathLearnt(n) ==
    n > PATH_BITS =>
        /\ global_predict[2^PATH_BITS - 1] >= 2
        /\ choice_predict[2^PATH_BITS - 1] >= 2 \/ n > LOCAL_BITS

\* Together: the state of the tables after n outcomes taken.
Learnt(addr, n) ==
    TablesType /\ PathLearnt(n) /\ LocalLearnt(addr, n) /\ FullPathLearnt(n)

\* Its prediction.
LEMMA LocalGuess ==
    ASSUME NEW addr, NEW n \in Nat, LocalLearnt(addr, n)
    PROVE  Direction!LocalTaken(addr) <=> n > LOCAL_BITS
<1>1. LOCAL_BITS \in Nat
  BY TablesAssumption
<1>2. CASE n <= LOCAL_BITS
  <2>1. n \in 0..LOCAL_BITS /\ n >= n /\ Least(n, LOCAL_BITS) = n
    BY <1>1, <1>2 DEF Least
  <2>2. local_predict[2^n - 1] = 3
    BY <2>1 DEF LocalLearnt
  <2>3. local_hist_table[Direction!PC(addr)] = 2^n - 1
    BY <2>1 DEF LocalLearnt, Ones
  <2>4. ~Direction!LocalTaken(addr)
    BY <2>2, <2>3 DEF Direction!LocalTaken
  <2>. QED  BY <1>1, <1>2, <2>4
<1>3. CASE n > LOCAL_BITS
  <2>1. Least(n, LOCAL_BITS) = LOCAL_BITS
    BY <1>1, <1>3 DEF Least
  <2>. QED  BY <1>3, <2>1 DEF LocalLearnt, Ones, Direction!LocalTaken
<1>. QED  BY <1>1, <1>2, <1>3

\* The global prediction, and who is believed.
LEMMA GlobalGuess ==
    ASSUME NEW n \in Nat, PathLearnt(n), FullPathLearnt(n)
    PROVE  /\ Direction!GlobalTaken <=> n > PATH_BITS
           /\ n <= PATH_BITS => choice_predict[path_history] = 2
           /\ n > PATH_BITS => Direction!UsesGlobal \/ n > LOCAL_BITS
<1>1. PATH_BITS \in Nat
  BY TablesAssumption
<1>2. CASE n <= PATH_BITS
  <2>1. n \in 0..PATH_BITS /\ n >= n /\ Least(n, PATH_BITS) = n
    BY <1>1, <1>2 DEF Least
  <2>2. global_predict[2^n - 1] = 1 /\ choice_predict[2^n - 1] = 2
    BY <2>1 DEF PathLearnt
  <2>3. path_history = 2^n - 1
    BY <2>1 DEF PathLearnt, Ones
  <2>4. ~Direction!GlobalTaken /\ choice_predict[path_history] = 2
    BY <2>2, <2>3 DEF Direction!GlobalTaken
  <2>. QED  BY <1>1, <1>2, <2>4
<1>3. CASE n > PATH_BITS
  <2>1. Least(n, PATH_BITS) = PATH_BITS
    BY <1>1, <1>3 DEF Least
  <2>2. path_history = 2^PATH_BITS - 1
    BY <2>1 DEF PathLearnt, Ones
  <2>. QED  BY <1>1, <1>3, <2>2 DEF FullPathLearnt, Direction!GlobalTaken, Direction!UsesGlobal
<1>. QED  BY <1>1, <1>2, <1>3

\* The branch is predicted taken as soon as the path history has been full once.
LEMMA LearntGuess ==
    ASSUME NEW addr, NEW n \in Nat, Learnt(addr, n)
    PROVE  Direction!alpha_predict(addr) <=> n > PATH_BITS
<1>1. PATH_BITS \in Nat /\ LOCAL_BITS \in Nat
  BY TablesAssumption
<1>2. /\ Direction!LocalTaken(addr) <=> n > LOCAL_BITS
      /\ Direction!GlobalTaken <=> n > PATH_BITS
      /\ n <= PATH_BITS => choice_predict[path_history] = 2
      /\ n > PATH_BITS => Direction!UsesGlobal \/ n > LOCAL_BITS
  BY LocalGuess, GlobalGuess DEF Learnt
<1>3. CASE n <= PATH_BITS
  <2>1. Direction!UsesGlobal
    BY <1>2, <1>3 DEF Direction!UsesGlobal
  <2>. QED  BY <1>1, <1>2, <1>3, <2>1 DEF Direction!alpha_predict
<1>4. CASE n > PATH_BITS
  BY <1>1, <1>2, <1>4 DEF Direction!alpha_predict
<1>. QED  BY <1>1, <1>3, <1>4
LEMMA SmallPowers == 2^2 = 4 /\ 2^3 = 8
<1>1. 0 \in 0..TableBits /\ 1 \in 0..TableBits /\ 2 \in 0..TableBits
  BY TablesAssumption DEF TableBits
<1>2. 2^(0 + 1) = 2 * 2^0 /\ 2^(1 + 1) = 2 * 2^1 /\ 2^(2 + 1) = 2 * 2^2
  BY <1>1, Powers
<1>3. 2^1 = 2
  BY <1>2
<1>. QED  BY <1>2, <1>3

\* A counter of two bits, and one of three, is trained within its width.
LEMMA TrainsTwo ==
    ASSUME NEW c \in 0..3
    PROVE  /\ Direction!Train(c, 2, TRUE) = IF c < 3 THEN c + 1 ELSE c
           /\ Direction!Train(c, 2, FALSE) = IF c > 0 THEN c - 1 ELSE c
           /\ Direction!Train(c, 2, TRUE) \in 0..3
           /\ Direction!Train(c, 2, FALSE) \in 0..3
BY SmallPowers DEF Direction!Train, Direction!inc_cnt, Direction!dec_cnt

LEMMA TrainsThree ==
    ASSUME NEW c \in 0..7
    PROVE  /\ Direction!Train(c, 3, TRUE) = IF c < 7 THEN c + 1 ELSE c
           /\ Direction!Train(c, 3, TRUE) \in 0..7
BY SmallPowers DEF Direction!Train, Direction!inc_cnt, Direction!dec_cnt

\* What is in a table under another power, once the one of a width changed.
LEMMA OtherPowers ==
    ASSUME NEW bits \in {LOCAL_BITS, PATH_BITS}, NEW n \in Nat, NEW j \in 0..bits,
           j >= n + 1
    PROVE  2^j - 1 # Ones(n, bits) /\ 2^j - 1 \in 0..(2^bits - 1) /\ j >= n
<1>1. bits \in 1..TableBits /\ TableBits \in Nat
  BY TablesAssumption DEF TableBits
<1>2. /\ n < j /\ n \in 0..(TableBits + 1) /\ j \in 0..(TableBits + 1)
      /\ Least(n, bits) = n /\ bits \in 0..(TableBits + 1)
  BY <1>1 DEF Least
<1>3. PICK x \in Nat \ {0} : x = 2^n
  BY <1>2, Powers
<1>4. PICK y \in Nat \ {0} : y = 2^j
  BY <1>2, Powers
<1>5. PICK b \in Nat \ {0} : b = 2^bits
  BY <1>2, Powers
<1>6. x < y
  BY <1>2, <1>3, <1>4, PowersGrow
<1>7. y <= b
  <2>1. CASE j = bits
    BY <1>4, <1>5, <2>1
  <2>2. CASE j < bits
    BY <1>2, <1>4, <1>5, <2>2, PowersGrow
  <2>. QED  BY <1>1, <2>1, <2>2
<1>. QED  BY <1>2, <1>3, <1>4, <1>5, <1>6, <1>7 DEF Ones

\* The fields of an update with the outcome taken.
LEMMA TakenUpdate ==
    ASSUME NEW addr, Direction!alpha_update(addr, TRUE)
    PROVE  /\ choice_predict' =
                IF Direction!GlobalTaken <=> Direction!LocalTaken(addr) THEN choice_predict
                ELSE IF Direction!GlobalTaken
                THEN [choice_predict EXCEPT ![path_history] = Direction!Train(@, 2, TRUE)]
                ELSE [choice_predict EXCEPT ![path_history] = Direction!Train(@, 2, FALSE)]
           /\ global_predict' =
                [global_predict EXCEPT ![path_history] = Direction!Train(@, 2, TRUE)]
           /\ local_predict' =
                [local_predict EXCEPT ![local_hist_table[Direction!PC(addr)]] =
                    Direction!Train(@, 3, TRUE)]
           /\ path_history' = Direction!Shift(path_history, PATH_BITS, TRUE)
           /\ local_hist_table' =
                [local_hist_table EXCEPT ![Direction!PC(addr)] =
                    Direction!Shift(@, LOCAL_BITS, TRUE)]
<1>1. Direction!GlobalTaken \in BOOLEAN /\ Direction!LocalTaken(addr) \in BOOLEAN
  BY DEF Direction!GlobalTaken, Direction!LocalTaken
<1>2. /\ (Direction!GlobalTaken = TRUE) = Direction!GlobalTaken
      /\ (Direction!LocalTaken(addr) = TRUE) = Direction!LocalTaken(addr)
  BY <1>1, Zenon
<1>3. (Direction!GlobalTaken = Direction!LocalTaken(addr))
        <=> (Direction!GlobalTaken <=> Direction!LocalTaken(addr))
  BY <1>1, Zenon
<1>4. /\ Direction!GlobalTaken => Direction!GlobalTaken = TRUE
      /\ ~Direction!GlobalTaken => Direction!GlobalTaken = FALSE
  BY <1>1, Zenon
<1>5. choice_predict' =
        IF Direction!GlobalTaken <=> Direction!LocalTaken(addr) THEN choice_predict
        ELSE [choice_predict EXCEPT ![path_history] =
                Direction!Train(@, 2, Direction!GlobalTaken)]
  BY <1>2, <1>3, Zenon DEF Direction!alpha_update
<1>6. choice_predict' =
        IF Direction!GlobalTaken <=> Direction!LocalTaken(addr) THEN choice_predict
        ELSE IF Direction!GlobalTaken
        THEN [choice_predict EXCEPT ![path_history] = Direction!Train(@, 2, TRUE)]
        ELSE [choice_predict EXCEPT ![path_history] = Direction!Train(@, 2, FALSE)]
  <2>1. CASE Direction!GlobalTaken
    <3>1. Direction!GlobalTaken = TRUE
      BY <1>4, <2>1
    <3>. QED  BY <1>5, <2>1, <3>1, Zenon
  <2>2. CASE ~Direction!GlobalTaken
    <3>1. Direction!GlobalTaken = FALSE
      BY <1>4, <2>2
    <3>. QED  BY <1>5, <2>2, <3>1, Zenon
  <2>. QED  BY <2>1, <2>2
<1>. QED  BY <1>6, Zenon DEF Direction!alpha_update

\* One more outcome taken leads from what n left in the tables to what n + 1 leave.
LEMMA LearnsTaken ==
    ASSUME NEW addr \in Nat, NEW n \in Nat, Learnt(addr, n),
           Direction!alpha_update(addr, TRUE)
    PROVE  Learnt(addr, n + 1)'
<1>1. /\ LOCAL_BITS \in Nat /\ PATH_BITS \in Nat /\ PC_BITS \in Nat
      /\ 2^PC_BITS \in Nat \ {0} /\ 2^LOCAL_BITS \in Nat \ {0} /\ 2^PATH_BITS \in Nat \ {0}
  <2>1. /\ LOCAL_BITS \in 0..(TableBits + 1) /\ PATH_BITS \in 0..(TableBits + 1)
        /\ PC_BITS \in 0..(TableBits + 1)
    BY TablesAssumption DEF TableBits
  <2>. QED  BY <2>1, TablesAssumption, Powers
<1>2. Direction!PC(addr) \in 0..(2^PC_BITS - 1)
  <2>1. \A m \in Nat \ {0} : addr % m \in 0..(m - 1)
    OBVIOUS
  <2>. QED  BY <1>1, <2>1 DEF Direction!PC
<1>3. TablesType /\ PathLearnt(n) /\ LocalLearnt(addr, n) /\ FullPathLearnt(n)
  BY DEF Learnt
<1>4. PICK slot \in 0..(2^PC_BITS - 1) : slot = Direction!PC(addr)
  BY <1>2
<1>5. PICK h \in 0..(2^LOCAL_BITS - 1) :
        /\ h = Ones(n, LOCAL_BITS)
        /\ Direction!Shift(h, LOCAL_BITS, TRUE) = Ones(n + 1, LOCAL_BITS)
  BY OnesShift
<1>6. PICK p \in 0..(2^PATH_BITS - 1) :
        /\ p = Ones(n, PATH_BITS)
        /\ Direction!Shift(p, PATH_BITS, TRUE) = Ones(n + 1, PATH_BITS)
  BY OnesShift
<1>7. path_history = p /\ local_hist_table[slot] = h
  BY <1>3, <1>4, <1>5, <1>6 DEF PathLearnt, LocalLearnt
<1>8. /\ Direction!GlobalTaken <=> n > PATH_BITS
      /\ Direction!LocalTaken(addr) <=> n > LOCAL_BITS
  BY <1>3, LocalGuess, GlobalGuess
<1>9. /\ global_predict' = [global_predict EXCEPT ![p] = Direction!Train(@, 2, TRUE)]
      /\ local_predict' = [local_predict EXCEPT ![h] = Direction!Train(@, 3, TRUE)]
      /\ path_history' = Ones(n + 1, PATH_BITS)
      /\ local_hist_table' =
            [local_hist_table EXCEPT ![slot] = Ones(n + 1, LOCAL_BITS)]
  <2>1. global_predict' = [global_predict EXCEPT ![p] = Direction!Train(@, 2, TRUE)]
    BY <1>7, TakenUpdate
  <2>2. local_predict' = [local_predict EXCEPT ![h] = Direction!Train(@, 3, TRUE)]
    BY <1>4, <1>7, TakenUpdate
  <2>3. path_history' = Ones(n + 1, PATH_BITS)
    BY <1>6, <1>7, TakenUpdate
  <2>4. local_hist_table' = [local_hist_table EXCEPT ![slot] = Ones(n + 1, LOCAL_BITS)]
    <3>1. local_hist_table' = [local_hist_table EXCEPT ![slot] =
                                  Direction!Shift(local_hist_table[slot], LOCAL_BITS, TRUE)]
      BY <1>4, TakenUpdate
    <3>. QED  BY <1>5, <1>7, <3>1
  <2>. QED  BY <2>1, <2>2, <2>3, <2>4
<1>10. choice_predict' =
        IF n > PATH_BITS <=> n > LOCAL_BITS THEN choice_predict
        ELSE IF n > PATH_BITS
        THEN [choice_predict EXCEPT ![p] = Direction!Train(@, 2, TRUE)]
        ELSE [choice_predict EXCEPT ![p] = Direction!Train(@, 2, FALSE)]
  BY <1>7, <1>8, TakenUpdate
<1>11. /\ local_hist_table \in [0..(2^PC_BITS - 1) -> 0..(2^LOCAL_BITS - 1)]
       /\ local_predict \in [0..(2^LOCAL_BITS - 1) -> 0..7]
       /\ global_predict \in [0..(2^PATH_BITS - 1) -> 0..3]
       /\ choice_predict \in [0..(2^PATH_BITS - 1) -> 0..3]
  BY <1>3 DEF TablesType
\* The cells that change, and those that do not.
<1>12. /\ global_predict'[p] = IF global_predict[p] < 3 THEN global_predict[p] + 1
                               ELSE global_predict[p]
       /\ \A q \in 0..(2^PATH_BITS - 1) : q # p => global_predict'[q] = global_predict[q]
       /\ global_predict' \in [0..(2^PATH_BITS - 1) -> 0..3]
  <2>1. PICK c \in 0..3 : c = global_predict[p]
    BY <1>11
  <2>2. PICK d \in 0..3 : d = Direction!Train(c, 2, TRUE)
    BY TrainsTwo
  <2>3. d = IF c < 3 THEN c + 1 ELSE c
    BY <2>2, TrainsTwo
  <2>4. global_predict' = [global_predict EXCEPT ![p] = d]
    BY <1>9, <2>1, <2>2
  <2>. QED  BY <1>11, <2>1, <2>3, <2>4
<1>13. /\ local_predict'[h] = IF local_predict[h] < 7 THEN local_predict[h] + 1
                              ELSE local_predict[h]
       /\ \A q \in 0..(2^LOCAL_BITS - 1) : q # h => local_predict'[q] = local_predict[q]
       /\ local_predict' \in [0..(2^LOCAL_BITS - 1) -> 0..7]
  <2>1. PICK c \in 0..7 : c = local_predict[h]
    BY <1>11
  <2>2. PICK d \in 0..7 : d = Direction!Train(c, 3, TRUE)
    BY TrainsThree
  <2>3. d = IF c < 7 THEN c + 1 ELSE c
    BY <2>2, TrainsThree
  <2>4. local_predict' = [local_predict EXCEPT ![h] = d]
    BY <1>9, <2>1, <2>2
  <2>. QED  BY <1>11, <2>1, <2>3, <2>4
<1>14. /\ choice_predict'[p] =
            IF n > PATH_BITS <=> n > LOCAL_BITS THEN choice_predict[p]
            ELSE IF n > PATH_BITS
            THEN (IF choice_predict[p] < 3 THEN choice_predict[p] + 1 ELSE choice_predict[p])
            ELSE (IF choice_predict[p] > 0 THEN choice_predict[p] - 1 ELSE choice_predict[p])
       /\ \A q \in 0..(2^PATH_BITS - 1) : q # p => choice_predict'[q] = choice_predict[q]
       /\ choice_predict' \in [0..(2^PATH_BITS - 1) -> 0..3]
  <2>1. PICK c \in 0..3 : c = choice_predict[p]
    BY <1>11
  <2>2. PICK d \in 0..3 : d = Direction!Train(c, 2, TRUE)
    BY TrainsTwo
  <2>3. PICK e \in 0..3 : e = Direction!Train(c, 2, FALSE)
    BY TrainsTwo
  <2>4. d = (IF c < 3 THEN c + 1 ELSE c) /\ e = (IF c > 0 THEN c - 1 ELSE c)
    BY <2>2, <2>3, TrainsTwo
  <2>5. choice_predict' = IF n > PATH_BITS <=> n > LOCAL_BITS THEN choice_predict
                          ELSE IF n > PATH_BITS THEN [choice_predict EXCEPT ![p] = d]
                          ELSE [choice_predict EXCEPT ![p] = e]
    BY <1>10, <2>1, <2>2, <2>3
  <2>. QED  BY <1>11, <2>1, <2>4, <2>5
<1>15. (TablesType)'
  <2>1. Ones(n + 1, LOCAL_BITS) \in 0..(2^LOCAL_BITS - 1)
    <3>1. n + 1 \in Nat
      OBVIOUS
    <3>. QED  BY <3>1, OnesShift
  <2>2. local_hist_table' \in [0..(2^PC_BITS - 1) -> 0..(2^LOCAL_BITS - 1)]
    BY <1>9, <1>11, <2>1
  <2>. QED  BY <1>12, <1>13, <1>14, <2>2 DEF TablesType
<1>16. PathLearnt(n + 1)'
  <2>1. ASSUME NEW j \in 0..PATH_BITS, j >= n + 1
        PROVE  global_predict'[2^j - 1] = 1 /\ choice_predict'[2^j - 1] = 2
    <3>1. PICK q : q = 2^j - 1
      OBVIOUS
    <3>2. q # p /\ q \in 0..(2^PATH_BITS - 1) /\ j >= n
      BY <1>6, <2>1, <3>1, OtherPowers
    <3>3. global_predict[q] = 1 /\ choice_predict[q] = 2
      BY <1>3, <3>1, <3>2 DEF PathLearnt
    <3>. QED  BY <1>12, <1>14, <3>1, <3>2, <3>3
  <2>. QED  BY <1>9, <2>1 DEF PathLearnt
<1>17. LocalLearnt(addr, n + 1)'
  <2>1. ASSUME NEW j \in 0..LOCAL_BITS, j >= n + 1
        PROVE  local_predict'[2^j - 1] = 3
    <3>1. PICK q : q = 2^j - 1
      OBVIOUS
    <3>2. q # h /\ q \in 0..(2^LOCAL_BITS - 1) /\ j >= n
      BY <1>5, <2>1, <3>1, OtherPowers
    <3>3. local_predict[q] = 3
      BY <1>3, <3>1, <3>2 DEF LocalLearnt
    <3>. QED  BY <1>13, <3>1, <3>2, <3>3
  <2>2. ASSUME n + 1 > LOCAL_BITS PROVE local_predict'[2^LOCAL_BITS - 1] >= 4
    <3>1. h = 2^LOCAL_BITS - 1
      BY <1>1, <1>5, <2>2 DEF Ones, Least
    <3>2. local_predict[h] >= 3 /\ local_predict[h] \in 0..7
      <4>1. n >= LOCAL_BITS /\ LOCAL_BITS \in 0..LOCAL_BITS
        BY <1>1, <2>2
      <4>2. CASE n = LOCAL_BITS
        BY <1>3, <1>11, <3>1, <4>1, <4>2 DEF LocalLearnt
      <4>3. CASE n > LOCAL_BITS
        BY <1>3, <1>11, <3>1, <4>3 DEF LocalLearnt
      <4>. QED  BY <1>1, <4>1, <4>2, <4>3
    <3>. QED  BY <1>13, <3>1, <3>2
  <2>3. (local_hist_table[Direction!PC(addr)])' = Ones(n + 1, LOCAL_BITS)
    BY <1>4, <1>9, <1>11
  <2>. QED  BY <2>1, <2>2, <2>3 DEF LocalLearnt
<1>18. FullPathLearnt(n + 1)'
  <2>. SUFFICES ASSUME n + 1 > PATH_BITS
                PROVE  /\ global_predict'[2^PATH_BITS - 1] >= 2
                       /\ choice_predict'[2^PATH_BITS - 1] >= 2 \/ n + 1 > LOCAL_BITS
    BY DEF FullPathLearnt
  <2>1. p = 2^PATH_BITS - 1 /\ n >= PATH_BITS
    BY <1>1, <1>6 DEF Ones, Least
  <2>2. CASE n = PATH_BITS
    <3>1. global_predict[p] = 1 /\ choice_predict[p] = 2
      BY <1>1, <1>3, <2>1, <2>2 DEF PathLearnt
    <3>. QED  BY <1>1, <1>12, <1>14, <2>1, <2>2, <3>1
  <2>3. CASE n > PATH_BITS
    <3>1. /\ global_predict[p] >= 2 /\ global_predict[p] \in 0..3
          /\ choice_predict[p] >= 2 \/ n > LOCAL_BITS
          /\ choice_predict[p] \in 0..3
      BY <1>3, <1>11, <2>1, <2>3 DEF FullPathLearnt
    <3>. QED  BY <1>1, <1>12, <1>14, <2>1, <2>3, <3>1
  <2>. QED  BY <1>1, <2>1, <2>2, <2>3
<1>. QED  BY <1>15, <1>16, <1>17, <1>18 DEF Learnt

\* Fresh tables have seen none.
LEMMA LearntNothing ==
    ASSUME NEW addr \in Nat, Direction!alpha_setup
    PROVE  Learnt(addr, 0)
<1>1. /\ LOCAL_BITS \in Nat /\ PATH_BITS \in Nat /\ PC_BITS \in Nat
      /\ 2^PC_BITS \in Nat \ {0} /\ 2^LOCAL_BITS \in Nat \ {0} /\ 2^PATH_BITS \in Nat \ {0}
  <2>1. /\ LOCAL_BITS \in 0..(TableBits + 1) /\ PATH_BITS \in 0..(TableBits + 1)
        /\ PC_BITS \in 0..(TableBits + 1)
    BY TablesAssumption DEF TableBits
  <2>. QED  BY <2>1, TablesAssumption, Powers
<1>2. Direction!PC(addr) \in 0..(2^PC_BITS - 1)
  <2>1. \A m \in Nat \ {0} : addr % m \in 0..(m - 1)
    OBVIOUS
  <2>. QED  BY <1>1, <2>1 DEF Direction!PC
<1>3. Ones(0, LOCAL_BITS) = 0 /\ Ones(0, PATH_BITS) = 0
  BY <1>1 DEF Ones, Least
<1>4. TablesType
  BY <1>1 DEF Direction!alpha_setup, Direction!Histories, TablesType
<1>5. \A bits \in {LOCAL_BITS, PATH_BITS}, j \in Nat :
            j <= bits => 2^j - 1 \in 0..(2^bits - 1)
  <2>. TAKE bits \in {LOCAL_BITS, PATH_BITS}, j \in Nat
  <2>. HAVE j <= bits
  <2>1. bits \in 1..TableBits /\ TableBits \in Nat
    BY TablesAssumption DEF TableBits
  <2>2. bits \in 0..(TableBits + 1) /\ j \in 0..(TableBits + 1)
    BY <2>1
  <2>3. PICK y \in Nat \ {0} : y = 2^j
    BY <2>2, Powers
  <2>4. PICK b \in Nat \ {0} : b = 2^bits
    BY <2>2, Powers
  <2>5. y <= b
    <3>1. CASE j = bits
      BY <2>3, <2>4, <3>1
    <3>2. CASE j < bits
      BY <2>2, <2>3, <2>4, <3>2, PowersGrow
    <3>. QED  BY <2>1, <3>1, <3>2
  <2>. QED  BY <2>3, <2>4, <2>5
<1>6. PathLearnt(0)
  BY <1>1, <1>3, <1>5 DEF Direction!alpha_setup, Direction!Histories, PathLearnt
<1>7. LocalLearnt(addr, 0)
  BY <1>1, <1>2, <1>3, <1>5 DEF Direction!alpha_setup, Direction!Histories, LocalLearnt
<1>8. FullPathLearnt(0)
  BY <1>1 DEF FullPathLearnt
<1>. QED  BY <1>4, <1>6, <1>7, <1>8 DEF Learnt

--------------------------------------------------------------------------------
(* A trace whose conditional branches are one that is always taken *)

\* The conditional branches among the first n.
ConditionalsUpTo(n) == {k \in 1..n : Lines(trace)[k].is_conditional}

\* The judge's count of conditional branches is the number of those lines, and it stops
\* at the end of the trace.
CountInv ==
    /\ stat.cc_branches = Cardinality(ConditionalsUpTo(stat.branches))
    /\ NumCond \in Nat
    /\ pc = "done" => next = "get_branch_record" /\ os.clock = Len(trace)

\* CountInv holds initially and is preserved.
LEMMA CountInit == Init => CountInv
<1>. SUFFICES ASSUME Init PROVE CountInv
  OBVIOUS
<1>1. /\ stat.cc_branches = 0 /\ stat.branches = 0 /\ NumCond = 0 /\ pc = "client"
  BY DEF Init, Judge!Init, NumCond, One, Untrained, Uncompared
<1>2. ConditionalsUpTo(0) = {}
  BY DEF ConditionalsUpTo
<1>. QED  BY <1>1, <1>2, FS_EmptySet DEF CountInv

LEMMA CountStep == DriverInv /\ CountInv /\ [Next]_vars => CountInv'
<1>. SUFFICES ASSUME DriverInv, CountInv, [Next]_vars PROVE CountInv'
  OBVIOUS
<1>1. CASE Scores \/ ReadsOp \/ Ends
  <2>1. UNCHANGED Text!vars /\ UNCHANGED <<next, trace>> /\ next = "get_branch_record"
    BY <1>1, ScoresStutters, ReadsOpStutters, EndsStutters DEF Scores, ReadsOp, Ends
  <2>2. UNCHANGED <<stat.branches, NumCond>>
    BY <2>1 DEF Text!vars, NumCond
  <2>3. UNCHANGED stat.cc_branches
    BY <1>1, ScoreCounts, LinesFacts DEF Scores, ReadsOp, Ends, Judge!ReadOp, Judge!EndOfTrace
  <2>4. pc' = "done" => next' = "get_branch_record" /\ os'.clock = Len(trace')
    BY <1>1, <2>1 DEF Scores, ReadsOp, Ends, Judge!Score, Judge!ReadOp, Judge!EndOfTrace
  <2>. QED  BY <2>1, <2>2, <2>3, <2>4 DEF CountInv, ConditionalsUpTo
<1>2. CASE ReadsBranch
  <2>. DEFINE inst == trace[os.clock + 1]
  <2>1. /\ next' = "get_prediction" /\ pc' = "client" /\ trace' = trace
        /\ branch_record'.is_conditional = inst.is_conditional
        /\ stat'.branches = stat.branches + 1
        /\ stat'.cc_branches = IF inst.is_conditional THEN stat.cc_branches + 1
                               ELSE stat.cc_branches
    BY <1>2, ReadBranchCounts, LinesFacts DEF ReadsBranch, Judge!ReadBranch
  <2>2. UNCHANGED NumCond
    BY <1>2, ReadsBranchScans DEF Text!Scanf, NumCond
  <2>3. DriverInv'
    BY <1>2, ReadsBranchInv
  <2>4. Lines(trace)[stat.branches + 1].is_conditional = inst.is_conditional
    <3>1. stat'.branches > 0
      BY <2>1, <2>3 DEF DriverInv, Protocol
    <3>2. CurrentLine' = Lines(trace)[stat.branches + 1]
      BY <2>1, <2>3, <3>1 DEF DriverInv, Position
    <3>3. CurrentLine'.is_conditional = branch_record'.is_conditional
      BY DEF CurrentLine, br
    <3>. QED  BY <2>1, <3>2, <3>3
  <2>5. PICK n \in Nat : n = stat.branches
    BY LinesFacts
  <2>6. /\ ConditionalsUpTo(n + 1)
            = IF inst.is_conditional THEN ConditionalsUpTo(n) \cup {n + 1}
              ELSE ConditionalsUpTo(n)
        /\ n + 1 \notin ConditionalsUpTo(n)
    <3>1. \A k : k \in 1..(n + 1) <=> k \in 1..n \/ k = n + 1
      OBVIOUS
    <3>2. n + 1 \notin 1..n
      OBVIOUS
    <3>3. Lines(trace)[n + 1].is_conditional = inst.is_conditional
      BY <2>4, <2>5
    <3>. HIDE DEF inst
    <3>. QED  BY <3>1, <3>2, <3>3 DEF ConditionalsUpTo
  <2>7. IsFiniteSet(ConditionalsUpTo(n))
    <3>1. IsFiniteSet(1..n)
      BY FS_Interval
    <3>2. ConditionalsUpTo(n) \subseteq 1..n
      BY DEF ConditionalsUpTo
    <3>. QED  BY <3>1, <3>2, FS_Subset
  <2>8. Cardinality(ConditionalsUpTo(n) \cup {n + 1}) = Cardinality(ConditionalsUpTo(n)) + 1
    BY <2>6, <2>7, FS_AddElement
  <2>9. ConditionalsUpTo(n)' = ConditionalsUpTo(n) /\ ConditionalsUpTo(n + 1)' = ConditionalsUpTo(n + 1)
    BY <2>1 DEF ConditionalsUpTo
  <2>10. ConditionalsUpTo(stat.branches)' = ConditionalsUpTo(n + 1)
    BY <2>1, <2>5 DEF ConditionalsUpTo
  <2>. HIDE DEF inst
  <2>. QED  BY <2>1, <2>2, <2>5, <2>6, <2>8, <2>10 DEF CountInv
<1>3. CASE GetPrediction \/ PredictBranch
  <2>1. UNCHANGED NumCond
    BY <1>3, GetPredictionPredicts, PredictBranchCompares
       DEF Text!GetPrediction, Text!Compare, NumCond
  <2>2. UNCHANGED <<stat, trace, pc>> /\ pc = "client"
    BY <1>3 DEF GetPrediction, PredictBranch, Judge!PredictBranch, judgeVars, DriverInv, Protocol
  <2>. QED  BY <2>1, <2>2 DEF CountInv, ConditionalsUpTo
<1>4. CASE UpdatePredictor
  <2>1. NumCond' = IF Text!br.is_conditional THEN NumCond + 1 ELSE NumCond
    BY <1>4, UpdatePredictorUpdates DEF Text!UpdatePredictor, NumCond
  <2>2. UNCHANGED <<stat, trace, pc>> /\ pc = "client"
    BY <1>4 DEF UpdatePredictor, judgeVars, DriverInv, Protocol
  <2>. HIDE DEF NumCond
  <2>. QED  BY <2>1, <2>2 DEF CountInv, ConditionalsUpTo
<1>5. CASE UNCHANGED vars
  <2>1. UNCHANGED <<stat, trace, pc, next, os, branch_record>>
    BY <1>5 DEF vars, judgeVars
  <2>. QED  BY <2>1 DEF CountInv, ConditionalsUpTo, NumCond, Untrained, Uncompared
<1>. QED  BY <1>1, <1>2, <1>3, <1>4, <1>5, CasesOfGetBranchRecord DEF Next

\* The conditional branches whose predictions were compared with their outcomes.
Compared == stat.cc_branches - One(Uncompared /\ branch_record.is_conditional)

\* The tables are those of the outcomes taken so far, and of the predictions compared
\* all were wrong, up to the first PATH_BITS + 1.
SteadyInv ==
    OneSteadyBranch /\ ~Hooked =>
        /\ \A k \in Conditionals : Learnt(Lines(trace)[k].instruction_addr, NumCond)
        /\ mis_bpreds = Least(Compared, PATH_BITS + 1)
        /\ next = "predict_branch" /\ branch_record.is_conditional =>
                predicted_taken = IF NumCond > PATH_BITS THEN TRUE ELSE FALSE

\* SteadyInv holds initially, is preserved, and implies the number of misses at the end.
LEMMA SteadyInit == Init => SteadyInv
<1>. SUFFICES ASSUME Init PROVE SteadyInv
  OBVIOUS
<1>1. /\ next = "get_branch_record" /\ NumCond = 0 /\ Compared = 0 /\ mis_bpreds = 0
  BY DEF Init, Judge!Init, NumCond, Compared, mis_bpreds, One, Untrained, Uncompared, Unscored
<1>2. Direction!alpha_setup
  BY DEF Init, PredictorInit
<1>3. ASSUME NEW k \in Conditionals PROVE Learnt(Lines(trace)[k].instruction_addr, 0)
  <2>1. Lines(trace) \in Seq(TextLines)
    BY InitInv, LinesFacts
  <2>2. Lines(trace)[k] \in TextLines
    BY <2>1 DEF Conditionals
  <2>3. Lines(trace)[k].instruction_addr \in Nat
    BY <2>2, LineTypes
  <2>. QED  BY <1>2, <2>3, LearntNothing
<1>4. Least(0, PATH_BITS + 1) = 0
  BY TablesAssumption DEF Least
<1>. QED  BY <1>1, <1>3, <1>4 DEF SteadyInv

\* What the direction tables and the score take no part in.
LEMMA SteadyWaits ==
    ASSUME SteadyInv, UNCHANGED <<env, trace, tables, NumCond, mis_bpreds, Compared>>,
           next' # "predict_branch"
    PROVE  SteadyInv'
<1>1. /\ Hooked' = Hooked /\ OneSteadyBranch' = OneSteadyBranch
      /\ Conditionals' = Conditionals
  BY DEF Hooked, OneSteadyBranch, Conditionals
<1>2. \A addr, n : Learnt(addr, n)' <=> Learnt(addr, n)
  BY DEF Learnt, TablesType, PathLearnt, LocalLearnt, FullPathLearnt, tables
<1>3. \A addr : Learnt(addr, NumCond)' <=> Learnt(addr, NumCond)
  BY DEF Learnt, TablesType, PathLearnt, LocalLearnt, FullPathLearnt, tables
<1>. QED  BY <1>1, <1>3 DEF SteadyInv

\* The current branch, when it is a conditional one.
LEMMA SteadyCurrent ==
    ASSUME DriverInv, next # "get_branch_record", branch_record.is_conditional
    PROVE  /\ stat.branches \in Conditionals
           /\ Lines(trace)[stat.branches].instruction_addr = br.instruction_addr
           /\ Lines(trace)[stat.branches].taken = truth.taken
           /\ br.instruction_addr \in Nat /\ truth.taken \in BOOLEAN
<1>1. Lines(trace)[stat.branches] = CurrentLine /\ CurrentLine \in TextLines
  BY CurrentFacts
<1>2. stat.branches \in DOMAIN Lines(trace)
  <2>1. stat.branches \in Nat /\ stat.branches - 1 \in Nat
        /\ stat.branches <= Len(Lines(trace)) /\ Lines(trace) \in Seq(TextLines)
    BY CurrentFacts, LinesFacts
  <2>. QED  BY <2>1
<1>3. /\ CurrentLine.is_conditional = branch_record.is_conditional
      /\ CurrentLine.instruction_addr = br.instruction_addr
      /\ CurrentLine.taken = truth.taken
  BY DEF CurrentLine, br
<1>4. CurrentLine.instruction_addr \in Nat /\ CurrentLine.taken \in BOOLEAN
  BY <1>1, LineTypes
<1>. QED  BY <1>1, <1>2, <1>3, <1>4 DEF Conditionals

\* The three calls of the predictor.
LEMMA SteadyGetPrediction ==
    DriverInv /\ CountInv /\ SteadyInv /\ GetPrediction => SteadyInv'
<1>. SUFFICES ASSUME DriverInv, CountInv, SteadyInv, GetPrediction,
                     (OneSteadyBranch /\ ~Hooked)'
              PROVE  SteadyInv'
  BY DEF SteadyInv
<1>1. /\ next = "get_prediction" /\ next' = "predict_branch"
      /\ get_prediction(br)
      /\ UNCHANGED <<trace, env, tables, branch_record, stat>>
  BY DEF GetPrediction, judgeVars, get_prediction
<1>2. OneSteadyBranch /\ ~Hooked /\ Conditionals' = Conditionals
  BY <1>1 DEF OneSteadyBranch, Conditionals, Hooked
<1>3. UNCHANGED <<NumCond, mis_bpreds>>
  BY GetPredictionPredicts DEF Text!GetPrediction, NumCond
<1>4. UNCHANGED Compared
  BY <1>1 DEF Compared, Uncompared
<1>5. \A addr : Learnt(addr, NumCond)' <=> Learnt(addr, NumCond)
  BY <1>1, <1>3 DEF Learnt, TablesType, PathLearnt, LocalLearnt, FullPathLearnt, tables
<1>6. ASSUME branch_record.is_conditional
      PROVE  predicted_taken' = IF NumCond > PATH_BITS THEN TRUE ELSE FALSE
  <2>1. PICK n \in Nat : n = NumCond
    BY DEF CountInv
  <2>2. Learnt(br.instruction_addr, n)
    BY <1>1, <1>2, <1>6, <2>1, SteadyCurrent DEF SteadyInv
  <2>3. Direction!alpha_predict(br.instruction_addr) <=> n > PATH_BITS
    BY <2>2, LearntGuess
  <2>4. Direction!alpha_predict(br.instruction_addr) \in BOOLEAN
    <3>1. Direction!GlobalTaken \in BOOLEAN
          /\ Direction!LocalTaken(br.instruction_addr) \in BOOLEAN
      BY DEF Direction!GlobalTaken, Direction!LocalTaken
    <3>. QED  BY <3>1, Zenon DEF Direction!alpha_predict
  <2>5. predicted_taken' = (br.is_conditional =>
                                Direction!alpha_predict(br.instruction_addr))
    BY <1>1, <1>2, Zenon DEF get_prediction, ThinksTaken
  <2>6. br.is_conditional
    BY <1>6 DEF br
  <2>7. predicted_taken' = Direction!alpha_predict(br.instruction_addr)
    BY <2>4, <2>5, <2>6, Zenon
  <2>. QED  BY <2>1, <2>3, <2>4, <2>7
<1>. QED  BY <1>1, <1>2, <1>3, <1>4, <1>5, <1>6 DEF SteadyInv

LEMMA SteadyPredictBranch ==
    DriverInv /\ CountInv /\ SteadyInv /\ PredictBranch => SteadyInv'
<1>. SUFFICES ASSUME DriverInv, CountInv, SteadyInv, PredictBranch,
                     (OneSteadyBranch /\ ~Hooked)'
              PROVE  SteadyInv'
  BY DEF SteadyInv
<1>1. /\ next = "predict_branch" /\ next' = "update_predictor"
      /\ UNCHANGED <<trace, env, tables, branch_record, truth, stat>>
  BY DEF PredictBranch, Judge!PredictBranch
<1>2. OneSteadyBranch /\ ~Hooked /\ Conditionals' = Conditionals
  BY <1>1 DEF OneSteadyBranch, Conditionals, Hooked
<1>3. /\ UNCHANGED NumCond
      /\ mis_bpreds' = IF Text!br.is_conditional /\ predicted_taken # Text!br.taken
                       THEN mis_bpreds + 1 ELSE mis_bpreds
  BY PredictBranchCompares DEF Text!Compare, NumCond
<1>4. \A addr : Learnt(addr, NumCond)' <=> Learnt(addr, NumCond)
  BY <1>1, <1>3 DEF Learnt, TablesType, PathLearnt, LocalLearnt, FullPathLearnt, tables
<1>5. /\ Text!br.is_conditional = branch_record.is_conditional
      /\ Text!br.taken = truth.taken
  BY <1>1, SameBranch
<1>6. PICK n \in Nat : n = NumCond
  BY DEF CountInv
<1>7. PATH_BITS \in Nat /\ stat.cc_branches \in Nat
  BY TablesAssumption, LinesFacts DEF Statistics
<1>8. Compared = n
  BY <1>1, <1>6 DEF Compared, NumCond, Untrained, Uncompared
<1>9. Compared' = IF branch_record.is_conditional THEN n + 1 ELSE n
  <2>1. Compared' = stat.cc_branches
    BY <1>1, <1>7 DEF Compared, Uncompared, One
  <2>2. n = stat.cc_branches - One(branch_record.is_conditional)
    BY <1>1, <1>8 DEF Compared, Uncompared, One
  <2>. QED  BY <1>7, <2>1, <2>2 DEF One
<1>10. mis_bpreds' = Least(Compared', PATH_BITS + 1)
  <2>1. mis_bpreds = Least(n, PATH_BITS + 1)
    BY <1>2, <1>8 DEF SteadyInv
  <2>2. CASE ~branch_record.is_conditional
    BY <1>3, <1>5, <1>9, <2>1, <2>2
  <2>3. CASE branch_record.is_conditional
    <3>1. predicted_taken = IF n > PATH_BITS THEN TRUE ELSE FALSE
      BY <1>1, <1>2, <1>6, <2>3 DEF SteadyInv
    <3>2. truth.taken = TRUE
      BY <1>1, <1>2, <2>3, SteadyCurrent DEF OneSteadyBranch
    <3>3. mis_bpreds' = IF n > PATH_BITS THEN mis_bpreds ELSE mis_bpreds + 1
      BY <1>3, <1>5, <2>3, <3>1, <3>2
    <3>4. Compared' = n + 1
      BY <1>9, <2>3
    <3>. QED  BY <1>7, <2>1, <3>3, <3>4 DEF Least
  <2>. QED  BY <2>2, <2>3
<1>. QED  BY <1>1, <1>2, <1>3, <1>4, <1>10 DEF SteadyInv

LEMMA SteadyUpdatePredictor ==
    DriverInv /\ CountInv /\ SteadyInv /\ UpdatePredictor => SteadyInv'
<1>. SUFFICES ASSUME DriverInv, CountInv, SteadyInv, UpdatePredictor,
                     (OneSteadyBranch /\ ~Hooked)'
              PROVE  SteadyInv'
  BY DEF SteadyInv
<1>1. /\ next = "update_predictor" /\ next' = "get_branch_record"
      /\ update_predictor(br, truth.taken, targetaddress)
      /\ UNCHANGED <<trace, env, branch_record, truth, stat>>
  BY DEF UpdatePredictor, judgeVars, update_predictor
<1>2. OneSteadyBranch /\ ~Hooked /\ Conditionals' = Conditionals
  BY <1>1 DEF OneSteadyBranch, Conditionals, Hooked
<1>3. /\ UNCHANGED mis_bpreds
      /\ NumCond' = IF Text!br.is_conditional THEN NumCond + 1 ELSE NumCond
  BY UpdatePredictorUpdates DEF Text!UpdatePredictor, NumCond
<1>4. Text!br.is_conditional = branch_record.is_conditional
  BY <1>1, SameBranch
<1>5. UNCHANGED Compared
  BY <1>1 DEF Compared, Uncompared
<1>6. PICK n \in Nat : n = NumCond
  BY DEF CountInv
<1>7. CASE ~branch_record.is_conditional
  <2>1. UNCHANGED tables
    BY <1>1, <1>7 DEF update_predictor, br
  <2>2. UNCHANGED NumCond
    BY <1>3, <1>4, <1>7
  <2>. QED  BY <1>1, <1>3, <1>5, <2>1, <2>2, SteadyWaits
<1>8. CASE branch_record.is_conditional
  <2>. DEFINE a == br.instruction_addr
  <2>1. Direction!alpha_update(a, truth.taken)
    BY <1>1, <1>8 DEF update_predictor, br
  <2>2. truth.taken = TRUE /\ a \in Nat
    BY <1>1, <1>2, <1>8, SteadyCurrent DEF OneSteadyBranch
  <2>3. Learnt(a, n)
    BY <1>1, <1>2, <1>6, <1>8, SteadyCurrent DEF SteadyInv
  <2>4. PICK addr \in Nat : addr = a
    BY <2>2
  <2>5. Direction!alpha_update(addr, TRUE) /\ Learnt(addr, n)
    BY <2>1, <2>2, <2>3, <2>4
  <2>6. Learnt(addr, n + 1)'
    BY <2>5, LearnsTaken
  <2>7. NumCond' = n + 1
    BY <1>3, <1>4, <1>6, <1>8
  <2>8. \A k \in Conditionals : Lines(trace)[k].instruction_addr = addr
    BY <1>1, <1>2, <1>8, <2>4, SteadyCurrent DEF OneSteadyBranch
  <2>9. Learnt(addr, NumCond)'
    BY <2>6, <2>7 DEF Learnt, PathLearnt, LocalLearnt, FullPathLearnt
  <2>10. \A k \in Conditionals' : Learnt(Lines(trace)[k].instruction_addr, NumCond)'
    BY <1>1, <1>2, <2>8, <2>9
  <2>. QED  BY <1>1, <1>2, <1>3, <1>5, <2>10 DEF SteadyInv
<1>. QED  BY <1>7, <1>8

LEMMA SteadyStep == DriverInv /\ CountInv /\ SteadyInv /\ [Next]_vars => SteadyInv'
<1>. SUFFICES ASSUME DriverInv, CountInv, SteadyInv, [Next]_vars PROVE SteadyInv'
  OBVIOUS
<1>1. CASE Scores \/ ReadsOp \/ Ends
  <2>1. UNCHANGED Text!vars /\ UNCHANGED <<next, trace, env, tables, branch_record>>
        /\ next = "get_branch_record"
    BY <1>1, ScoresStutters, ReadsOpStutters, EndsStutters
       DEF Scores, ReadsOp, Ends, Judge!Score, Judge!ReadOp, Judge!EndOfTrace, predictorVars
  <2>2. UNCHANGED <<NumCond, mis_bpreds>>
    BY <2>1 DEF Text!vars, NumCond
  <2>3. UNCHANGED stat.cc_branches
    BY <1>1, ScoreCounts, LinesFacts DEF Scores, ReadsOp, Ends, Judge!ReadOp, Judge!EndOfTrace
  <2>4. UNCHANGED Compared
    BY <2>1, <2>3 DEF Compared, Uncompared
  <2>. QED  BY <2>1, <2>2, <2>4, SteadyWaits
<1>2. CASE ReadsBranch
  <2>1. /\ next = "get_branch_record" /\ next' = "get_prediction"
        /\ UNCHANGED <<trace, env, tables>>
    BY <1>2 DEF ReadsBranch, predictorVars
  <2>2. UNCHANGED <<NumCond, mis_bpreds>>
    BY <1>2, ReadsBranchScans DEF Text!Scanf, Text!predictorVars, NumCond
  <2>3. UNCHANGED Compared
    <3>1. Compared = stat.cc_branches - One(FALSE) /\ NumCond = stat.cc_branches - One(FALSE)
      BY <2>1 DEF Compared, NumCond, Untrained, Uncompared, One
    <3>2. Compared' = NumCond'
      BY <2>1 DEF Compared, NumCond, Untrained, Uncompared
    <3>. QED  BY <2>2, <3>1, <3>2
  <2>. QED  BY <2>1, <2>2, <2>3, SteadyWaits
<1>3. CASE UNCHANGED vars
  <2>1. UNCHANGED <<trace, next, env, tables, predicted_taken, stat, pc, branch_record,
                    truth, prediction>>
    BY <1>3 DEF vars, predictorVars, judgeVars
  <2>2. UNCHANGED <<NumCond, mis_bpreds, Compared>>
    BY <2>1 DEF NumCond, mis_bpreds, Compared, Untrained, Uncompared, Unscored,
                Judge!DirectionRight
  <2>3. UNCHANGED <<OneSteadyBranch, Hooked, Conditionals>>
    BY <2>1 DEF OneSteadyBranch, Conditionals, Hooked
  <2>4. \A addr : Learnt(addr, NumCond)' <=> Learnt(addr, NumCond)
    BY <2>1, <2>2 DEF Learnt, TablesType, PathLearnt, LocalLearnt, FullPathLearnt, tables
  <2>. QED  BY <2>1, <2>2, <2>3, <2>4 DEF SteadyInv
<1>. QED  BY <1>1, <1>2, <1>3, CasesOfGetBranchRecord, SteadyGetPrediction,
             SteadyPredictBranch, SteadyUpdatePredictor DEF Next

LEMMA SteadyHolds == DriverInv /\ CountInv /\ SteadyInv => SteadyBranchMisses
<1>. SUFFICES ASSUME DriverInv, CountInv, SteadyInv, pc = "done", ~Hooked, OneSteadyBranch
              PROVE  mis_bpreds = IF Cardinality(Conditionals) <= PATH_BITS
                                  THEN Cardinality(Conditionals) ELSE PATH_BITS + 1
  BY DEF SteadyBranchMisses
<1>1. next = "get_branch_record" /\ os.clock = Len(trace)
  BY DEF CountInv
<1>2. stat.branches = Len(Lines(trace)) /\ Lines(trace) \in Seq(TextLines)
  BY <1>1, LinesFacts DEF DriverInv, Position, Lines
<1>3. ConditionalsUpTo(stat.branches) = Conditionals
  BY <1>2 DEF ConditionalsUpTo, Conditionals
<1>4. stat.cc_branches = Cardinality(Conditionals) /\ stat.cc_branches \in Nat
  BY <1>3, LinesFacts DEF CountInv, Statistics
<1>5. Compared = stat.cc_branches
  BY <1>1, <1>4 DEF Compared, Uncompared, One
<1>6. mis_bpreds = Least(stat.cc_branches, PATH_BITS + 1)
  BY <1>5 DEF SteadyInv
<1>. QED  BY <1>4, <1>6, TablesAssumption DEF Least

\* A branch that is always taken, the only conditional one of a trace, is
\* mispredicted until the path history is full of it and once more, whatever other
\* branches and instructions come between (predictor.cc:738).
THEOREM SteadyBranchIsLearnt == Spec => []SteadyBranchMisses
<1>1. Spec => [](DriverInv /\ CountInv /\ SteadyInv)
  BY InitInv, StepInv, CountInit, CountStep, SteadyInit, SteadyStep, PTL DEF Spec
<1>. QED  BY <1>1, SteadyHolds, PTL

--------------------------------------------------------------------------------
(* What is proved of Btb holds of the program *)

\* Btb once more, with its theorems.
Half == INSTANCE BtbProofs WITH
            Configs <- Settings,
            Trace <- BtbTrace,
            MaxDepth <- MaxInsts,
            config <- Setup(env),
            phase <- HalfPhase,
            br <- HalfBranch,
            predicted <- PredictedTarget,
            resolved <- HalfResolved

\* It is the machine that the driver implements, operator by operator.
LEMMA BtbInit == Half!Init <=> TargetHalf!Init
BY DEF Half!Init, Half!NewCaches, Half!Sets, Half!Ways, Half!EMPTY, Half!NewCounters,
   Half!Enabled, Half!NewStack, Half!NoBranch, TargetHalf!Init, TargetHalf!NewCaches,
   TargetHalf!Sets, TargetHalf!Ways, TargetHalf!EMPTY, TargetHalf!NewCounters,
   TargetHalf!Enabled, TargetHalf!NewStack, TargetHalf!NoBranch, HalfPhase, HalfBranch,
   HalfResolved

LEMMA BtbLookups ==
    ASSUME NEW g, NEW c, NEW addr
    PROVE  /\ Half!Hit(g, c, addr) = TargetHalf!Hit(g, c, addr)
           /\ Half!Lookup(g, c, addr) = TargetHalf!Lookup(g, c, addr)
BY DEF TargetHalf!Hit, TargetHalf!Lookup, TargetHalf!Enabled, TargetHalf!Matches,
   TargetHalf!FirstMatch, TargetHalf!Index, TargetHalf!Tag, TargetHalf!Ways,
   Half!Hit, Half!Lookup, Half!Enabled, Half!Matches, Half!FirstMatch, Half!Index,
   Half!Tag, Half!Ways

LEMMA BtbUpdate ==
    ASSUME NEW g, NEW c, NEW addr, NEW target
    PROVE  Half!Update(g, c, addr, target) = TargetHalf!Update(g, c, addr, target)
BY BtbLookups DEF
   TargetHalf!Update, TargetHalf!Inserted, TargetHalf!Untouched,
   TargetHalf!Refreshed, TargetHalf!Fits, TargetHalf!Matches,
   TargetHalf!FirstMatch, TargetHalf!Index, TargetHalf!Tag, TargetHalf!Enabled,
   TargetHalf!EvictedAddr, TargetHalf!EvictedTarget, TargetHalf!InUse,
   TargetHalf!AddrOf, TargetHalf!EMPTY, TargetHalf!Victim, TargetHalf!Replaced,
   TargetHalf!Touch, TargetHalf!Oldest, TargetHalf!Ways, TargetHalf!WAY_LRU,
   TargetHalf!WAY_RROBIN, Half!Update, Half!Inserted, Half!Untouched, Half!Refreshed,
   Half!Fits, Half!Matches, Half!FirstMatch, Half!Index, Half!Tag, Half!Enabled,
   Half!EvictedAddr, Half!EvictedTarget, Half!InUse, Half!AddrOf, Half!EMPTY,
   Half!Victim, Half!Replaced, Half!Touch, Half!Oldest, Half!Ways, Half!WAY_LRU,
   Half!WAY_RROBIN

LEMMA BtbCalls ==
    ASSUME NEW b
    PROVE  /\ Half!btb_predict(b) <=> TargetHalf!btb_predict(b)
           /\ Half!btb_update(b) <=> TargetHalf!btb_update(b)
<1>1. Half!BtbPredict(b) = TargetHalf!BtbPredict(b)
  BY BtbLookups DEF TargetHalf!BtbPredict, TargetHalf!HasReturn,
     TargetHalf!ReturnAddress, TargetHalf!InBtb, TargetHalf!InDisp, TargetHalf!InMain,
     TargetHalf!CachedTarget, Half!BtbPredict, Half!HasReturn, Half!ReturnAddress,
     Half!InBtb, Half!InDisp, Half!InMain, Half!CachedTarget
<1>2. Half!Ret(rastack, STAT_SPACE) = TargetHalf!Ret(rastack, STAT_SPACE)
  BY DEF Half!Ret, Half!HasReturn, TargetHalf!Ret, TargetHalf!HasReturn
<1>3. ASSUME NEW cap, NEW stack, NEW addr
      PROVE  Half!Call(cap, stack, addr, STAT_SPACE)
                = TargetHalf!Call(cap, stack, addr, STAT_SPACE)
  BY DEF Half!Call, Half!Overflows, TargetHalf!Call, TargetHalf!Overflows
<1>4. Half!DispResult(b) = TargetHalf!DispResult(b)
  BY BtbUpdate DEF Half!DispResult, TargetHalf!DispResult
<1>5. Half!MainResult(b) = TargetHalf!MainResult(b)
  BY <1>4, BtbUpdate DEF Half!MainResult, TargetHalf!MainResult
<1>6. Half!btb_predict(b) <=> TargetHalf!btb_predict(b)
  BY <1>1, <1>2 DEF Half!btb_predict, TargetHalf!btb_predict
<1>7. Half!btb_update(b) <=> TargetHalf!btb_update(b)
  BY <1>3, <1>4, <1>5 DEF Half!btb_update, TargetHalf!btb_update
<1>. QED  BY <1>6, <1>7

LEMMA BtbSpec == TargetHalf!Spec => Half!Spec
<1>1. ASSUME NEW b PROVE TargetHalf!GetPrediction(b) <=> Half!GetPrediction(b)
  BY BtbCalls DEF Half!GetPrediction, TargetHalf!GetPrediction, HalfPhase, HalfBranch,
                  HalfResolved
<1>2. TargetHalf!UpdatePredictor <=> Half!UpdatePredictor
  BY BtbCalls DEF Half!UpdatePredictor, TargetHalf!UpdatePredictor, HalfPhase,
                  HalfBranch, HalfResolved
<1>3. UNCHANGED TargetHalf!vars <=> UNCHANGED Half!vars
  BY DEF Half!vars, TargetHalf!vars, HalfPhase, HalfBranch, HalfResolved
<1>4. [TargetHalf!Next]_(TargetHalf!vars) => [Half!Next]_(Half!vars)
  BY <1>1, <1>2, <1>3 DEF Half!Next, TargetHalf!Next
<1>. QED  BY BtbInit, <1>4, PTL DEF Half!Spec, TargetHalf!Spec

\* What an environment sets up is a configuration of Btb: there is a main cache that
\* stores whole targets.
LEMMA SettingsAreConfigs ==
    ASSUME NEW e \in Environments
    PROVE  Setup(e) \in [main : Half!MainGeometries, disp : Half!Geometries,
                         capacity : Int]
<1>1. ASSUME NEW name, NEW n \in Int PROVE getparam(e, name, n) \in Int
  BY PredictorAssumption DEF getparam
<1>2. Algorithm(e) \in Half!Algorithms
  BY DEF Algorithm, Half!Algorithms, WAY_RROBIN, WAY_LRU, Half!WAY_RROBIN, Half!WAY_LRU
<1>3. Setup(e).main \in Half!MainGeometries
  <2>1. PICK size \in Nat \ {0} : size = 2^getparam(e, "BTB_MAIN_SIZE", 6)
    BY PredictorAssumption
  <2>2. Bits(-1) = 32
    BY DEF Bits
  <2>. QED  BY <1>2, <2>1, <2>2, PredictorAssumption
            DEF Setup, Half!MainGeometries, Half!Geometries, Half!Enabled
<1>4. Setup(e).disp \in Half!Geometries
  <2>1. CASE getparam(e, "BTB_DISP_SIZE", 6) < 0
    BY <2>1 DEF Setup, Half!Geometries, Half!Algorithms, WAY_LRU, Half!WAY_LRU
  <2>2. CASE ~(getparam(e, "BTB_DISP_SIZE", 6) < 0)
    <3>1. getparam(e, "BTB_DISP_SIZE", 6) \in Nat
      BY <1>1, <2>2
    <3>2. PICK size \in Nat \ {0} : size = 2^getparam(e, "BTB_DISP_SIZE", 6)
      BY <3>1, PredictorAssumption
    <3>3. PICK n \in Int \ {0} : n = getparam(e, "BTB_DISP_ENTRIES", 8)
      BY <1>1, PredictorAssumption
    <3>4. Bits(n) \in 1..32
      BY DEF Bits
    <3>. QED  BY <1>2, <2>2, <3>2, <3>3, <3>4, PredictorAssumption
              DEF Setup, Half!Geometries
  <2>. QED  BY <2>1, <2>2
<1>5. Setup(e).capacity \in Int
  BY <1>1 DEF Setup
<1>. QED  BY <1>3, <1>4, <1>5 DEF Setup

\* Btb's assumptions hold of the settings and the branches of a trace.
LEMMA BtbAssumptions ==
    /\ Half!EMPTY # 0
    /\ Settings \subseteq [main : Half!MainGeometries, disp : Half!Geometries,
                            capacity : Int]
    /\ BtbTrace \subseteq Half!Branches
    /\ MaxInsts \in Nat
<1>1. BtbTrace \subseteq Half!Branches
  BY DriverAssumption DEF BtbTrace, BtbLine, Line, Half!Branches, Uint, Half!Uint,
                          EMPTY, Half!EMPTY
<1>. QED  BY <1>1, SettingsAreConfigs, PredictorAssumption, DriverAssumption
          DEF Settings, EMPTY, Half!EMPTY

LEMMA DriverIsBtb == Spec => Half!Spec
BY TargetHalfIsBtb, BtbSpec, PTL DEF ImplementsBtb

\* The caches and predictions of the program keep their types.
LEMMA BtbTypesInDriver == Spec => []Half!TypeOK
<1>1. Half!Spec => []Half!TypeOK
  BY BtbAssumptions, SpaceAssumption, Half!BtbTypeCorrect
<1>. QED  BY <1>1, DriverIsBtb, PTL

\* In the contest's program, on every trace and in every environment: the victim
\* search never reaches assert(0), neither cache holds an address twice, whatever
\* they hold a branch of the trace resolved to or comes from an unwritten slot, and
\* the branch resolved last is in one of them.
THEOREM BtbHoldsInDriver ==
    Spec => []( /\ Half!VictimsExist /\ Half!OneSlotPerAddress
                /\ Half!EntriesWereResolved /\ Half!ResolvedBranchIsCached )
<1>1. Half!Spec => []Half!VictimsExist
  BY BtbAssumptions, SpaceAssumption, Half!BtbVictimsExist
<1>2. Half!Spec => []Half!OneSlotPerAddress
  BY BtbAssumptions, SpaceAssumption, Half!BtbOneSlotPerAddress
<1>3. Half!Spec => []Half!EntriesWereResolved
  BY BtbAssumptions, SpaceAssumption, Half!BtbProvenance
<1>4. Half!Spec => []Half!ResolvedBranchIsCached
  BY BtbAssumptions, SpaceAssumption, Half!BtbKeepsLastBranch
<1>. QED  BY <1>1, <1>2, <1>3, <1>4, DriverIsBtb, PTL

\* And as it runs: a visible target changes only when its address enters or leaves
\* the displacement cache, and what leaves that cache is in the main one.
THEOREM BtbStepsInDriver == Spec => Half!TargetsSticky /\ Half!EvictionMovesToMain
<1>1. Half!Spec => Half!TargetsSticky
  BY BtbAssumptions, SpaceAssumption, Half!BtbTargetsSticky
<1>2. Half!Spec => Half!EvictionMovesToMain
  BY BtbAssumptions, SpaceAssumption, Half!BtbEvictionMovesToMain
<1>. QED  BY <1>1, <1>2, DriverIsBtb, PTL

--------------------------------------------------------------------------------
(* What is proved of TraceReader holds of the program *)

Contest == INSTANCE ReaderProofs WITH Targets <- Uint

\* It is the judge of the driver, operator by operator.
LEMMA ContestInit == Judge!Init <=> Contest!Init
BY DEF Judge!Init, Judge!NewOpState, Judge!EmptyRecord, Judge!Slots, Contest!Init,
       Contest!NewOpState, Contest!EmptyRecord, Contest!Slots

LEMMA ContestTurn ==
    ASSUME NEW o, NEW inst
    PROVE  Judge!Turn(o, inst) = Contest!Turn(o, inst)
BY DEF Judge!Turn, Judge!inc_clock, Judge!Commit, Judge!Loaded, Contest!Turn,
       Contest!inc_clock, Contest!Commit, Contest!Loaded

LEMMA ContestCalls ==
    /\ Judge!Score <=> Contest!Score
    /\ \A inst : Judge!ReadOp(inst) <=> Contest!ReadOp(inst)
    /\ \A inst : Judge!ReadBranch(inst) <=> Contest!ReadBranch(inst)
    /\ Judge!EndOfTrace <=> Contest!EndOfTrace
    /\ \A taken, target :
          Judge!PredictBranch(taken, target) <=> Contest!PredictBranch(taken, target)
<1>1. Judge!Score <=> Contest!Score
  BY DEF Judge!Score, Judge!DirectionRight, Judge!TargetRight, Contest!Score,
         Contest!DirectionRight, Contest!TargetRight
<1>2. ASSUME NEW inst PROVE Judge!ReadOp(inst) <=> Contest!ReadOp(inst)
  BY ContestTurn DEF Judge!ReadOp, Contest!ReadOp
<1>3. ASSUME NEW inst PROVE Judge!ReadBranch(inst) <=> Contest!ReadBranch(inst)
  BY ContestTurn DEF Judge!ReadBranch, Contest!ReadBranch
<1>4. Judge!EndOfTrace <=> Contest!EndOfTrace
  BY DEF Judge!EndOfTrace, Contest!EndOfTrace
<1>5. ASSUME NEW taken, NEW target
      PROVE  Judge!PredictBranch(taken, target) <=> Contest!PredictBranch(taken, target)
  BY DEF Judge!PredictBranch, Contest!PredictBranch
<1>. QED  BY <1>1, <1>2, <1>3, <1>4, <1>5

\* A direction is one, be it the oracle's or the tables'.
Direct == next = "predict_branch" => predicted_taken \in BOOLEAN

LEMMA DirectInit == Init => Direct
BY DEF Init, Direct

LEMMA DirectStep == DriverInv /\ OracleInv /\ Direct /\ [Next]_vars => Direct'
<1>. SUFFICES ASSUME DriverInv, OracleInv, Direct, [Next]_vars, next' = "predict_branch"
              PROVE  predicted_taken' \in BOOLEAN
  BY DEF Direct
<1>1. GetPrediction \/ UNCHANGED <<next, predicted_taken>>
  <2>1. Scores \/ ReadsOp \/ Ends => next' # "predict_branch"
    BY DEF Scores, ReadsOp, Ends
  <2>2. ReadsBranch \/ PredictBranch \/ UpdatePredictor => next' # "predict_branch"
    BY DEF ReadsBranch, PredictBranch, UpdatePredictor
  <2>3. UNCHANGED vars => UNCHANGED <<next, predicted_taken>>
    BY DEF vars, predictorVars
  <2>. QED  BY <2>1, <2>2, <2>3, CasesOfGetBranchRecord DEF Next
<1>2. CASE UNCHANGED <<next, predicted_taken>>
  BY <1>2 DEF Direct
<1>3. CASE GetPrediction
  <2>1. /\ next = "get_prediction" /\ UNCHANGED <<env, truth>>
        /\ predicted_taken' = ThinksTaken(br)
    BY <1>3 DEF GetPrediction, get_prediction, judgeVars
  <2>2. CASE Hooked
    <3>1. truth.taken \in BOOLEAN
      <4>1. CurrentLine \in TextLines
        BY <2>1, CurrentFacts
      <4>2. CurrentLine.taken \in BOOLEAN
        BY <4>1, LineTypes
      <4>. QED  BY <4>2 DEF CurrentLine
    <3>2. Hooked'
      BY <2>1, <2>2 DEF Hooked
    <3>3. OracleInv'
      BY OracleStep
    <3>4. predicted_taken' = truth'.taken
      BY <3>2, <3>3 DEF OracleInv
    <3>. QED  BY <2>1, <3>1, <3>4
  <2>3. CASE ~Hooked
    BY <2>1, <2>3 DEF ThinksTaken
  <2>. QED  BY <2>2, <2>3
<1>. QED  BY <1>1, <1>2, <1>3

\* Every step of the program is one of the judge or leaves it alone.
LEMMA ContestStep ==
    DriverInv /\ Direct /\ Half!TypeOK /\ [Next]_vars
        => [Contest!Next]_(Contest!vars)
<1>. SUFFICES ASSUME DriverInv, Direct, Half!TypeOK, [Next]_vars
              PROVE  [Contest!Next]_(Contest!vars)
  OBVIOUS
<1>1. CASE Scores
  BY <1>1, ContestCalls DEF Scores, Contest!Next
<1>2. CASE ReadsOp \/ ReadsBranch
  <2>1. trace[os.clock + 1] \in Insts
    <3>1. trace \in Seq(Insts)
      BY LinesFacts
    <3>2. os.clock + 1 \in 1..Len(trace)
      BY <1>2, <3>1 DEF DriverInv, Shapes, ReadsOp, ReadsBranch
    <3>. QED  BY <3>1, <3>2
  <2>2. \/ Contest!ReadOp(trace[os.clock + 1])
        \/ Contest!ReadBranch(trace[os.clock + 1])
    BY <1>2, ContestCalls DEF ReadsOp, ReadsBranch
  <2>. QED  BY <2>1, <2>2 DEF Contest!Next
<1>3. CASE Ends
  BY <1>3, ContestCalls DEF Ends, Contest!Next
<1>4. CASE PredictBranch
  <2>1. /\ next = "predict_branch"
        /\ Contest!PredictBranch(predicted_taken, targetaddress)
    BY <1>4, ContestCalls DEF PredictBranch
  <2>2. predicted_taken \in BOOLEAN
    BY <2>1 DEF Direct
  <2>3. targetaddress \in Uint
    BY <2>1 DEF Half!TypeOK, PredictedTarget, Half!Uint, Uint
  <2>. QED  BY <2>1, <2>2, <2>3 DEF Contest!Next
<1>5. CASE GetPrediction \/ UpdatePredictor \/ UNCHANGED vars
  BY <1>5 DEF GetPrediction, UpdatePredictor, vars, judgeVars, Contest!vars
<1>. QED  BY <1>1, <1>2, <1>3, <1>4, <1>5, CasesOfGetBranchRecord DEF Next

LEMMA DriverIsContest == Spec => Contest!Spec
<1>1. Init => Contest!Init
  BY ContestInit DEF Init
<1>2. Spec => [](DriverInv /\ Direct)
  BY InitInv, StepInv, OracleInit, OracleStep, DirectInit, DirectStep, PTL DEF Spec
<1>. QED  BY <1>1, <1>2, ContestStep, BtbTypesInDriver, PTL DEF Spec, Contest!Spec

\* TraceReader's assumptions hold of the instructions of the traces.
LEMMA ContestAssumptions ==
    /\ INST_DELAY \in Nat \ {0}
    /\ WORD \in Nat \ {0}
    /\ WORD % INST_DELAY = 0
    /\ REG_NUL \notin Regs
    /\ \A inst \in Insts : inst.dst \in Regs \cup {REG_NUL}
    /\ MaxInsts \in Nat
    /\ \A inst \in Insts :
        /\ inst.is_branch \in BOOLEAN /\ inst.is_conditional \in BOOLEAN
        /\ inst.taken \in BOOLEAN /\ inst.branch_target \in Uint
BY DriverAssumption

\* With the predictor of this repository as its client the judge is as fair as with
\* any: its ring gives the records in order and no value before its time, a commit
\* takes a record just when it is due, and the score it prints is the one an immediate
\* judge would have kept, with every conditional branch counted.
THEOREM JudgeHoldsInDriver ==
    Spec => []( /\ Contest!RecordsAreInOrder /\ Contest!NoEarlyValues
                /\ Contest!CommitIsDue /\ Contest!FinalScoreIsFair )
<1>1. Contest!Spec => []Contest!RecordsAreInOrder
  BY ContestAssumptions, Contest!ReaderOrder
<1>2. Contest!Spec => []Contest!NoEarlyValues
  BY ContestAssumptions, Contest!ReaderKeepsValues
<1>3. Contest!Spec => []Contest!CommitIsDue
  BY ContestAssumptions, Contest!ReaderCommits
<1>4. Contest!Spec => []Contest!FinalScoreIsFair
  BY ContestAssumptions, Contest!ReaderScoresFairly
<1>. QED  BY <1>1, <1>2, <1>3, <1>4, DriverIsContest, PTL
================================================================================
