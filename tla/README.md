# CBTB: a TLA+ model of the branch predictor, its framework and its job farm

CBTB is an entry to a branch prediction contest: a predictor (an Alpha 21264
tournament predictor for directions, a two-level branch target buffer and a return
address stack for targets), the framework that reads compressed instruction traces
and scores predictions, and a farm of Perl scripts that searched the predictor's
configuration space on many machines. This directory models those three and the programs
that put the first two together, checks them with TLC on small instances, and proves with
TLAPS every safety property and every refinement that TLC checks.

## 1. The system

### Components, their state and their operations

| Component | Source | State | Operations | Correct when |
|---|---|---|---|---|
| Replacement policy | `predictor.cc` `ReplacementPolicy` | one counter per way | constructor, `update(way)`, `replace()` | LRU counters stay a permutation, so a victim always exists |
| BTB cache | `predictor.cc` `BTB_CACHE` | tags, targets, one policy per set, `nummissed` | two constructors, `predict`, `update` | it behaves as a recency-ordered list per set and reports exactly what it gave up |
| Return address stack | `predictor.cc` `ReturnAddressStack` | `callqueue`, capacity, three statistics | `call`, `ret` | a return is predicted from the frame of its own call, or not from the stack at all |
| Branch target predictor | `predictor.cc` `btb_*` | displacement cache, main cache, stack | `btb_setup`, `btb_predict`, `btb_update` | one slot per address; nothing resolved is lost on the way between the caches; targets come from branches |
| Alpha predictor | `predictor.cc` `alpha_*` | three counter tables, local histories, path history | `alpha_setup`, `alpha_predict`, `alpha_update` | a constant outcome is learnt, and the chooser moves on evidence only |
| Predictor glue | `predictor.cc`, `predictor.h` | parameters, oracle | `get_prediction`, `update_predictor`, `getparam` | the oracle stays in step with the branches it is asked about |
| Trace reader | `tread.cc` | the pending prediction, the actual outcome, statistics | `get_branch_record`, `predict_branch` | the deferred scoring equals an immediate one |
| Architectural state | `op_state.cc` | clock, ring of `INST_DELAY` records, register file | `update`, `get_op_record`, `are_values_available`, commit | values become visible in order and exactly `INST_DELAY` instructions late |
| Trace codec | `cbp_inst.cc` | nine predictors and caches, register file, key, buffer | `cbp_inst_write`, `cbp_inst_read` | what is read is what was written; both ends stay identical |
| Codec predictors | `value_cache.h` `stride_pred.h` `cond_pred.h` `indirect_pred.h` `finite_stack.h` | their tables | find/insert, predict/update, push/pop | |
| Driver, tester | `main.cc`, `test.cc` | a branch record, counters | the loop read - predict - compare - update | both take the predictor through the same states and count the same mispredictions |
| Farm server | `server.pl` | next job, listening socket, children, signal flags | accept, fork, `REAPER`, shutdown; a child: print, read, print, exit | a job is done once, or its loss has a cause; the farm ends |
| Farm client | `client.pl`, `looper.sh` | one connection, one job | connect, read, run, answer, and again | |
| Scripts, data | `launcher.pl`, `unittester.pl`, `gen_report.pl`, `runall.sh`, build files, write-up, traces | none | | |

### Interactions

- The driver calls `get_branch_record`, `get_prediction`, `predict_branch` and
  `update_predictor` for every branch, in this order, in one thread. The predictor thus
  sees a strict alternation of prediction and update.
- `get_branch_record` scores the prediction of the *previous* branch with the caller's
  copy of its record, then reads instructions with the codec, hands each to the
  architectural state, and stops at the next branch.
- `btb_predict` asks the displacement cache, then the main cache; a return pops the stack
  at *prediction*, a call pushes at *update*. `btb_update` offers the branch to the
  displacement cache; a refusal goes to the main cache, and so does what the displacement
  cache evicted.
- The driver learns the outcome of a branch from `predict_branch`, which writes the actual
  target over the predicted one it was given. The tester reads text traces, whose lines hold
  the outcome, and scores at once. An oracle is a second reader of such a text trace.
- Writer and reader of a trace share the file and nothing else; each trains its own
  copy of the predictors.
- Server, children and clients share TCP connections, the inherited listening socket and
  SIGCHLD.

### What is hard here

*Long legal sequences.* Most of the program is sequential, and its risk is a state reached only
after many calls: LRU counters that stop being a permutation, an address in two ways, a pair lost
between the caches, a frame matched with another's return, a ring read one place off after it
wraps, two copies of nine predictors, or two readers of one trace, that drift apart. *Order and
staleness.* Predictions are scored one call late; a choice is trained by predictions made before
the tables moved; cached targets are never refreshed. *Boundaries.* Unsigned differences, shifts
of more bits than fit, sentinel values that are legal values, a stack of capacity zero or
unlimited, a buffer of exactly the worst size. *Processes.* Interrupted `accept`, coalesced
signals, failed forks, crashed or vanished clients, a stopped server. `PROJECT.json` lists each
hazard at its line with the properties that cover it.

## 2. Modules

```
ReplacementPolicy <- BtbCache <- CacheMachine <- MCCache      (implements LruStore)
                        ^
ReturnAddressStack <- Btb <- MCBtb
        ^
        +-- RasMachine <- MCRas
AlphaPredictor <- AlphaMachine <- MCAlpha
OpState <- TraceReader <- MCReader                            (implements DelayLine)
BtbCache, ReturnAddressStack <- Predictor <- Tester
                                    ^
                                    +-- Driver <- MCDriver    (implements Tester and Btb)
TracePredictors <- InstStream <- TraceFile <- MCTrace
JobFarm <- MCFarm                                             (implements JobPool)
BtbCache <- CacheProofs          Btb, CacheProofs <- BtbProofs
CacheMachine, RasMachine, CacheProofs <- PartProofs
AlphaMachine <- AlphaProofs      TraceReader <- ReaderProofs    Driver <- DriverProofs
TraceFile <- StreamProofs        JobFarm <- FarmProofs
```

(`A <- B`: B extends A. Predictor also instantiates Btb and AlphaPredictor, Driver instantiates
TraceReader, and DriverProofs instantiates BtbProofs and ReaderProofs.) Objects of the program are
records or functions, and its methods are operators from the old object to the new one, so that
the same definitions serve a machine that drives one object alone and one that composes several. A
definition `X_Y` is a *variant*: `X` with the plausible mistake `Y` (a dropped guard, a missing
reset, an off-by-one). No specification uses a variant. Each property comes with one that breaks
it, which shows that the property depends on the code.

**ReplacementPolicy, BtbCache.** `Touch` and `Victim` are `update(way)` and `replace()`. A cache
is a record of its arrays, one row per set; indices and tags are written with `%` and `\div` by
the number of sets. Kept as in the code: the unsigned displacement test (`Fits`), the first
matching way, an eviction reported when the old *target* is not `0xffffffff`, the address rebuilt
in 32 bits (`ADDR_SPACE` in the model), and targets that `malloc` left behind (`Garbage`, any
value). **CacheMachine** calls `update` in any order and keeps the eviction report; **LruStore**
is the abstract specification it implements: a list per set, most recent first, with no ways, tags
or counters. Both remember the pair they were last used with, so that an update that forgets to
act is no stuttering step. The refinement mapping sorts the written ways of a set by age.

**ReturnAddressStack, RasMachine.** `Call` and `Ret` with overflow, underflow and maximum.
RasMachine puts the program's own call stack beside it as a history (`frames`), with the
depth each frame was ever buried to (`reach`), and the deepest the stack has been
(`deepest`), with which the statistic `maxsize` is compared.

**Btb** composes two caches and the stack: `GetPrediction(b)` is the target half of
`get_prediction`, `UpdatePredictor` that of `update_predictor`. `resolved` is a history.

**AlphaPredictor, AlphaMachine.** `Predict` and `UpdateWith` are `alpha_predict` and
`alpha_update` on the three tables, with history variables for the mispredictions of the
current streak (`missed`) and of the current stretch of alternating outcomes (`surprised`).

**OpState, TraceReader.** `Turn` is `op_state_c::update` with the commit of the record
whose slot is reused. In TraceReader a call of `get_branch_record` is `Score` (the
statistics), then `ReadOp` per instruction, then `ReadBranch` or `EndOfTrace`;
`PredictBranch` is the client's call, which it makes never, once or repeatedly. `fair` is
what an immediate judge would have counted. **DelayLine** is the abstract specification: a
queue of `INST_DELAY` places in front of a register file. TraceReader implements it, by
reading the ring with `get_op_record`.

**Predictor, Tester, Driver.** Predictor is class `PREDICTOR`: `get_prediction` reads a line of
the oracle, if there is one, asks `alpha_predict` and calls `btb_predict`; `update_predictor`
calls `btb_update` and, for a conditional branch, `alpha_update`. Its operators are those of
Btb and AlphaPredictor on its own variables. Its settings are what `getparam` reads in an
environment, one of `Environments`. Tester is the loop of `test.cc`. Driver is the loop of
`main.cc`, with the judge's actions (`Judge!Score`, `Judge!ReadOp`, ...) and the predictor's as
its parts and `targetaddress` as the argument all three share. The set-up on the first call of
`get_prediction` is part of `Init`: nothing happens before, and the environment is constant.
The oracle's lines and the tester's are those of the trace that is judged, which is how
`test.cc:5` describes them. Driver implements Tester by a mapping that moves each score back to
the comparison it belongs to; it implements Btb by forgetting the directions.

**TracePredictors, InstStream, TraceFile.** The five templates, then `cbp_inst.cc`: every
`put_` function returns the stream with the bytes appended and the predictors trained, every
`get_` function undoes one, and `write` and `read` apply them in the code's order. The
key is a record of its bit fields, first byte and second byte; the buffer is the offset of its
tail and the values put into it by the offset they begin at, because the properties need lengths
and values and never bit positions. `write` ends by choosing the size of the key
(`two_byte_key`, `buffer_head`), and `Output` is what `fwrite` is given: a sequence of cells, one
a byte, in which a value stands where its first byte is and its other bytes are empty. `read`
has nothing but such a sequence: `FirstNeeded` is what the first byte calls for, the second byte
of the key among it, `SecondNeeded` what the second one does; `Whole` says that none of the two
or three `fread`s comes back short, `RecordLength` how far they get, and `Fetched` is the buffer
as the `get_` functions find it, from offset 1 or 2.
TraceFile puts a writer, a file and a reader together. The file is a stream of bytes without
marks. A failed write puts out the head of its record, cut after any of the numbers of bytes in
`Cuts`, and the reader cannot tell this from the end of the trace.

**JobFarm.** One variable per thing processes share: the loop counter, the server's phase, the
pending SIGCHLD, the backlog, and per job its child with both ends of its connection. Actions of
the server (`Serve`, `Reap`, `LoopEnds`, `CheckLoop`, `Await`), of a child (`ChildPrint`,
`ChildRead`), of a client (`Connect`, `Answer`, `Eof`), and faults: `Crash` (sockets are closed),
`Vanish` (they stay open), a failed fork, `ChildKilled`, `Terminate`, `ParentExits`. What the
operating system does (backlog, reset of waiting connections when the last holder of the listening
socket goes, one pending SIGCHLD for several deaths) is modelled from how the scripts rely on it.
**JobPool** is the abstract specification: jobs go out in order, and each ends printed once or
lost. `Fate` maps a job's child and its connection to that.

## 3. Runs

| Run | Question | Bounds, and why they are enough |
|---|---|---|
| `cache` | Is one cache, under any sequence of updates, an LRU (or FIFO) store with exact eviction reports? | 4-bit addresses; 2 sets of 2 ways, 1 set of 3 ways with a displacement limit, 1 set of 3 ways round robin; 4 addresses, so every set overflows; two garbage targets, one of them `0xffffffff` |
| `btb` | What enters, moves between and leaves the two caches? | three configurations: LRU and round robin, stack capacity 1, 0 and unlimited (to `MaxDepth` 2), with no displacement cache, one smaller and one with more sets than the main cache; branches that fit, do not fit, are indirect, call and return |
| `ras` | Is a return matched with its own frame? | capacities -1, 0, 1, 2; 5 calls and 5 returns bury a frame below the largest capacity and come back past the bottom |
| `alpha` | Are streaks learnt, and does the chooser need evidence? | one bit each of address, local and path history; three addresses of which two alias. All counters have their real widths; all sequences |
| `reader` | Do records, values and scores survive the ring's wraps and a careless client? | ring of 4, 6 instructions, so it wraps; 3-bit words so the subtraction in `get_op_record` wraps as well |
| `codec` | Is what was read what was written, and does every record begin where the reader looks for it? | 5 instructions out of 9 chosen to share and to fight over table entries; tables of 2 to 4 entries, 2 return addresses; records with keys of one byte and of two. `MaxAhead` 1: one whole record in the file, with the head of a failed one behind it or not; the reader looks at nothing behind the record it fetches, and the proof has no bound. `Cuts` 2 and 6: a record is cut inside the first part of the fetch, exactly between its two parts, and inside the second |
| `farm` | Is a job done twice, lost or left for ever? | 3 jobs, 2 machines, any 2 faults at any points: each fault alone, and each pair |
| `driver` | Do judge and predictor, composed, work as the tester does and as Btb assumes? | all traces of up to 3 of 6 instructions (every class of branch, and none); 4 and 5 branches; up to 4 calls, returns and branches that are both; 6 instructions of one branch and its neighbour, so that a history of 2 bits fills and the ring of 2 wraps. With and without a displacement cache, with and without an oracle, in round robin and with a policy that does not exist (a negative `BTB_WAY_ALGO`, which the unsigned type of the enumeration turns into LRU). One garbage target: driver and tester are compared on the same unwritten memory |

State spaces are explored completely. Four more runs end in a violation on purpose;
they are the findings of section 6.

Properties, by run (each is stated in words above its definition):

- `cache`: `EvictionReport`, a step property: the pair reported is the one that disappeared,
  a full-width phantom, or nothing; `ImplementsLruStore`.
- `btb`: `VictimsExist` (the search for an LRU victim never reaches `assert(0)`),
  `OneSlotPerAddress`, `EntriesWereResolved` (provenance), `ResolvedBranchIsCached`,
  `TargetsSticky` and `EvictionMovesToMain` (step properties: a visible target changes only
  when its address enters or leaves the displacement cache, and leaving it means going to
  the main cache).
- `ras`: `StackIsSurvivingFrames` (known frames are exactly those never buried deeper than
  the capacity), `StatisticsAddUp` (calls, overflows, returns and underflows balance, and
  `maxsize` is the deepest stack seen, or one more than the capacity after a drop).
- `alpha`: `StreakMissesBounded` (at most `PATH_BITS + 4` mispredictions of a constant
  outcome, from any training, over any mix of branches), `AlternationMissesBounded` (at most
  `PATH_BITS + 8` of strictly alternating outcomes: `PATH_BITS - 1` until the history holds
  nothing else, one for the step before, and four on each of the two paths it then takes in
  turn), `ChoiceNeedsEvidence`.
- `reader`: `RecordsAreInOrder`, `NoEarlyValues`, `FinalScoreIsFair`, `ImplementsDelayLine`.
- `codec`: `RoundTrip`, `Mirror` (a reader that has caught up has the writer's memory),
  `Framing` (in the stream of bytes the reader finds each record whole and exactly as long as
  it was written, from a key of either size; what a failed write leaves is never taken for a
  record; the `get_` functions use up what was fetched), `BufferHolds`, `ReturnsAreFree`.
- `farm`: `AtMostOnce`, `LossesExplained`, `ZombiesAnnounced`, `CleanExit`, `ImplementsJobPool`,
  and the liveness properties `JobsSettle` and `Completion`.
- `driver`: `ImplementsTester`, `ImplementsBtb`, `OracleIsExact` (the oracle's assertion never
  fires and no direction is wrong), `SteadyBranchMisses` (a branch always taken, alone among
  unconditional ones, is missed exactly until the history is full of it: the one unit
  test of the repository, for every trace).

Deadlock checking is off where the system ends: calls, instructions or jobs used up
(`ras`, `reader`, `codec`, `farm`, `driver`).

### Fairness

Only JobFarm assumes any. Weak fairness of the server's step, of each child's and of each
client's: the operating system runs every process that can run, `looper.sh` restarts its
client for ever, and a client's job on finite traces ends. No fault is fair, no client is
obliged not to vanish, and there is no timeout in the code: both liveness properties except
a client that vanished, since its child really does wait for ever.

## 4. Proofs

All statements below hold for every value of the constants that the modules' named
assumptions allow: any number of sets and ways, either policy, any address width, any stack
capacity, any set of branches, any content of unwritten memory; a ring of any size, any
trace; any number of jobs, machines and faults.

| Theorem | Module | What it says |
|---|---|---|
| `TouchPermutes` | CacheProofs | using a way keeps the LRU counters a permutation |
| `AddressRebuilt` | CacheProofs | `AddrOf` undoes `Index` and `Tag` |
| `UpdateHits` | CacheProofs | a pair that fits is found after its update |
| `CacheTypeCorrect`, `CacheReportsEvictions` | PartProofs | the invariant and the step property of run `cache` |
| `CacheIsAnLruStore` | PartProofs | CacheMachine implements LruStore |
| `BtbTypeCorrect`, `BtbVictimsExist`, `BtbOneSlotPerAddress`, `BtbProvenance`, `BtbKeepsLastBranch` | BtbProofs | the five invariants of run `btb` |
| `BtbTargetsSticky`, `BtbEvictionMovesToMain` | BtbProofs | its two step properties |
| `RasTypeCorrect`, `RasSurvivors`, `RasStatistics` | PartProofs | the three invariants of run `ras` |
| `AlphaTypes`, `StreaksAreLearnt`, `AlternationIsLearnt` | AlphaProofs | the three invariants of run `alpha` |
| `ChoiceIsJustified` | AlphaProofs | its step property |
| `ReaderTypeCorrect`, `ReaderOrder`, `ReaderKeepsValues`, `ReaderScoresFairly` | ReaderProofs | the four invariants of run `reader` |
| `ReaderCommits` | ReaderProofs | the record about to be committed has just become available: no getter asserts, and no commit is late |
| `ReaderIsADelayLine` | ReaderProofs | TraceReader implements DelayLine, if `NamesTellApart` |
| `StreamTypes`, `ReadGivesBackWritten`, `ReaderMirrorsWriter`, `RecordsAreFramed`, `NoBufferOverflow` | StreamProofs | the five invariants of run `codec` |
| `ReturnsCostNothing` | StreamProofs | its step property |
| `DriverIsTester`, `TargetHalfIsBtb` | DriverProofs | Driver implements Tester, and Btb |
| `OracleIsPerfect`, `SteadyBranchIsLearnt` | DriverProofs | the two invariants of run `driver` |
| `BtbHoldsInDriver`, `BtbStepsInDriver` | DriverProofs | Btb's four safety invariants and two step properties hold of the predictor inside the driver |
| `JudgeHoldsInDriver` | DriverProofs | TraceReader's safety holds of the judge inside the driver |
| `FarmTypeCorrect`, `FarmAtMostOnce`, `FarmLossesExplained`, `FarmZombiesAnnounced`, `FarmCleanExit` | FarmProofs | the five invariants of run `farm` |
| `FarmIsAPool` | FarmProofs | JobFarm implements JobPool |

*The argument for Btb.* The inductive invariant is

    BtbInv == TypeOK /\ VictimsExist /\ OneSlotPerAddress /\ EntriesWereResolved
              /\ UnwrittenHoldGarbage(config.disp, dispcache) /\ ResolvedBranchIsCached

None of its parts is inductive alone. A victim exists only if the counters are a permutation of
`0..numways-1`, and this is preserved only because the touched way is one of the set's. Provenance
of the main cache needs to know what an eviction report can contain, hence that slots of the
displacement cache nobody wrote still hold `Garbage` (the strengthening); that an evicted pair is
the old one needs `AddressRebuilt`; and the branch just resolved stays cached because the entry
evicted for it is inserted after it in the main cache only when it itself is in the other one. The
step properties follow from BtbInv by following one address through `Update`: its target in a
cache stays as it is until the address leaves, and an address that leaves is reported and inserted
in the main cache. The proof goes in layers: in CacheProofs lemmas per operator of the policy and
per operator of a cache (`RefreshedOK`, `InsertedOK`, `UpdateOK`, and what `Update` does to
`Entries` and to the eviction report), then one lemma per action.

*The argument for one cache.* The inductive invariant is

    ListInv == CacheInv /\ NoHoles(geometry, cache)

`CacheInv` adds to the type and to what BtbProofs asks of a cache that every written tag is the
tag of one of the addresses in use (`TagsNameAddrs`): without it an eviction report could name
an address nobody used. For LruStore, a set's ways in the order of their ages must be the list,
and the list has no gaps only if the written ways are the youngest (`NoHoles`). The age of a
way is its counter under LRU and its distance behind the next victim under round robin; either
is a permutation, so `StoredIn` is the only sequence that lists the written pairs by age
(`Lists`, `StoredLists`). A hit then moves one entry to the front or, under round robin, nothing
(`HitStep`), and a miss puts one in front and, if the set is full, drops the last, whichever
policy chose it (`MissStep`).

*The argument for the stack.* The inductive invariant is

    RasInv == RasTypeOK /\ StackIsSurvivingFrames /\ DepthBounds /\ CallsAccountedFor
              /\ MaxsizeExplained

A call adds one to the depth of every frame that is as deep as ever, so the set of survivors loses
exactly the frame that `pop_back` drops. `MaxsizeExplained` alone is not inductive: `maxsize` is
compared with the size between the push and the drop, and what that size was before follows from
`DepthBounds` (the stack is never deeper than `deepest`, nor `deepest` than the capacity).

*The argument for the reader.* The inductive invariant is

    ReaderInv == TypeOK /\ RecordsAreInOrder /\ ScoresAgree /\ RoomToScore

`RecordsAreInOrder` says that the record `k` places before the pointer was stamped at
`clock - k`. It is kept because `WORD % INST_DELAY = 0`: the subtraction of uints that wraps
reaches the same slot as one that does not. That values are never early, and that the record
committed next is exactly due, are consequences of it. The score the reader will have reached once
the pending prediction is settled equals `fair` at every step (`ScoresAgree`), and `RoomToScore`
says that the current branch is not scored yet, so that fewer targets than branches are counted
correct. For DelayLine, `LineInv` adds that every record is `Loaded` from an instruction
(`Faithful`): a turn of the ring then enters one instruction behind the others and shows the
oldest when the line is full. The mapping reads an instruction by its name, hence the hypothesis
`NamesTellApart`, which TLC evaluates for the instructions of run `reader`.

*The argument for the directions.* Both bounds are about how far the path history is from the
one it settles in: a history of equal outcomes, or for alternating outcomes one of the two that
are each other's shift. An outcome that continues the run doubles that distance modulo the size
of the table (`Doubled`; for alternation this is where 2^n % 3 # 0 is needed), so after
`PATH_BITS` outcomes nothing is left of it, whatever it was. From then on every
misprediction uses up some of `Unlearnt`, a potential of at most four: how many steps the
global counter of that path is from turning, and then the choice from believing it. That a
misprediction always lowers it, also when both predictors are wrong and the choice stays where
it is, is `Learns`. So

    StreakInv == \/ \E k \in 0..(PATH_BITS - 1) :
                        Doubled(k, RunLeft(Last, path_history)) /\ missed <= k
                 \/ /\ RunLeft(Last, path_history) = 0
                    /\ missed + Unlearnt(path_history, Last) <= PATH_BITS + 4

is inductive, and so is `AltInv` with the sum over two histories. That the shift register
really is a doubling modulo a power of two needs that powers of two double and are no multiple
of three: the first is `PowerAssumption`, since the proof system has no definition of `^`, the
second an induction on the set of exponents for which it holds (`SetInduction`, from the
well-foundedness of `<` on Nat).

*The argument for the trace format.* `write` is a chain of nine `put_` functions and `read`
one of as many `get_` functions in the same order. `Reads(r, w, K, F)` says that a reader r with
the key K and the body F is where the writer w is: same predictors, same registers, same
members so far, same place in the buffer. Each pair of functions has one lemma: if `Reads` holds
before, F carries what was put, and K agrees with the key bits that were set, then `Reads` holds
after. It rests on `BitXor(b, BitXor(a, b)) = a`, on the value caches finding what they report
found, and on both sides training with the value, never with its code. The lemmas also say which
fields a function leaves alone and how many bytes it appended, which is how the chain comes to
leave a record in the buffer, `HasRecord`: the tail is 2 and the sum that the key calls for, and
that sum is at most 48. `WriteRead` puts the chain together: from equal memories, the `get_`
functions give back the instruction and equal memories if the buffer they begin with carries
the writer's values, all shifted by one byte where the key is short.

What the file adds is proved about bytes. The output of a record is one byte and what the two
bytes of its key call for (`LengthOfOutput`); bytes that begin like it, and reach as far as the
first part of the fetch, yield its key and this length (`BeginsLike`). So a record with any bytes behind it is `Whole` and fetched as it was written
(`FetchesRecord`), while a record that was cut anywhere is not (`CutRecord`): either the first
byte is missing, or one of the two sums is not there. The invariant

    TraceInv == /\ StreamType(enc) /\ BufferHolds /\ StreamType(dec)
                /\ got.read = got.written
                /\ unread \in Seq(Records)
                /\ \E mems, rest, S : Through(mems, rest, S)

says that there are memories which lead from the reader's to the writer's and, in step with
them, suffixes of the file: the k-th suffix is the output of writing `unread[k]` from the memory
before, and then the next suffix. Behind the last record the file is empty and the memory is the
writer's, or a write failed and what is left is not whole. The reader's next step takes
the first record off, the writer's appends its output to every suffix and adds one. `FramesInv` says
that the calls that are still open, as many as the ring can hold, are on the ring of return
addresses, newest on top.

*The argument for the driver.* The inductive invariant is

    DriverInv == Shapes /\ Protocol /\ Position

`Protocol` says that a prediction is pending exactly while the driver is between
`predict_branch` and the scoring of it, and that `targetaddress` holds the actual target when
`update_predictor` is called. `Position` ties the two forms of a trace together: the judge has
counted as many branches as its instructions have lines so far, and the branch it holds is the
last of those lines. It needs the lines of a prefix to be a prefix of the lines (`LinesGrow`),
which is an induction over the length of the trace; `LinesUpTo` is a function and not a
`SelectSeq` for its sake. With it every call of the driver is the tester's call on the same line.
The tester compares at once and the judge scores one call later: `mis_bpreds` and `mis_tpreds`
count a comparison that is still to be scored, so `predict_branch` is the tester's comparison and
the score itself a stutter. For Btb, `StackInv` bounds the stack by the branches trained so far,
which is the bound that machine puts on an unlimited stack. `OracleInv` says that the oracle has
read one line for every branch predicted.

`SteadyInv` says what the tables hold after n outcomes taken of the one conditional branch
(`Learnt(addr, n)`): both histories end in n ones, the counters under the longer histories are
untouched, and those of a full history have been trained. The n-th outcome meets the counter
under n - 1 ones, which nothing trained before, as different numbers of ones are different
indices (`PowersGrow`); so every prediction is wrong until the path history is full and its
counter was trained once. From then on the global prediction is right, and the choice is
either on it or of no matter because the local prediction is right too: a shorter local history
has filled by then, and with a longer one the choice was never moved.

*Composition.* Since the driver implements Btb, what BtbProofs proves of that machine holds of
the whole program (`BtbHoldsInDriver`, `BtbStepsInDriver`): `SettingsAreConfigs` shows that
whatever an allowed environment sets up is a configuration that BtbProofs is about, and
`BtbAssumptions` that the branches of traces are branches of Btb. The judge is a TraceReader
whose client predicts each branch once, and each step of the program is one of the judge or
leaves it alone (`ContestStep`), so ReaderProofs holds of it too (`JudgeHoldsInDriver`). For that a
prediction has to be one of those the reader is proved for: the target is a `uint` by Btb's type
invariant, and the direction a truth value because the oracle's line is the branch's (`Direct`).

*The argument for the farm.* The inductive invariant is

    FarmInv == TypeOK /\ Unborn /\ Outcomes /\ Waiting /\ Served /\ Tasks
               /\ LossesExplained /\ ZombiesAnnounced /\ CleanExit

What carries it is who holds the other end of a connection. A client has one: a place in the
backlog (`Waiting`), or a child of its own (`Served`), never both and never two. The job a client
works on is that of its child (`Tasks`), so the answer a child reads is to its own job
(`Outcomes`), and only that child prints it, once. A child that can read nothing any more has an
excuse, which is what `LossesExplained` needs when it exits. `EndingKeepsConnections` and
`PartingKeepsConnections` are the two ways a connection ends: from the child's side, and from the
client's. For JobPool, the step of one child that ends is `Settle`, `Serve` is `HandOut`, and in
every other step the same children live and nothing is printed.

Assumptions: `SpaceAssumption`, `BtbAssumption` (addresses fit, no branch sits at
`0xffffffff`, the main cache exists and stores whole targets) and `RasAssumption` (the
bounded counters do not wrap); `AlphaAssumption` and `PowerAssumption` (the widths, and that
2^(n+1) is 2 * 2^n as far as the widths go); `OpStateAssumption` (the ring divides the word, as
64 divides 2^32), `ReaderAssumption`; `WordAssumption`, `SizesAssumption`, `OpAssumption` and
`TraceAssumption` (`BitXor` undoes itself and stays within the width of its arguments, tables have
entries, instructions have the fields that their class makes `STATIC_INFO` keep);
`FarmAssumption` (there is a job, and a closed end is no machine). For the program as a whole:
`PredictorAssumption` (settings are integers, the main cache is there, a cache has ways, the
displacement is not 0 bits wide), `TablesAssumption` (for the predictor's tables what
`AlphaAssumption` and `PowerAssumption` say) and `DriverAssumption` (traces are no longer than
`MaxInsts`, their instructions and the ring are as the judge asks, and their branches have the
fields that the predictor uses). Those of Btb and TraceReader are not assumed again but proved
from these. TLC evaluates them all in every run.

*Only model-checked:* the liveness of JobFarm (`JobsSettle`, `Completion`), since fairness and
`ENABLED` are beyond the proof system, and the four runs that end in a violation. Facts that
need induction over data are proved where the recursion is a function on numbers
(`LinesUpTo`), with `SetInduction`; the theorems of the library that take an operator as a
parameter cannot be used.

## 5. What is not modelled

- *Reporting*: `size()`, `log2`, `factorial`, `debug` output, the codec's own statistics
  counters, register names. They influence no prediction.
- *An oracle of another trace* than the one judged: the assertion in `get_prediction` ends
  the program at the first difference.
- *The tester's breakdown* of its counts by class of branch: sums over the same lines.
- *A trace without branches* never sets the predictor up; the model sets it up in `Init`,
  where nothing can tell.
- *The end of the `int` clock* of the architectural state, past 2^31 instructions.
- *A writer that goes on after a failed write*; no program of the repository writes traces.
- *Pids*; hence signals sent to a reused pid.
- *What a job computes*, `launcher.pl` beyond the environment it builds, `unittester.pl` beyond
  the number its one test expects, `gen_report.pl`, `runall.sh`, build files: straight-line
  scripts without state of their own.
- *Data*: payloads are small numbers; words have few bits (`WORD`, `ADDR_SPACE`), and every
  operation that wraps in the code wraps there.

## 6. Where the code and its documentation disagree

| Run | Documented | What the code does |
|---|---|---|
| `phantom` | `predictor.cc:358` "if the way was evicted" | the test reads targets the constructor never wrote; a slot used for the first time may "evict" a pair no branch made, which then enters the main cache |
| `backward` | `writeup.tex`: the displacement cache "holds entries whose target address is less than 128 bytes from the program counter" | the difference is unsigned, so a branch to a nearby lower address is refused |
| `dst_vaddr` | `op_state.h:97` "address for a memory dest" | the setter is called with the source address |
| `nop` | `tread.h:63` "if the branch isn't conditional, this function behaves as a NOP" | the prediction of an unconditional branch is kept and its target scored |

One more is no run of its own, because `MaxsizeExplained` says exactly what happens:
`maxsize`, commented "deepest stack seen" (`predictor.cc:183`), is taken between the push and
the drop (`predictor.cc:209`), so once an entry was dropped it is one more than the capacity.

## 7. Plan

Done, in this order: the target predictor from the policy up (ReplacementPolicy, BtbCache,
Btb), its abstract store, the stack, and the proofs of their invariants; the Alpha predictor;
the reader with its delay line; the codec; the farm and its job pool; the driver and the
tester, which compose the predictor with the reader.

The proofs: every invariant and every step property of a passing run, the refinements of
LruStore, DelayLine, JobPool, Tester and Btb, and that what is proved of Btb and of TraceReader
holds of the program they are parts of.

Next:

1. *Directions in the program.* That AlphaProofs holds of the driver too. The counters of
   mispredictions that its bounds are about are histories the driver does not have, so the
   driver would first be extended by them.
2. *The judge's ring in the program.* `ReaderIsADelayLine` needs instructions with distinct
   names; with a name per place in the trace it would carry over to the driver.
