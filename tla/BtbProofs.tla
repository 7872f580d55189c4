-------------------------------- MODULE BtbProofs -------------------------------
(***************************************************************************)
(* Btb's safety invariants for every pair of geometries, every stack       *)
(* capacity, every trace and every content malloc may leave behind.        *)
(***************************************************************************)
EXTENDS Btb, CacheProofs

\* A call and a return keep the shape of the stack, and what is popped is an
\* address.
LEMMA CallType ==
    ASSUME NEW addrs, NEW space \in Nat \ {0}, NEW capacity \in Int,
           NEW ras \in Stacks(addrs, space), NEW addr \in addrs
    PROVE  Call(capacity, ras, addr, space) \in Stacks(addrs, space)
<1>. DEFINE pushed == <<addr>> \o ras.callqueue
            kept == IF Overflows(capacity, ras)
                    THEN SubSeq(pushed, 1, Len(pushed) - 1) ELSE pushed
            deepest == IF Len(pushed) % space > ras.maxsize
                       THEN Len(pushed) % space ELSE ras.maxsize
            counted == (ras.call_overflow + 1) % space
<1>1. pushed \in Seq(addrs) /\ Len(pushed) \in Nat
  BY DEF Stacks
<1>2. kept \in Seq(addrs)
  BY <1>1
<1>3. deepest \in 0..(space - 1) /\ counted \in 0..(space - 1)
  BY <1>1 DEF Stacks
<1>4. Call(capacity, ras, addr, space) =
        IF capacity = 0 THEN [ras EXCEPT !.call_overflow = counted]
        ELSE [ras EXCEPT !.callqueue = kept, !.maxsize = deepest,
                         !.call_overflow = IF Overflows(capacity, ras)
                                           THEN counted ELSE ras.call_overflow]
  BY DEF Call, Stacks
<1>. HIDE DEF pushed, kept, deepest, counted
<1>. QED  BY <1>2, <1>3, <1>4 DEF Stacks

LEMMA RetType ==
    ASSUME NEW addrs, NEW space \in Nat \ {0}, NEW ras \in Stacks(addrs, space)
    PROVE  /\ Ret(ras, space) \in Stacks(addrs, space)
           /\ HasReturn(ras) => ReturnAddress(ras) \in addrs
<1>1. (ras.ret_underflow + 1) % space \in 0..(space - 1)
  BY DEF Stacks
<1>2. HasReturn(ras) => /\ Tail(ras.callqueue) \in Seq(addrs)
                        /\ Head(ras.callqueue) \in addrs
  BY DEF Stacks, HasReturn
<1>. QED  BY <1>1, <1>2 DEF Ret, Stacks, HasReturn, ReturnAddress

\* The inductive invariant: the properties need each other, and provenance
\* needs to know what the slots that were never written hold.
BtbInv ==
    /\ TypeOK
    /\ VictimsExist
    /\ OneSlotPerAddress
    /\ EntriesWereResolved
    /\ UnwrittenHoldGarbage(config.disp, dispcache)
    /\ ResolvedBranchIsCached

\* What a configuration and a branch are made of.
LEMMA ConfigFields ==
    ASSUME config \in Configs
    PROVE  /\ config.main \in Geometries /\ config.disp \in Geometries
           /\ Enabled(config.main)
           /\ \A a, t : Fits(config.main, a, t)
           /\ config.capacity \in Int
BY BtbAssumption DEF MainGeometries, Fits

LEMMA BranchFields ==
    ASSUME NEW b \in Trace \cup {NoBranch}
    PROVE  /\ b.instruction_addr \in Uint \ {EMPTY}
           /\ b.instruction_addr \in Uint
           /\ b.instruction_next_addr \in Uint
           /\ b.target \in Uint
<1>1. NoBranch \in Branches
  BY BtbAssumption, UintFacts DEF Branches, NoBranch
<1>2. b \in Branches
  BY <1>1, BtbAssumption
<1>. QED  BY <1>2 DEF Branches

LEMMA BtbInvInit == Init => BtbInv
<1>. SUFFICES ASSUME Init PROVE BtbInv
  OBVIOUS
<1>1. config \in Configs
  BY DEF Init
<1>2. CacheOK(config.disp, dispcache) /\ CacheOK(config.main, maincache)
  BY <1>1, ConfigFields, NewCacheOK DEF Init
<1>3. NewStack \in Stacks(Uint, STAT_SPACE)
  BY SpaceAssumption DEF NewStack, Stacks
<1>4. TypeOK
  BY <1>2, <1>3, UintFacts DEF Init, TypeOK, CacheOK
<1>5. /\ UnwrittenHoldGarbage(config.disp, dispcache)
      /\ Entries(config.disp, dispcache) = {}
      /\ Entries(config.main, maincache) = {}
  BY NewHoldsGarbage DEF Init
<1>6. ResolvedBranchIsCached
  BY DEF Init, ResolvedBranchIsCached
<1>. QED
  BY <1>2, <1>4, <1>5, <1>6
  DEF BtbInv, CacheOK, VictimsExist, OneSlotPerAddress, EntriesWereResolved

\* A prediction reads the caches and at most pops the stack.
LEMMA PredictKeepsInv ==
    ASSUME BtbInv, NEW b \in Trace, GetPrediction(b)
    PROVE  BtbInv'
<1>1. config' = config /\ dispcache' = dispcache /\ maincache' = maincache
      /\ resolved' = resolved /\ phase' = "update" /\ br' = b
  BY DEF GetPrediction, btb_predict
<1>. config \in Configs
  BY DEF BtbInv, TypeOK
<1>2. BtbPredict(b) \in Uint
  <2>1. InBtb(b.instruction_addr) => CachedTarget(b.instruction_addr) \in Uint
    BY BranchFields, ConfigFields, LookupIsUint
    DEF BtbInv, TypeOK, InBtb, InDisp, InMain, CachedTarget
  <2>2. HasReturn(rastack) => ReturnAddress(rastack) \in Uint
    BY RetType, SpaceAssumption DEF BtbInv, TypeOK
  <2>. QED  BY <2>1, <2>2, BranchFields DEF BtbPredict
<1>3. rastack' \in Stacks(Uint, STAT_SPACE)
  BY RetType, SpaceAssumption DEF BtbInv, TypeOK, GetPrediction, btb_predict
<1>4. TypeOK'
  BY <1>1, <1>2, <1>3 DEF BtbInv, TypeOK, GetPrediction, btb_predict
<1>5. ResolvedBranchIsCached'
  BY <1>1 DEF ResolvedBranchIsCached
<1>6. (VictimsExist /\ OneSlotPerAddress /\ EntriesWereResolved)'
  BY <1>1
  DEF BtbInv, VictimsExist, OneSlotPerAddress, EntriesWereResolved, Phantoms
<1>. QED  BY <1>1, <1>4, <1>5, <1>6 DEF BtbInv

\* The caches after an update, without the rest of the state.
LEMMA UpdateCaches ==
    ASSUME BtbInv, NEW b \in Trace \cup {NoBranch},
           NEW known, known = resolved \cup {<<b.instruction_addr, b.target>>}
    PROVE  /\ CacheOK(config.disp, DispResult(b).cache)
           /\ UnwrittenHoldGarbage(config.disp, DispResult(b).cache)
           /\ CacheOK(config.main, MainResult(b))
           /\ Entries(config.disp, DispResult(b).cache) \subseteq known
           /\ Entries(config.main, MainResult(b)) \subseteq known \cup Phantoms
           /\ \/ Hit(config.disp, DispResult(b).cache, b.instruction_addr)
              \/ Hit(config.main, MainResult(b), b.instruction_addr)
<1>. DEFINE a == b.instruction_addr
            disp == DispResult(b)
            refused == Update(config.main, maincache, a, b.target).cache
            after == IF disp.stored THEN maincache ELSE refused
            moved == Update(config.main, after, disp.evicted_addr,
                            disp.evicted_target).cache
<1>1. /\ config.main \in Geometries /\ config.disp \in Geometries
      /\ Enabled(config.main) /\ Fits(config.main, a, b.target)
  BY ConfigFields DEF BtbInv, TypeOK
<1>2. a \in Uint \ {EMPTY} /\ a \in Uint /\ b.target \in Uint
  BY BranchFields
<1>3. CacheOK(config.disp, dispcache) /\ CacheOK(config.main, maincache)
  BY DEF BtbInv, TypeOK, VictimsExist, OneSlotPerAddress, CacheOK
<1>4. /\ CacheOK(config.disp, disp.cache)
      /\ disp.evicted_addr \in Uint /\ disp.evicted_target \in Uint
  BY <1>1, <1>2, <1>3, UpdateOK DEF DispResult
<1>5. UnwrittenHoldGarbage(config.disp, disp.cache)
  BY <1>1, <1>2, <1>3, UpdateKeepsGarbage DEF BtbInv, DispResult
<1>6. Entries(config.disp, disp.cache) \subseteq known
  BY <1>1, <1>2, <1>3, UpdateEntries DEF BtbInv, EntriesWereResolved, DispResult
<1>7. CacheOK(config.main, after)
  BY <1>1, <1>2, <1>3, UpdateOK
<1>8. Entries(config.main, after) \subseteq known \cup Phantoms
  BY <1>1, <1>2, <1>3, UpdateEntries DEF BtbInv, EntriesWereResolved
<1>9. MainResult(b) = IF disp.evicted_addr = 0 THEN after ELSE moved
  BY DEF MainResult
<1>10. CacheOK(config.main, MainResult(b))
  <2>1. CacheOK(config.main, moved)
    BY <1>1, <1>4, <1>7, UpdateOK
  <2>. QED  BY <1>7, <1>9, <2>1
<1>11. Entries(config.main, MainResult(b)) \subseteq known \cup Phantoms
  <2>1. CASE disp.evicted_addr = 0
    BY <1>8, <1>9, <2>1
  <2>2. CASE disp.evicted_addr # 0
    <3>1. <<disp.evicted_addr, disp.evicted_target>> \in known \cup Phantoms
      <4>1. \/ <<disp.evicted_addr, disp.evicted_target>>
                    \in Entries(config.disp, dispcache)
            \/ /\ disp.evicted_target \in Garbage
               /\ \E s \in Sets(config.disp) :
                    disp.evicted_addr = AddrOf(config.disp, s, EMPTY)
        BY <1>1, <1>2, <1>3, <2>2, ReportedWasHeld DEF BtbInv, DispResult
      <4>. QED  BY <4>1 DEF BtbInv, EntriesWereResolved, Phantoms
    <3>. HIDE DEF after, disp
    <3>2. \A e \in Entries(config.main, moved) :
            \/ e \in Entries(config.main, after)
            \/ e = <<disp.evicted_addr, disp.evicted_target>>
      BY <1>1, <1>4, <1>7, UpdateEntries
    <3>. QED  BY <1>8, <1>9, <2>2, <3>1, <3>2
  <2>. QED  BY <2>1, <2>2
<1>12. \/ Hit(config.disp, disp.cache, a)
       \/ Hit(config.main, MainResult(b), a)
  <2>1. CASE disp.stored
    <3>1. Enabled(config.disp) /\ Fits(config.disp, a, b.target)
      BY <2>1, UpdateStores DEF DispResult
    <3>. QED  BY <1>1, <1>2, <1>3, <3>1, UpdateHits DEF DispResult
  <2>2. CASE ~disp.stored
    <3>1. ~(Enabled(config.disp) /\ Fits(config.disp, a, b.target))
      BY <2>2, UpdateStores DEF DispResult
    <3>2. disp.evicted_addr = 0
      BY <3>1 DEF DispResult, Update, Untouched
    <3>3. MainResult(b) = refused
      BY <1>9, <2>2, <3>2
    <3>. QED  BY <1>1, <1>2, <1>3, <3>3, UpdateHits
  <2>. QED  BY <2>1, <2>2
<1>. QED  BY <1>4, <1>5, <1>6, <1>10, <1>11, <1>12

LEMMA UpdateKeepsInv ==
    ASSUME BtbInv, UpdatePredictor
    PROVE  BtbInv'
<1>1. /\ config' = config
      /\ dispcache' = DispResult(br).cache
      /\ maincache' = MainResult(br)
      /\ resolved' = resolved \cup {<<br.instruction_addr, br.target>>}
      /\ phase' = "predict"
      /\ br' = br
      /\ predicted' = predicted
  BY DEF UpdatePredictor, btb_update
<1>2. br \in Trace \cup {NoBranch}
  BY DEF BtbInv, TypeOK
<1>3. /\ CacheOK(config.disp, dispcache')
      /\ UnwrittenHoldGarbage(config.disp, dispcache')
      /\ CacheOK(config.main, maincache')
      /\ Entries(config.disp, dispcache') \subseteq resolved'
      /\ Entries(config.main, maincache') \subseteq resolved' \cup Phantoms
      /\ \/ Hit(config.disp, dispcache', br.instruction_addr)
         \/ Hit(config.main, maincache', br.instruction_addr)
  BY <1>1, <1>2, UpdateCaches
<1>4. rastack' \in Stacks(Uint, STAT_SPACE)
  BY <1>2, CallType, BranchFields, ConfigFields, SpaceAssumption
  DEF BtbInv, TypeOK, UpdatePredictor, btb_update
<1>5. resolved' \subseteq Uint \X Uint
  BY <1>1, <1>2, BranchFields DEF BtbInv, TypeOK
<1>6. TypeOK'
  BY <1>1, <1>3, <1>4, <1>5 DEF BtbInv, TypeOK, CacheOK
<1>7. (VictimsExist /\ OneSlotPerAddress)'
  BY <1>1, <1>3 DEF CacheOK, VictimsExist, OneSlotPerAddress
<1>8. EntriesWereResolved'
  BY <1>1, <1>3 DEF EntriesWereResolved, Phantoms
<1>9. ResolvedBranchIsCached'
  BY <1>1, <1>3 DEF ResolvedBranchIsCached, InBtb, InDisp, InMain
<1>10. UnwrittenHoldGarbage(config.disp, dispcache)'
  BY <1>1, <1>3
<1>. QED  BY <1>6, <1>7, <1>8, <1>9, <1>10 DEF BtbInv

LEMMA BtbInvNext == BtbInv /\ [Next]_vars => BtbInv'
<1>. SUFFICES ASSUME BtbInv, [Next]_vars PROVE BtbInv'
  OBVIOUS
<1>1. ASSUME NEW b \in Trace, GetPrediction(b) PROVE BtbInv'
  BY <1>1, PredictKeepsInv
<1>2. CASE UpdatePredictor
  BY <1>2, UpdateKeepsInv
<1>3. CASE UNCHANGED vars
  BY <1>3 DEF vars, BtbInv, TypeOK, VictimsExist, OneSlotPerAddress,
      EntriesWereResolved, Phantoms, ResolvedBranchIsCached, InBtb, InDisp, InMain
<1>. QED  BY <1>1, <1>2, <1>3 DEF Next

LEMMA BtbInvariant == Spec => []BtbInv
<1>. QED  BY BtbInvInit, BtbInvNext, PTL DEF Spec

\* Both caches, the stack and every prediction keep their types, for all
\* geometries and capacities: in particular AddrOf's shifts stay uints.
THEOREM BtbTypeCorrect == Spec => []TypeOK
<1>1. BtbInv => TypeOK
  BY DEF BtbInv
<1>. QED  BY <1>1, BtbInvariant, PTL

\* replace() never falls through to its assert(0), in either cache.
THEOREM BtbVictimsExist == Spec => []VictimsExist
<1>1. BtbInv => VictimsExist
  BY DEF BtbInv
<1>. QED  BY <1>1, BtbInvariant, PTL

\* No address is ever held twice by one cache.
THEOREM BtbOneSlotPerAddress == Spec => []OneSlotPerAddress
<1>1. BtbInv => OneSlotPerAddress
  BY DEF BtbInv
<1>. QED  BY <1>1, BtbInvariant, PTL

\* Whatever a cache answers was once the resolved target of that very branch,
\* or stems from a slot that was evicted without ever having been written.
THEOREM BtbProvenance == Spec => []EntriesWereResolved
<1>1. BtbInv => EntriesWereResolved
  BY DEF BtbInv
<1>. QED  BY <1>1, BtbInvariant, PTL

\* The branch resolved last is in one of the two caches, however they are sized.
THEOREM BtbKeepsLastBranch == Spec => []ResolvedBranchIsCached
<1>1. BtbInv => ResolvedBranchIsCached
  BY DEF BtbInv
<1>. QED  BY <1>1, BtbInvariant, PTL

--------------------------------------------------------------------------------
(* The step properties.  What an update may do to the target of an address     *)
(* other than the one resolved, and where an entry that is displaced goes.      *)

\* What the displacement cache refuses evicts nothing, so the main cache is
\* updated once at most.
LEMMA MainUpdatedOnce ==
    ASSUME BtbInv, NEW b \in Trace \cup {NoBranch}
    PROVE  IF DispResult(b).evicted_addr # 0
           THEN MainResult(b) = Update(config.main, maincache,
                                       DispResult(b).evicted_addr,
                                       DispResult(b).evicted_target).cache
           ELSE \/ MainResult(b) = maincache
                \/ MainResult(b) = Update(config.main, maincache,
                                          b.instruction_addr, b.target).cache
<1>1. DispResult(b).evicted_addr # 0 => DispResult(b).stored
  BY DEF DispResult, Update, Untouched, Inserted
<1>. QED  BY <1>1 DEF MainResult

\* The facts about the caches that the steps below start from.
LEMMA Steps ==
    ASSUME BtbInv, NEW b \in Trace \cup {NoBranch}
    PROVE  /\ config.main \in Geometries /\ config.disp \in Geometries
           /\ Enabled(config.main)
           /\ \A x, t : Fits(config.main, x, t)
           /\ CacheOK(config.disp, dispcache)
           /\ CacheOK(config.main, maincache)
           /\ b.instruction_addr \in Uint /\ b.target \in Uint
           /\ DispResult(b).evicted_addr \in Uint
           /\ DispResult(b).evicted_target \in Uint
<1>1. /\ config.main \in Geometries /\ config.disp \in Geometries
      /\ Enabled(config.main)
      /\ \A x, t : Fits(config.main, x, t)
  BY ConfigFields DEF BtbInv, TypeOK
<1>2. CacheOK(config.disp, dispcache) /\ CacheOK(config.main, maincache)
  BY DEF BtbInv, TypeOK, VictimsExist, OneSlotPerAddress, CacheOK
<1>3. b.instruction_addr \in Uint /\ b.target \in Uint
  BY BranchFields
<1>4. DispResult(b).evicted_addr \in Uint /\ DispResult(b).evicted_target \in Uint
  BY <1>1, <1>2, <1>3, UpdateOK DEF DispResult
<1>. QED  BY <1>1, <1>2, <1>3, <1>4

\* The main cache keeps the target of an address it keeps.
LEMMA MainKeepsTarget ==
    ASSUME BtbInv, NEW b \in Trace \cup {NoBranch}, NEW a \in Uint \ {EMPTY},
           Hit(config.main, maincache, a), Hit(config.main, MainResult(b), a)
    PROVE  Lookup(config.main, MainResult(b), a) = Lookup(config.main, maincache, a)
<1>1. \/ MainResult(b) = maincache
      \/ \E x \in Uint, t \in Uint :
            MainResult(b) = Update(config.main, maincache, x, t).cache
  BY Steps, MainUpdatedOnce
<1>. QED  BY <1>1, Steps, UpdateKeepsTarget

\* The addresses the properties are about.
LEMMA BranchAddr ==
    ASSUME NEW b \in Trace
    PROVE  b.instruction_addr \in Uint \ {EMPTY}
BY BranchFields

\* What an update makes of the visible target of an address.
LEMMA UpdateIsSticky ==
    ASSUME BtbInv, UpdatePredictor, NEW a \in Uint \ {EMPTY},
           InBtb(a), InBtb(a)', InDisp(a) <=> InDisp(a)'
    PROVE  CachedTarget(a)' = CachedTarget(a)
<1>1. /\ config' = config
      /\ dispcache' = DispResult(br).cache
      /\ maincache' = MainResult(br)
      /\ br \in Trace \cup {NoBranch}
  BY DEF UpdatePredictor, btb_update, BtbInv, TypeOK
<1>2. CASE InDisp(a)
  <2>1. Lookup(config.disp, dispcache', a) = Lookup(config.disp, dispcache, a)
    BY <1>1, <1>2, Steps, UpdateKeepsTarget DEF InDisp, DispResult
  <2>. QED  BY <1>1, <1>2, <2>1 DEF CachedTarget, InDisp
<1>3. CASE ~InDisp(a)
  <2>1. Lookup(config.main, maincache', a) = Lookup(config.main, maincache, a)
    BY <1>1, <1>3, MainKeepsTarget DEF InBtb, InDisp, InMain
  <2>. QED  BY <1>1, <1>3, <2>1 DEF CachedTarget, InDisp
<1>. QED  BY <1>2, <1>3

\* What becomes of an address that leaves the displacement cache.
LEMMA LeavingDispMovesToMain ==
    ASSUME BtbInv, UpdatePredictor, NEW a \in Uint \ {EMPTY},
           InDisp(a), ~InDisp(a)', a # 0,
           Lookup(config.disp, dispcache, a) # EMPTY
    PROVE  /\ InMain(a)'
           /\ ~InMain(a) => CachedTarget(a)' = Lookup(config.disp, dispcache, a)
<1>. DEFINE held == Lookup(config.disp, dispcache, a)
<1>1. /\ config' = config
      /\ dispcache' = DispResult(br).cache
      /\ maincache' = MainResult(br)
      /\ br \in Trace \cup {NoBranch}
  BY DEF UpdatePredictor, btb_update, BtbInv, TypeOK
<1>2. DispResult(br).evicted_addr = a /\ DispResult(br).evicted_target = held
  BY <1>1, Steps, LostIsReported DEF InDisp, DispResult
<1>3. maincache' = Update(config.main, maincache, a, held).cache
  BY <1>1, <1>2, MainUpdatedOnce
<1>4. held \in Uint /\ a \in Uint
  BY <1>1, <1>2, Steps
<1>5. Hit(config.main, maincache', a)
  BY <1>1, <1>3, <1>4, Steps, UpdateHits
<1>6. ~Hit(config.main, maincache, a) => Lookup(config.main, maincache', a) = held
  BY <1>1, <1>3, <1>4, Steps, MissStoresTarget
<1>. QED  BY <1>1, <1>5, <1>6 DEF InMain, InDisp, CachedTarget

--------------------------------------------------------------------------------
(* Theorems *)

\* A prediction and a stuttering step leave the caches as they are.
LEMMA OthersKeepCaches ==
    ASSUME [Next]_vars, ~UpdatePredictor, NEW a
    PROVE  /\ InDisp(a)' = InDisp(a) /\ InMain(a)' = InMain(a)
           /\ CachedTarget(a)' = CachedTarget(a)
<1>1. config' = config /\ dispcache' = dispcache /\ maincache' = maincache
  BY DEF Next, vars, GetPrediction
<1>. QED  BY <1>1 DEF InDisp, InMain, CachedTarget

\* No update refreshes the visible target of a cached branch: it changes only
\* with a move into or out of the displacement cache.
THEOREM BtbTargetsSticky == Spec => TargetsSticky
<1>1. ASSUME BtbInv, [Next]_vars, NEW b \in Trace, InBtb(b.instruction_addr),
             InBtb(b.instruction_addr)',
             InDisp(b.instruction_addr) <=> InDisp(b.instruction_addr)'
      PROVE  CachedTarget(b.instruction_addr) = CachedTarget(b.instruction_addr)'
  BY <1>1, BranchAddr, UpdateIsSticky, OthersKeepCaches
<1>2. BtbInv /\ [Next]_vars =>
        \A b \in Trace :
            LET a == b.instruction_addr
            IN  InBtb(a) /\ InBtb(a)' /\ CachedTarget(a) # CachedTarget(a)'
                    => InDisp(a) # InDisp(a)'
  BY <1>1 DEF InDisp, Hit
<1>. QED  BY <1>2, BtbInvariant, PTL DEF Spec, TargetsSticky

\* Nothing that leaves the displacement cache is lost on its way to the main one.
THEOREM BtbEvictionMovesToMain == Spec => EvictionMovesToMain
<1>1. ASSUME BtbInv, [Next]_vars, NEW b \in Trace, InDisp(b.instruction_addr),
             ~InDisp(b.instruction_addr)', b.instruction_addr # 0,
             Lookup(config.disp, dispcache, b.instruction_addr) # EMPTY
      PROVE  /\ InMain(b.instruction_addr)'
             /\ ~InMain(b.instruction_addr) =>
                    CachedTarget(b.instruction_addr)' =
                        Lookup(config.disp, dispcache, b.instruction_addr)
  BY <1>1, BranchAddr, LeavingDispMovesToMain, OthersKeepCaches
<1>2. BtbInv /\ [Next]_vars =>
        \A b \in Trace :
            LET a == b.instruction_addr
                held == Lookup(config.disp, dispcache, a)
            IN  InDisp(a) /\ ~InDisp(a)' /\ a # 0 /\ held # EMPTY
                    => /\ InMain(a)'
                       /\ ~InMain(a) => CachedTarget(a)' = held
  BY <1>1
<1>. QED  BY <1>2, BtbInvariant, PTL DEF Spec, EvictionMovesToMain
================================================================================
