---------------------------------- MODULE Btb -----------------------------------
(***************************************************************************)
(* The branch target half of the predictor (btb_setup, btb_predict and     *)
(* btb_update in predictor.cc): a small displacement cache in front of a   *)
(* main cache that also takes in what the first evicts, and the return     *)
(* address stack that overrides both for returns.                          *)
(*                                                                         *)
(* The driver strictly alternates get_prediction and update_predictor for  *)
(* the branches of a trace, so the machine has two phases.  The trace is   *)
(* any sequence of the resolved branches in Trace.                         *)
(***************************************************************************)
EXTENDS BtbCache, ReturnAddressStack

CONSTANTS
    Configs,    \* the settings of btb_setup: geometries and stack capacity
    Trace,      \* resolved branches: address, successor, class, actual target
    MaxDepth    \* bound: entries of an unlimited return address stack

\* No branch sits at 0xffffffff, the value that marks unwritten slots.
Branches == [instruction_addr : Uint \ {EMPTY}, instruction_next_addr : Uint,
             is_call : BOOLEAN, is_return : BOOLEAN, target : Uint]

\* btb_setup always builds a main cache, and one that stores whole targets.
MainGeometries == {g \in Geometries : Enabled(g) /\ g.displacementbits = 32}

ASSUME BtbAssumption ==
    /\ EMPTY # 0
    /\ Configs \subseteq [main : MainGeometries, disp : Geometries, capacity : Int]
    /\ Trace \subseteq Branches
    /\ MaxDepth \in Nat

VARIABLES
    config,         \* fixed by btb_setup
    dispcache,
    maincache,
    rastack,
    phase,          \* which call the driver makes next
    br,             \* the branch being predicted, or predicted last
    predicted,      \* the target btb_predict returned for it
    resolved        \* history: the <<addr, target>> pairs update saw

vars == <<config, dispcache, maincache, rastack, phase, br, predicted, resolved>>

\* Which target a lookup finds: the displacement cache is asked first.
InDisp(addr) == Hit(config.disp, dispcache, addr)
InMain(addr) == Hit(config.main, maincache, addr)
InBtb(addr) == InDisp(addr) \/ InMain(addr)

CachedTarget(addr) ==
    IF InDisp(addr) THEN Lookup(config.disp, dispcache, addr)
    ELSE Lookup(config.main, maincache, addr)

\* btb_predict: caches, else the next instruction; for a return the stack,
\* when it has an address, overrides either.
BtbPredict(b) ==
    IF b.is_return /\ HasReturn(rastack) THEN ReturnAddress(rastack)
    ELSE IF InBtb(b.instruction_addr) THEN CachedTarget(b.instruction_addr)
    ELSE b.instruction_next_addr

\* btb_update, the displacement cache: it is offered every branch.
DispResult(b) ==
    Update(config.disp, dispcache, b.instruction_addr, b.target)

\* Variant: a refused branch is not offered to the main cache.
MainResult_NoRefused(b) ==
    LET disp == DispResult(b)
    IN  IF disp.evicted_addr = 0 THEN maincache
        ELSE Update(config.main, maincache,
                    disp.evicted_addr, disp.evicted_target).cache

\* Variant: what the displacement cache evicts is dropped.
MainResult_NoEvicted(b) ==
    IF DispResult(b).stored THEN maincache
    ELSE Update(config.main, maincache, b.instruction_addr, b.target).cache

\* Variant: an evicted address moves with the target of the current branch.
MainResult_WrongTarget(b) ==
    LET disp == DispResult(b)
        afterRefusal ==
            IF disp.stored THEN maincache
            ELSE Update(config.main, maincache, b.instruction_addr, b.target).cache
    IN  IF disp.evicted_addr = 0 THEN afterRefusal
        ELSE Update(config.main, afterRefusal, disp.evicted_addr, b.target).cache

\* btb_update, the main cache: it takes what the displacement cache refused,
\* and then what that cache evicted; an evicted address 0 means "none".
MainResult(b) ==
    LET disp == DispResult(b)
        afterRefusal ==
            IF disp.stored THEN maincache
            ELSE Update(config.main, maincache, b.instruction_addr, b.target).cache
    IN  IF disp.evicted_addr = 0 THEN afterRefusal
        ELSE Update(config.main, afterRefusal,
                    disp.evicted_addr, disp.evicted_target).cache

\* btb_predict(b): the caches are only read, and the target of a return is
\* popped whether or not the program will go there.
btb_predict(b) ==
    /\ predicted' = BtbPredict(b)
    /\ rastack' = IF b.is_return THEN Ret(rastack, STAT_SPACE) ELSE rastack

\* btb_update(b), with b's target the actual one.
btb_update(b) ==
    /\ rastack' = IF b.is_call
                  THEN Call(config.capacity, rastack,
                            b.instruction_next_addr, STAT_SPACE)
                  ELSE rastack
    /\ dispcache' = DispResult(b).cache
    /\ maincache' = MainResult(b)

NoBranch == [instruction_addr |-> 0, instruction_next_addr |-> 0,
             is_call |-> FALSE, is_return |-> FALSE, target |-> 0]

Init ==
    /\ config \in Configs
    /\ dispcache \in NewCaches(config.disp)
    /\ maincache \in NewCaches(config.main)
    /\ rastack = NewStack
    /\ phase = "predict"
    /\ br = NoBranch
    /\ predicted = 0
    /\ resolved = {}

GetPrediction(b) ==
    /\ phase = "predict"
    /\ b.is_call => config.capacity >= 0 \/ Len(rastack.callqueue) < MaxDepth
    /\ br' = b
    /\ btb_predict(b)
    /\ phase' = "update"
    /\ UNCHANGED <<config, dispcache, maincache, resolved>>

UpdatePredictor ==
    /\ phase = "update"
    /\ btb_update(br)
    /\ resolved' = resolved \cup {<<br.instruction_addr, br.target>>}
    /\ phase' = "predict"
    /\ UNCHANGED <<config, br, predicted>>

Next == (\E b \in Trace : GetPrediction(b)) \/ UpdatePredictor

Spec == Init /\ [][Next]_vars

--------------------------------------------------------------------------------
(* Properties *)

\* Type correctness of both caches and of what travels between them.
TypeOK ==
    /\ config \in Configs
    /\ CacheType(config.disp, dispcache)
    /\ CacheType(config.main, maincache)
    /\ rastack \in Stacks(Uint, STAT_SPACE)
    /\ phase \in {"predict", "update"}
    /\ br \in Trace \cup {NoBranch}
    /\ predicted \in Uint
    /\ resolved \subseteq Uint \X Uint

\* The victim search of either cache never falls into assert(0), whatever mix
\* of resolved branches and evicted entries reaches it.
VictimsExist ==
    /\ PoliciesReady(config.disp, dispcache)
    /\ PoliciesReady(config.main, maincache)

\* Neither cache ever holds an address twice, although the main cache is fed
\* from two sides.
OneSlotPerAddress ==
    /\ NoDuplicates(config.disp, dispcache)
    /\ NoDuplicates(config.main, maincache)

\* The pair the eviction test makes out of a slot that was never written.
Phantoms ==
    {AddrOf(config.disp, s, EMPTY) : s \in Sets(config.disp)} \X Garbage

\* Provenance: the displacement cache holds only pairs some branch resolved to,
\* and the main cache only those and phantoms.  So a branch with a single
\* target is never predicted to a wrong one out of a cache.
EntriesWereResolved ==
    /\ Entries(config.disp, dispcache) \subseteq resolved
    /\ Entries(config.main, maincache) \subseteq resolved \cup Phantoms

\* A branch that was just resolved is in one of the caches: neither the refusal
\* by the displacement cache nor the eviction it caused in it can lose the pair.
ResolvedBranchIsCached ==
    phase = "predict" /\ resolved # {} => InBtb(br.instruction_addr)

\* What a branch is predicted to go to, once cached, changes only because it
\* entered or left the displacement cache: no update refreshes the target of a
\* cached branch, even when the prediction was wrong.
TargetsSticky ==
    [][ \A b \in Trace :
            LET a == b.instruction_addr
            IN  InBtb(a) /\ InBtb(a)' /\ CachedTarget(a) # CachedTarget(a)'
                    => InDisp(a) # InDisp(a)' ]_vars

\* An entry leaves the displacement cache only into the main cache, and keeps
\* its target there unless the main cache held that address already.  (Address
\* 0, and the target 0xffffffff, are the two the code cannot tell from
\* "nothing evicted".)
EvictionMovesToMain ==
    [][ \A b \in Trace :
            LET a == b.instruction_addr
                held == Lookup(config.disp, dispcache, a)
            IN  InDisp(a) /\ ~InDisp(a)' /\ a # 0 /\ held # EMPTY
                    => /\ InMain(a)'
                       /\ ~InMain(a) => CachedTarget(a)' = held ]_vars

\* Only branches reach the caches: everything the main cache holds is a pair
\* some branch resolved to (predictor.cc:358, "if the way was evicted").
MainHoldsOnlyBranches ==
    Entries(config.main, maincache) \subseteq resolved

\* "This cache can only hold entries whose target address is less than 128 bytes
\* from the program counter" (writeup.tex), as a promise for near targets: one
\* that is near is held by the displacement cache once resolved.
NearTargetsUseDisp ==
    LET distance == IF br.target >= br.instruction_addr
                    THEN br.target - br.instruction_addr
                    ELSE br.instruction_addr - br.target
    IN  phase = "predict" /\ resolved # {} /\ Enabled(config.disp)
            /\ distance < 2^(config.disp.displacementbits - 1)
        => InDisp(br.instruction_addr)
================================================================================
