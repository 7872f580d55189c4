------------------------------ MODULE CacheMachine ------------------------------
(***************************************************************************)
(* One BTB_CACHE on its own, used through update() with any pair: the      *)
(* machine that shows what a single cache does, whatever its geometry and  *)
(* replacement policy.  predict() reads the same Hit and Lookup and        *)
(* changes nothing.                                                        *)
(***************************************************************************)
EXTENDS BtbCache, Sequences

CONSTANTS
    CacheGeometries,    \* the geometries to start from, all enabled
    Addrs, Targets      \* the pairs update() is called with

\* No branch sits at 0xffffffff: its tag could be that of an unwritten slot.
ASSUME MachineAssumption ==
    /\ CacheGeometries \subseteq {g \in Geometries : Enabled(g)}
    /\ Addrs \subseteq Uint \ {EMPTY}
    /\ Targets \subseteq Uint

VARIABLES
    geometry,   \* fixed by the constructor
    cache,
    report,     \* the result and out parameters of the last update()
    pair        \* history: its arguments

vars == <<geometry, cache, report, pair>>

Report(result) ==
    [stored |-> result.stored, evicted_addr |-> result.evicted_addr,
     evicted_target |-> result.evicted_target]

Init ==
    /\ geometry \in CacheGeometries
    /\ cache \in NewCaches(geometry)
    /\ report = Report(Untouched(cache, FALSE))
    /\ pair = << >>

UpdateCache(addr, target) ==
    LET result == Update(geometry, cache, addr, target)
    IN  /\ cache' = result.cache
        /\ report' = Report(result)
        /\ pair' = <<addr, target>>
        /\ UNCHANGED geometry

Next == \E addr \in Addrs, target \in Targets : UpdateCache(addr, target)

Spec == Init /\ [][Next]_vars

--------------------------------------------------------------------------------
\* Type correctness of the cache object.
TypeOK ==
    /\ geometry \in CacheGeometries
    /\ CacheType(geometry, cache)
    /\ report \in [stored : BOOLEAN, evicted_addr : Uint, evicted_target : Uint]
    /\ pair = << >> \/ pair \in Addrs \X Targets

\* What update() reports as evicted is what the cache gave up: a lost entry is
\* reported (unless its target is the sentinel 0xffffffff), a hit or a refusal
\* loses nothing, and a report that names no lost entry comes from a slot that
\* was never written.
EvictionReport ==
    [][ LET lost == Entries(geometry, cache) \ Entries(geometry, cache)'
            reported == <<report'.evicted_addr, report'.evicted_target>>
            phantoms == {AddrOf(geometry, s, EMPTY) : s \in Sets(geometry)}
        IN  /\ \A p \in lost : p[2] # EMPTY => reported = p
            /\ reported \in lost \cup {<<0, 0>>} \/ reported[1] \in phantoms
            /\ ~report'.stored => lost = {} ]_vars

\* How many ways of a set were used since each was: its counter under LRU, the
\* distance back from the next victim under round robin.
Ages(g, counters) ==
    [w \in Ways(g.numways) |->
        IF g.algorithm = WAY_LRU THEN counters[w]
        ELSE (counters[0] - 1 - w) % g.numways]

Pair(g, c, s, w) == <<AddrOf(g, s, c.tags[s][w]), c.targets[s][w]>>

\* The pairs of a set by age.  Ways that were never written are the oldest.
StoredIn(g, c, s) ==
    LET ages == Ages(g, c.counters[s])
        way == [k \in 1..g.numways |->
                   CHOOSE w \in Ways(g.numways) : ages[w] = k - 1]
    IN  [k \in {n \in 1..g.numways : c.tags[s][way[n]] # EMPTY} |->
            Pair(g, c, s, way[k])]

\* The cache implements the abstract store: tags, ways and counters together
\* behave as one recency-ordered list per set.
Store == INSTANCE LruStore WITH
            Geometries <- CacheGeometries,
            store <- [s \in Sets(geometry) |-> StoredIn(geometry, cache, s)]

ImplementsLruStore == Store!Spec
================================================================================
