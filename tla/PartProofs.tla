--------------------------------- MODULE PartProofs ---------------------------------
(***************************************************************************)
(* The parts of the target predictor, each on its own.  CacheMachine's     *)
(* safety for every geometry, every set of branches and targets, and every *)
(* content malloc may leave behind; RasMachine's for every capacity, every *)
(* set of return addresses and runs of any length below the wrap of the    *)
(* statistics.                                                             *)
(***************************************************************************)
EXTENDS CacheMachine, RasMachine, CacheProofs, SequencesExt, SequenceTheorems

\* Every tag that was written is that of a branch whose index is the set's.  So
\* AddrOf, which drops the bits that do not fit a uint, tells tags apart.
TagsNameAddrs(g, c) ==
    \A s \in Sets(g), w \in Ways(g.numways) :
        c.tags[s][w] # EMPTY =>
            \E a \in Addrs : Index(g, a) = s /\ Tag(g, a) = c.tags[s][w]

CacheInv ==
    /\ TypeOK
    /\ CacheOK(geometry, cache)
    /\ TagsNameAddrs(geometry, cache)

LEMMA AddrFacts == Addrs \subseteq Uint \ {EMPTY} /\ Addrs \subseteq Uint
BY MachineAssumption

LEMMA GeometryFacts ==
    ASSUME TypeOK
    PROVE  geometry \in Geometries /\ Enabled(geometry)
BY MachineAssumption DEF TypeOK

\* What a cache holds is what predict() answers.
LEMMA EntriesAreHits ==
    ASSUME NEW g \in Geometries, Enabled(g), NEW c, CacheOK(g, c),
           TagsNameAddrs(g, c), NEW e
    PROVE  e \in Entries(g, c) <=>
                \E a \in Addrs : Hit(g, c, a) /\ e = <<a, Lookup(g, c, a)>>
<1>1. ASSUME NEW s \in Sets(g), NEW w \in Ways(g.numways), c.tags[s][w] # EMPTY,
             e = <<AddrOf(g, s, c.tags[s][w]), c.targets[s][w]>>
      PROVE  \E a \in Addrs : Hit(g, c, a) /\ e = <<a, Lookup(g, c, a)>>
  <2>1. PICK a \in Addrs : Index(g, a) = s /\ Tag(g, a) = c.tags[s][w]
    BY <1>1 DEF TagsNameAddrs
  <2>2. a \in Uint \ {EMPTY}
    BY AddrFacts
  <2>3. Hit(g, c, a) /\ FirstMatch(g, c, a) = w
    BY <2>1, <2>2, MatchIsFirst
  <2>4. AddrOf(g, s, c.tags[s][w]) = a
    BY <2>1, <2>2, AddressRebuilt
  <2>. QED  BY <1>1, <2>1, <2>3, <2>4 DEF Lookup
<1>2. ASSUME NEW a \in Addrs, Hit(g, c, a), e = <<a, Lookup(g, c, a)>>
      PROVE  \E s \in Sets(g), w \in Ways(g.numways) :
                /\ c.tags[s][w] # EMPTY
                /\ e = <<AddrOf(g, s, c.tags[s][w]), c.targets[s][w]>>
  <2>1. a \in Uint /\ a # EMPTY
    BY AddrFacts
  <2>2. Index(g, a) \in Sets(g) /\ Tag(g, a) # EMPTY
    BY <2>1, IndexIsSet, TagIsUint
  <2>3. /\ FirstMatch(g, c, a) \in Ways(g.numways)
        /\ c.tags[Index(g, a)][FirstMatch(g, c, a)] = Tag(g, a)
    BY <1>2, FirstMatchIsMatch
  <2>4. AddrOf(g, Index(g, a), Tag(g, a)) = a
    BY <2>1, AddressRebuilt
  <2>. QED  BY <1>2, <2>2, <2>3, <2>4 DEF Lookup
<1>. QED  BY <1>1, <1>2, EntryOf

\* An update writes no tag but that of its own address.
LEMMA UpdateNamesAddrs ==
    ASSUME NEW g \in Geometries, NEW c, CacheOK(g, c), TagsNameAddrs(g, c),
           NEW addr \in Addrs, NEW target \in Uint
    PROVE  TagsNameAddrs(g, Update(g, c, addr, target).cache)
<1>. DEFINE s == Index(g, addr)
            w == InsertWay(g, c, addr)
            d == Update(g, c, addr, target).cache
<1>1. addr \in Uint
  BY AddrFacts
<1>2. CASE d.tags = c.tags
  BY <1>2 DEF TagsNameAddrs
<1>3. CASE IsInsertionAt(g, c, addr, target, s, w, d)
  <2>. HIDE DEF s, w, d
  <2>1. \A t \in Sets(g), v \in Ways(g.numways) :
            t # s \/ v # w => d.tags[t][v] = c.tags[t][v]
    BY <1>3 DEF IsInsertionAt
  <2>2. d.tags[s][w] = Tag(g, addr) /\ Index(g, addr) = s
    BY <1>3 DEF IsInsertionAt, s
  <2>3. TagsNameAddrs(g, d)
    BY <2>1, <2>2 DEF TagsNameAddrs
  <2>. QED  BY <2>3 DEF d
<1>. QED  BY <1>1, <1>2, <1>3, UpdateShape

LEMMA InitInv == Init => CacheInv
<1>. SUFFICES ASSUME Init PROVE CacheInv
  OBVIOUS
<1>1. geometry \in Geometries /\ Enabled(geometry)
  BY MachineAssumption DEF Init
<1>2. CacheOK(geometry, cache)
  BY <1>1, NewCacheOK DEF Init
<1>3. \A s \in Sets(geometry), w \in Ways(geometry.numways) :
        cache.tags[s][w] = EMPTY
  <2>1. PICK garbage, n :
            cache = [tags      |-> [s \in Sets(geometry) |->
                                        [w \in Ways(geometry.numways) |-> EMPTY]],
                     targets   |-> garbage,
                     counters  |-> [s \in Sets(geometry) |->
                                        NewCounters(geometry.numways)],
                     nummissed |-> n]
    BY DEF Init, NewCaches
  <2>. QED  BY <2>1
<1>4. TypeOK
  BY <1>2, UintFacts DEF Init, TypeOK, CacheOK, Report, Untouched
<1>. QED  BY <1>2, <1>3, <1>4 DEF CacheInv, TagsNameAddrs

LEMMA StepInv ==
    ASSUME CacheInv, NEW addr \in Addrs, NEW target \in Targets,
           UpdateCache(addr, target)
    PROVE  CacheInv'
<1>1. geometry \in Geometries /\ addr \in Uint /\ target \in Uint
  BY GeometryFacts, AddrFacts, MachineAssumption DEF CacheInv
<1>. DEFINE result == Update(geometry, cache, addr, target)
<1>2. /\ cache' = result.cache /\ report' = Report(result)
      /\ pair' = <<addr, target>> /\ geometry' = geometry
  BY DEF UpdateCache
<1>3. /\ CacheOK(geometry, result.cache)
      /\ result.stored \in BOOLEAN
      /\ result.evicted_addr \in Uint /\ result.evicted_target \in Uint
  BY <1>1, UpdateOK DEF CacheInv
<1>4. TagsNameAddrs(geometry, result.cache)
  BY <1>1, UpdateNamesAddrs DEF CacheInv
<1>. HIDE DEF result
<1>5. TypeOK'
  BY <1>2, <1>3 DEF CacheInv, TypeOK, CacheOK, Report
<1>. QED  BY <1>2, <1>3, <1>4, <1>5 DEF CacheInv

LEMMA CacheInvariant == Spec => []CacheInv
<1>1. CacheInv /\ [Next]_vars => CacheInv'
  <2>. SUFFICES ASSUME CacheInv, [Next]_vars PROVE CacheInv'
    OBVIOUS
  <2>1. CASE UNCHANGED vars
    BY <2>1 DEF vars, CacheInv, TypeOK
  <2>2. ASSUME NEW addr \in Addrs, NEW target \in Targets, UpdateCache(addr, target)
        PROVE  CacheInv'
    BY <2>2, StepInv
  <2>. QED  BY <2>1, <2>2 DEF Next
<1>. QED  BY <1>1, InitInv, PTL DEF Spec

\* The cache object keeps its shape, and what it reports are uints.
THEOREM CacheTypeCorrect == Spec => []TypeOK
<1>1. CacheInv => TypeOK
  BY DEF CacheInv
<1>. QED  BY <1>1, CacheInvariant, PTL

--------------------------------------------------------------------------------
(* The eviction report *)

\* A slot that is overwritten is given up: its address is not found elsewhere.
LEMMA VictimIsLost ==
    ASSUME NEW g \in Geometries, Enabled(g), NEW c, CacheOK(g, c),
           NEW addr \in Uint, NEW target \in Uint, ~Hit(g, c, addr),
           NEW s \in Sets(g), NEW w \in Ways(g.numways), s = Index(g, addr),
           NEW d, IsInsertionAt(g, c, addr, target, s, w, d),
           NEW a \in Uint \ {EMPTY}, Index(g, a) = s, Tag(g, a) = c.tags[s][w]
    PROVE  ~Hit(g, d, a)
<1>. SUFFICES ASSUME Hit(g, d, a) PROVE FALSE
  OBVIOUS
<1>. DEFINE v == FirstMatch(g, d, a)
<1>1. v \in Ways(g.numways) /\ d.tags[s][v] = Tag(g, a)
  BY FirstMatchIsMatch
<1>. HIDE DEF v
<1>2. Tag(g, a) # EMPTY
  BY TagIsUint
<1>3. CASE v = w
  <2>1. Tag(g, a) = Tag(g, addr)
    BY <1>1, <1>3 DEF IsInsertionAt
  <2>2. a = addr
    BY <2>1, AddressRebuilt
  <2>. QED  BY <2>2, MatchIsFirst
<1>4. CASE v # w
  <2>1. c.tags[s][v] = Tag(g, a)
    BY <1>1, <1>4 DEF IsInsertionAt
  <2>. QED  BY <1>1, <1>2, <1>4, <2>1 DEF CacheOK, NoDuplicates
<1>. QED  BY <1>3, <1>4

LEMMA ReportStep ==
    ASSUME CacheInv, NEW addr \in Addrs, NEW target \in Targets,
           NEW r, r = Update(geometry, cache, addr, target)
    PROVE  LET lost == Entries(geometry, cache) \ Entries(geometry, r.cache)
               reported == <<r.evicted_addr, r.evicted_target>>
               phantoms == {AddrOf(geometry, s, EMPTY) : s \in Sets(geometry)}
           IN  /\ \A p \in lost : p[2] # EMPTY => reported = p
               /\ reported \in lost \cup {<<0, 0>>} \/ reported[1] \in phantoms
               /\ ~r.stored => lost = {}
<1>. DEFINE lost == Entries(geometry, cache) \ Entries(geometry, r.cache)
            reported == <<r.evicted_addr, r.evicted_target>>
            g == geometry
            c == cache
            d == r.cache
            s == Index(g, addr)
            w == InsertWay(g, c, addr)
<1>1. /\ g \in Geometries /\ Enabled(g) /\ CacheOK(g, c) /\ TagsNameAddrs(g, c)
      /\ addr \in Uint /\ target \in Uint
  BY GeometryFacts, AddrFacts, MachineAssumption DEF CacheInv
<1>2. CacheOK(g, d) /\ TagsNameAddrs(g, d)
  BY <1>1, UpdateOK, UpdateNamesAddrs
<1>3. /\ \A e : e \in Entries(g, c) <=>
                \E a \in Addrs : Hit(g, c, a) /\ e = <<a, Lookup(g, c, a)>>
      /\ \A e : e \in Entries(g, d) <=>
                \E a \in Addrs : Hit(g, d, a) /\ e = <<a, Lookup(g, d, a)>>
  BY <1>1, <1>2, EntriesAreHits
<1>4. ASSUME NEW p \in lost, p[2] # EMPTY
      PROVE  reported = p
  <2>1. PICK a \in Addrs : Hit(g, c, a) /\ p = <<a, Lookup(g, c, a)>>
    BY <1>3
  <2>2. a \in Uint \ {EMPTY}
    BY AddrFacts
  <2>3. ~Hit(g, d, a)
    <3>. SUFFICES ASSUME Hit(g, d, a) PROVE FALSE
      OBVIOUS
    <3>1. Lookup(g, d, a) = Lookup(g, c, a)
      BY <1>1, <2>1, <2>2, UpdateKeepsTarget
    <3>. QED  BY <1>3, <2>1, <3>1
  <2>4. Lookup(g, c, a) # EMPTY
    BY <1>4, <2>1
  <2>. QED  BY <1>1, <2>1, <2>2, <2>3, <2>4, LostIsReported
<1>5. CASE d.tags = c.tags /\ d.targets = c.targets /\ reported = <<0, 0>>
  <2>1. Entries(g, d) = Entries(g, c)
    BY <1>5 DEF Entries
  <2>. QED  BY <1>4, <1>5, <2>1
<1>6. CASE /\ ~Hit(g, c, addr) /\ r = Inserted(g, c, addr, target)
           /\ IsInsertionAt(g, c, addr, target, s, w, d)
  <2>1. s \in Sets(g) /\ w \in Ways(g.numways)
    BY <1>6 DEF IsInsertionAt
  <2>2. r.stored
    BY <1>6 DEF Inserted
  <2>3. reported = IF c.targets[s][w] # EMPTY
                   THEN <<AddrOf(g, s, c.tags[s][w]), c.targets[s][w]>>
                   ELSE <<0, 0>>
    BY <1>6 DEF Inserted, InsertWay, EvictedAddr, EvictedTarget, InUse
  <2>. HIDE DEF s, w
  <2>4. CASE c.targets[s][w] # EMPTY /\ c.tags[s][w] = EMPTY
    BY <1>4, <2>1, <2>2, <2>3, <2>4
  <2>5. CASE c.targets[s][w] # EMPTY /\ c.tags[s][w] # EMPTY
    <3>1. reported \in Entries(g, c)
      BY <2>1, <2>3, <2>5, EntryOf
    <3>2. PICK a \in Addrs : Index(g, a) = s /\ Tag(g, a) = c.tags[s][w]
      BY <1>1, <2>1, <2>5 DEF TagsNameAddrs
    <3>3. a \in Uint \ {EMPTY}
      BY AddrFacts
    <3>4. reported[1] = a
      BY <1>1, <2>3, <2>5, <3>2, <3>3, AddressRebuilt
    <3>5. ~Hit(g, d, a)
      BY <1>1, <1>6, <2>1, <3>2, <3>3, VictimIsLost DEF s
    <3>6. reported \notin Entries(g, d)
      BY <1>3, <3>4, <3>5
    <3>. QED  BY <1>4, <2>2, <3>1, <3>6
  <2>. QED  BY <1>4, <2>2, <2>3, <2>4, <2>5
<1>. QED  BY <1>1, <1>5, <1>6, UpdateShape

\* Whatever the geometry, update() reports as evicted exactly what the cache gave
\* up, or a slot that was never written.
THEOREM CacheReportsEvictions == Spec => EvictionReport
<1>. DEFINE Reports ==
        LET lost == Entries(geometry, cache) \ Entries(geometry, cache)'
            reported == <<report'.evicted_addr, report'.evicted_target>>
            phantoms == {AddrOf(geometry, s, EMPTY) : s \in Sets(geometry)}
        IN  /\ \A p \in lost : p[2] # EMPTY => reported = p
            /\ reported \in lost \cup {<<0, 0>>} \/ reported[1] \in phantoms
            /\ ~report'.stored => lost = {}
<1>1. ASSUME CacheInv, NEW addr \in Addrs, NEW target \in Targets,
             UpdateCache(addr, target)
      PROVE  Reports
  <2>. DEFINE r == Update(geometry, cache, addr, target)
  <2>1. /\ cache' = r.cache /\ geometry' = geometry
        /\ report'.stored = r.stored /\ report'.evicted_addr = r.evicted_addr
        /\ report'.evicted_target = r.evicted_target
    BY <1>1 DEF UpdateCache, Report
  <2>2. Entries(geometry, cache)' = Entries(geometry, r.cache)
    BY <2>1
  <2>. HIDE DEF r
  <2>3. LET lost == Entries(geometry, cache) \ Entries(geometry, r.cache)
            reported == <<r.evicted_addr, r.evicted_target>>
            phantoms == {AddrOf(geometry, s, EMPTY) : s \in Sets(geometry)}
        IN  /\ \A p \in lost : p[2] # EMPTY => reported = p
            /\ reported \in lost \cup {<<0, 0>>} \/ reported[1] \in phantoms
            /\ ~r.stored => lost = {}
    BY <1>1, ReportStep DEF r
  <2>. QED  BY <2>1, <2>2, <2>3
<1>2. CacheInv /\ [Next]_vars =>
        [ LET lost == Entries(geometry, cache) \ Entries(geometry, cache)'
              reported == <<report'.evicted_addr, report'.evicted_target>>
              phantoms == {AddrOf(geometry, s, EMPTY) : s \in Sets(geometry)}
          IN  /\ \A p \in lost : p[2] # EMPTY => reported = p
              /\ reported \in lost \cup {<<0, 0>>} \/ reported[1] \in phantoms
              /\ ~report'.stored => lost = {} ]_vars
  BY <1>1 DEF Next
<1>. QED  BY <1>2, CacheInvariant, PTL DEF Spec, EvictionReport

--------------------------------------------------------------------------------
(* Ages.  Under both policies every way has an age of its own, and every use     *)
(* that the policy takes note of moves one way to the front.                     *)

LEMMA Wraps ==
    ASSUME NEW n \in Nat \ {0}, NEW x \in Int
    PROVE  /\ 0 <= x /\ x < n => x % n = x
           /\ -n <= x /\ x < 0 => x % n = x + n
<1>1. ASSUME 0 <= x, x < n PROVE x % n = x
  BY <1>1
<1>2. ASSUME -n <= x, x < 0 PROVE x % n = x + n
  BY <1>2
<1>. QED  BY <1>1, <1>2

LEMMA RobinAges ==
    ASSUME NEW n \in Nat \ {0}, NEW first \in Ways(n), NEW w \in Ways(n)
    PROVE  (first - 1 - w) % n = IF w < first THEN first - 1 - w ELSE first - 1 - w + n
<1>1. /\ first - 1 - w \in Int /\ -n <= first - 1 - w /\ first - 1 - w < n
      /\ first \in Int /\ w \in Int
  BY DEF Ways
<1>2. CASE w < first
  BY <1>1, <1>2, Wraps
<1>3. CASE ~(w < first)
  BY <1>1, <1>3, Wraps
<1>. QED  BY <1>2, <1>3

LEMMA AgesPermute ==
    ASSUME NEW g \in Geometries, NEW counters,
           PolicyReady(g.algorithm, counters, g.numways)
    PROVE  IsPermutation(Ages(g, counters), g.numways)
<1>. DEFINE n == g.numways
            a == Ages(g, counters)
<1>1. n \in Nat \ {0} /\ g.algorithm \in Algorithms
  BY DEF Geometries
<1>2. CASE g.algorithm = WAY_LRU
  <2>1. IsPermutation(counters, n) /\ counters \in [Ways(n) -> Ways(n)]
    BY <1>2 DEF PolicyReady
  <2>2. a = counters
    BY <1>2, <2>1 DEF Ages
  <2>. QED  BY <2>1, <2>2
<1>3. CASE g.algorithm # WAY_LRU
  <2>. DEFINE first == counters[0]
  <2>1. first \in Ways(n)
    BY <1>1 DEF PolicyReady, Ways
  <2>. HIDE DEF first
  <2>2. /\ a = [w \in Ways(n) |-> a[w]]
        /\ \A w \in Ways(n) :
                a[w] = IF w < first THEN first - 1 - w ELSE first - 1 - w + n
    BY <1>1, <1>3, <2>1, RobinAges DEF Ages, first
  <2>. HIDE DEF a
  <2>3. first \in Int /\ 0 <= first /\ first < n /\ n \in Int
    BY <1>1, <2>1 DEF Ways
  <2>4. \A w \in Ways(n) : w \in Int /\ 0 <= w /\ w < n
    BY <1>1 DEF Ways
  <2>5. ASSUME NEW w \in Ways(n) PROVE a[w] \in Ways(n)
    <3>1. a[w] = IF w < first THEN first - 1 - w ELSE first - 1 - w + n
      BY <2>2
    <3>. QED  BY <2>3, <2>4, <3>1 DEF Ways
  <2>6. \A v, w \in Ways(n) : a[v] = a[w] => v = w
    BY <2>2, <2>3, <2>4
  <2>7. ASSUME NEW m \in Ways(n)
        PROVE  \E w \in Ways(n) : a[w] = m
    <3>1. CASE m < first
      <4>1. first - 1 - m \in Ways(n) /\ first - 1 - m < first
        BY <2>3, <2>4, <3>1 DEF Ways
      <4>2. a[first - 1 - m] = m
        BY <2>2, <2>3, <2>4, <4>1
      <4>. QED  BY <4>1, <4>2
    <3>2. CASE ~(m < first)
      <4>1. first - 1 - m + n \in Ways(n) /\ ~(first - 1 - m + n < first)
        BY <2>3, <2>4, <3>2 DEF Ways
      <4>2. a[first - 1 - m + n] = m
        BY <2>2, <2>3, <2>4, <4>1
      <4>. QED  BY <4>1, <4>2
    <3>. QED  BY <3>1, <3>2
  <2>8. a \in [Ways(n) -> Ways(n)]
    BY <2>2, <2>5
  <2>. QED  BY <2>6, <2>7, <2>8 DEF IsPermutation, a
<1>. QED  BY <1>2, <1>3

\* Under LRU a use moves the way to the front; under round robin nothing moves.
LEMMA TouchAges ==
    ASSUME NEW g \in Geometries, NEW counters,
           PolicyReady(g.algorithm, counters, g.numways), NEW used \in Ways(g.numways)
    PROVE  Ages(g, Touch(g.algorithm, counters, used)) =
                IF g.algorithm = WAY_LRU THEN Touch(WAY_LRU, Ages(g, counters), used)
                ELSE Ages(g, counters)
BY DEF PolicyReady, Ages, Touch

\* A replacement moves the victim, the oldest way, to the front.
LEMMA ReplacedAges ==
    ASSUME NEW g \in Geometries, NEW counters,
           PolicyReady(g.algorithm, counters, g.numways),
           NEW v, v = Victim(g.algorithm, counters, g.numways)
    PROVE  /\ v \in Ways(g.numways)
           /\ Ages(g, counters)[v] = g.numways - 1
           /\ Ages(g, Replaced(g.algorithm, counters, g.numways)) =
                Touch(WAY_LRU, Ages(g, counters), v)
<1>. DEFINE n == g.numways
            a == Ages(g, counters)
<1>1. n \in Nat \ {0} /\ g.algorithm \in Algorithms
  BY DEF Geometries
<1>2. v \in Ways(n)
  BY <1>1, VictimIsWay
<1>3. CASE g.algorithm = WAY_LRU
  <2>1. counters \in [Ways(n) -> Ways(n)] /\ a = counters
    BY <1>3 DEF PolicyReady, Ages
  <2>2. Replaced(g.algorithm, counters, n) = Touch(WAY_LRU, counters, v)
    BY <1>3 DEF Replaced, WAY_LRU, WAY_RROBIN
  <2>3. counters[v] = n - 1
    <3>. DEFINE O == Oldest(counters, n)
    <3>1. O \subseteq Ways(n) /\ O \in SUBSET Nat
      BY <2>1 DEF Oldest, Ways
    <3>2. n - 1 \in Ways(n)
      BY <1>1 DEF Ways
    <3>3. O # {}
      BY <1>3, <3>2, <2>1 DEF PolicyReady, IsPermutation, Oldest
    <3>4. \E w \in O : \A u \in O : w <= u
      BY <3>1, <3>3, LeastExists
    <3>5. v \in O
      BY <1>3, <3>4 DEF Victim, WAY_LRU, WAY_RROBIN
    <3>. QED  BY <3>5 DEF Oldest
  <2>4. Touch(WAY_LRU, counters, v) \in [Ways(n) -> Ways(n)]
    BY <1>1, <1>2, <1>3, TouchPermutes DEF PolicyReady, IsPermutation
  <2>5. Ages(g, Touch(WAY_LRU, counters, v)) = Touch(WAY_LRU, counters, v)
    BY <1>3, <2>4 DEF Ages
  <2>. QED  BY <1>2, <2>1, <2>2, <2>3, <2>5
<1>4. CASE g.algorithm # WAY_LRU
  <2>. DEFINE first == counters[0]
              second == (counters[0] + 1) % n
  <2>1. first \in Ways(n) /\ 0 \in Ways(n) /\ v = first
    BY <1>1, <1>4 DEF PolicyReady, Ways, Victim, Algorithms
  <2>2. second \in Ways(n)
        /\ second = IF first = n - 1 THEN 0 ELSE first + 1
    <3>1. first \in Int /\ 0 <= first /\ first < n
      BY <1>1, <2>1 DEF Ways
    <3>2. CASE first = n - 1
      <4>1. second = 0
        BY <1>1, <3>2
      <4>. QED  BY <2>1, <3>2, <4>1
    <3>3. CASE first # n - 1
      <4>1. second = first + 1
        BY <1>1, <3>1, <3>3, Wraps
      <4>. QED  BY <1>1, <3>1, <3>3, <4>1 DEF Ways
    <3>. QED  BY <3>2, <3>3
  <2>3. LET c == Replaced(g.algorithm, counters, n)
        IN  c[0] = second
    BY <1>1, <1>4, <2>1 DEF Replaced, Algorithms, PolicyReady
  <2>. HIDE DEF first, second
  <2>4. /\ a = [w \in Ways(n) |-> a[w]]
        /\ \A w \in Ways(n) :
                a[w] = IF w < first THEN first - 1 - w ELSE first - 1 - w + n
    BY <1>1, <1>4, <2>1, RobinAges DEF Ages, first
  <2>. DEFINE b == Ages(g, Replaced(g.algorithm, counters, n))
  <2>5. /\ b = [w \in Ways(n) |-> b[w]]
        /\ \A w \in Ways(n) :
                b[w] = IF w < second THEN second - 1 - w ELSE second - 1 - w + n
    BY <1>1, <1>4, <2>2, <2>3, RobinAges DEF Ages
  <2>6. \A w \in Ways(n) : w \in Int /\ 0 <= w /\ w < n
    BY <1>1 DEF Ways
  <2>. HIDE DEF a, b
  <2>7. a[first] = n - 1
    BY <1>1, <2>1, <2>4, <2>6
  <2>8. \A w \in Ways(n) :
            b[w] = IF w = first THEN 0 ELSE IF a[w] < a[first] THEN a[w] + 1 ELSE a[w]
    BY <1>1, <2>1, <2>2, <2>4, <2>5, <2>6, <2>7
  <2>9. b = Touch(WAY_LRU, a, first)
    BY <2>4, <2>5, <2>8 DEF Touch
  <2>. QED  BY <2>1, <2>7, <2>9 DEF a, b
<1>. QED  BY <1>3, <1>4

--------------------------------------------------------------------------------
(* A set as a list: entry a[w] + 1 is the pair of way w, for the m ways younger  *)
(* than m.                                                                       *)

Lists(e, a, m, n, p) ==
    /\ m \in 0..n
    /\ e = [k \in 1..m |-> e[k]]
    /\ \A w \in Ways(n) : a[w] < m => e[a[w] + 1] = p[w]

\* The list is determined by the ages and the pairs.
LEMMA ListsUnique ==
    ASSUME NEW n \in Nat \ {0}, NEW a, IsPermutation(a, n), NEW m, NEW p,
           NEW e, Lists(e, a, m, n, p), NEW f, Lists(f, a, m, n, p)
    PROVE  e = f
<1>1. ASSUME NEW k \in 1..m PROVE e[k] = f[k]
  <2>1. k - 1 \in Ways(n) /\ k - 1 < m /\ (k - 1) + 1 = k
    BY DEF Lists, Ways
  <2>2. PICK w \in Ways(n) : a[w] = k - 1
    BY <2>1 DEF IsPermutation
  <2>. QED  BY <2>1, <2>2 DEF Lists
<1>. QED  BY <1>1 DEF Lists

\* The ages after way v moved to the front.
LEMMA AgesMoved ==
    ASSUME NEW n \in Nat \ {0}, NEW a, IsPermutation(a, n), NEW v \in Ways(n),
           NEW b, b = Touch(WAY_LRU, a, v)
    PROVE  /\ \A w \in Ways(n) : a[w] \in Nat /\ a[w] < n
           /\ \A w \in Ways(n) \ {v} : a[w] # a[v]
           /\ \A w \in Ways(n) :
                b[w] = IF w = v THEN 0 ELSE IF a[w] < a[v] THEN a[w] + 1 ELSE a[w]
<1>1. a \in [Ways(n) -> Ways(n)]
  BY DEF IsPermutation
<1>2. \A w \in Ways(n) : a[w] \in Nat /\ a[w] < n
  BY <1>1 DEF Ways
<1>3. \A w \in Ways(n) \ {v} : a[w] # a[v]
  BY DEF IsPermutation
<1>4. \A w \in Ways(n) :
        b[w] = IF w = v THEN 0 ELSE IF a[w] < a[v] THEN a[w] + 1 ELSE a[w]
  BY <1>1 DEF Touch
<1>. QED  BY <1>2, <1>3, <1>4

LEMMA PutInFront ==
    ASSUME NEW S, NEW first \in S, NEW r \in Seq(S)
    PROVE  /\ <<first>> \o r \in Seq(S)
           /\ Len(<<first>> \o r) = Len(r) + 1
           /\ (<<first>> \o r)[1] = first
           /\ \A k \in 2..(Len(r) + 1) : (<<first>> \o r)[k] = r[k - 1]
<1>. DEFINE x == <<first>>
<1>1. x \in Seq(S) /\ Len(x) = 1 /\ x[1] = first /\ Len(r) \in Nat
  OBVIOUS
<1>. HIDE DEF x
<1>2. /\ x \o r \in Seq(S) /\ Len(x \o r) = Len(x) + Len(r)
      /\ \A i \in 1..(Len(x) + Len(r)) :
            (x \o r)[i] = IF i <= Len(x) THEN x[i] ELSE r[i - Len(x)]
  BY <1>1, ConcatProperties
<1>. DEFINE f == x \o r
<1>. HIDE DEF f
<1>3. /\ f \in Seq(S) /\ Len(f) = 1 + Len(r)
      /\ \A i \in 1..(1 + Len(r)) : f[i] = IF i <= 1 THEN x[i] ELSE r[i - 1]
  BY <1>1, <1>2 DEF f
<1>4. f \in Seq(S) /\ Len(f) = Len(r) + 1 /\ f[1] = first
      /\ \A k \in 2..(Len(r) + 1) : f[k] = r[k - 1]
  BY <1>1, <1>3
<1>. QED  BY <1>4 DEF f, x

\* Moving a listed way to the front moves its entry to the front.
LEMMA MoveLists ==
    ASSUME NEW S, NEW n \in Nat \ {0}, NEW a, IsPermutation(a, n), NEW m, NEW p,
           NEW e \in Seq(S), Len(e) = m, Lists(e, a, m, n, p),
           NEW v \in Ways(n), a[v] < m
    PROVE  Lists(<<e[a[v] + 1]>> \o RemoveAt(e, a[v] + 1),
                 Touch(WAY_LRU, a, v), m, n, p)
<1>. DEFINE j == a[v] + 1
            b == Touch(WAY_LRU, a, v)
            f == <<e[j]>> \o RemoveAt(e, j)
<1>1. /\ \A w \in Ways(n) : a[w] \in Nat /\ a[w] < n
      /\ \A w \in Ways(n) \ {v} : a[w] # a[v]
      /\ \A w \in Ways(n) :
            b[w] = IF w = v THEN 0 ELSE IF a[w] < a[v] THEN a[w] + 1 ELSE a[w]
  BY AgesMoved
<1>2. j \in 1..m /\ m \in Nat
  BY <1>1 DEF Lists
<1>3. /\ f \in Seq(S) /\ Len(f) = m
      /\ \A k \in 1..m : f[k] = IF k = 1 THEN e[j] ELSE IF k <= j THEN e[k - 1] ELSE e[k]
  <2>. HIDE DEF j
  <2>1. /\ SubSeq(e, 1, j - 1) \in Seq(S) /\ Len(SubSeq(e, 1, j - 1)) = j - 1
        /\ \A k \in 1..(j - 1) : SubSeq(e, 1, j - 1)[k] = e[k]
    BY <1>2
  <2>2. /\ SubSeq(e, j + 1, m) \in Seq(S) /\ Len(SubSeq(e, j + 1, m)) = m - j
        /\ \A k \in 1..(m - j) : SubSeq(e, j + 1, m)[k] = e[j + k]
    BY <1>2
  <2>. DEFINE x == SubSeq(e, 1, j - 1)
              y == SubSeq(e, j + 1, m)
  <2>3. f = <<e[j]>> \o (x \o y)
    BY DEF RemoveAt
  <2>. HIDE DEF x, y, f
  <2>4. /\ x \o y \in Seq(S) /\ Len(x \o y) = m - 1
        /\ \A k \in 1..(m - 1) : (x \o y)[k] = IF k < j THEN e[k] ELSE e[k + 1]
    <3>1. x \in Seq(S) /\ Len(x) = j - 1 /\ y \in Seq(S) /\ Len(y) = m - j
      BY <2>1, <2>2 DEF x, y
    <3>2. x \o y \in Seq(S) /\ Len(x \o y) = m - 1
      <4>1. x \o y \in Seq(S) /\ Len(x \o y) = Len(x) + Len(y)
        BY <3>1, ConcatProperties
      <4>. QED  BY <1>2, <3>1, <4>1
    <3>3. ASSUME NEW k \in 1..(m - 1)
          PROVE  (x \o y)[k] = IF k < j THEN e[k] ELSE e[k + 1]
      <4>1. CASE k < j
        <5>1. (x \o y)[k] = x[k]
          BY <1>2, <3>1, <4>1
        <5>2. k \in 1..(j - 1)
          BY <1>2, <4>1
        <5>. QED  BY <2>1, <4>1, <5>1, <5>2 DEF x
      <4>2. CASE ~(k < j)
        <5>1. (x \o y)[k] = y[k - (j - 1)]
          BY <1>2, <3>1, <4>2
        <5>2. k - (j - 1) \in 1..(m - j) /\ j + (k - (j - 1)) = k + 1
          BY <1>2, <4>2
        <5>. QED  BY <2>2, <4>2, <5>1, <5>2 DEF y
      <4>. QED  BY <4>1, <4>2
    <3>. QED  BY <3>2, <3>3
  <2>5. e[j] \in S /\ <<e[j]>> \in Seq(S) /\ Len(<<e[j]>>) = 1
    BY <1>2
  <2>6. f \in Seq(S) /\ Len(f) = m
    <3>1. Len(f) = 1 + (m - 1)
      BY <2>3, <2>4, <2>5, ConcatProperties
    <3>. QED  BY <1>2, <2>3, <2>4, <2>5, <3>1, ConcatProperties
  <2>7. ASSUME NEW k \in 1..m
        PROVE  f[k] = IF k = 1 THEN e[j] ELSE IF k <= j THEN e[k - 1] ELSE e[k]
    <3>1. CASE k = 1
      BY <1>2, <2>3, <2>4, <2>5, <3>1
    <3>2. CASE k # 1
      <4>1. f[k] = (x \o y)[k - 1] /\ k - 1 \in 1..(m - 1) /\ (k - 1) + 1 = k
        BY <1>2, <2>3, <2>4, <2>5, <3>2
      <4>2. (x \o y)[k - 1] = IF k - 1 < j THEN e[k - 1] ELSE e[(k - 1) + 1]
        BY <2>4, <4>1
      <4>3. k - 1 < j <=> k <= j
        BY <1>2
      <4>. QED  BY <3>2, <4>1, <4>2, <4>3
    <3>. QED  BY <3>1, <3>2
  <2>. QED  BY <2>6, <2>7
<1>. HIDE DEF b, f
<1>4. ASSUME NEW w \in Ways(n), b[w] < m PROVE f[b[w] + 1] = p[w]
  <2>1. a[w] \in Nat /\ (w # v => a[w] # a[v])
    BY <1>1
  <2>2. b[w] = IF w = v THEN 0 ELSE IF a[w] < a[v] THEN a[w] + 1 ELSE a[w]
    BY <1>1
  <2>3. a[w] < m => e[a[w] + 1] = p[w]
    BY DEF Lists
  <2>4. b[w] + 1 \in 1..m
    BY <1>2, <1>4, <2>1, <2>2
  <2>5. f[b[w] + 1] = IF b[w] + 1 = 1 THEN e[j] ELSE IF b[w] + 1 <= j
                      THEN e[(b[w] + 1) - 1] ELSE e[b[w] + 1]
    BY <1>3, <2>4
  <2>6. CASE w = v
    BY <1>1, <1>2, <2>1, <2>2, <2>3, <2>5, <2>6
  <2>7. CASE w # v /\ a[w] < a[v]
    <3>1. /\ b[w] = a[w] + 1 /\ b[w] + 1 # 1 /\ b[w] + 1 <= j
          /\ (b[w] + 1) - 1 = a[w] + 1 /\ a[w] < m
      BY <1>1, <1>2, <1>4, <2>1, <2>2, <2>7
    <3>. QED  BY <2>3, <2>5, <3>1
  <2>8. CASE w # v /\ ~(a[w] < a[v])
    <3>1. b[w] = a[w] /\ b[w] + 1 # 1 /\ ~(b[w] + 1 <= j) /\ a[w] < m
      BY <1>1, <1>2, <1>4, <2>1, <2>2, <2>8
    <3>. QED  BY <2>3, <2>5, <3>1
  <2>. QED  BY <2>6, <2>7, <2>8
<1>5. f = [k \in 1..m |-> f[k]]
  BY <1>3
<1>. QED  BY <1>4, <1>5 DEF Lists, b, f

\* q has another pair for way v, and p's for the others.
Replaces(q, p, v, new, n) ==
    q[v] = new /\ \A w \in Ways(n) \ {v} : q[w] = p[w]

\* Giving the oldest way to a new pair puts the pair in front and, when every way
\* is listed, drops the last entry.
LEMMA AdmitLists ==
    ASSUME NEW S, NEW n \in Nat \ {0}, NEW a, IsPermutation(a, n), NEW m, NEW p,
           NEW e \in Seq(S), Len(e) = m, Lists(e, a, m, n, p),
           NEW v \in Ways(n), a[v] = n - 1, NEW new \in S,
           NEW q, Replaces(q, p, v, new, n),
           NEW b, b = Touch(WAY_LRU, a, v), NEW l, l = IF m = n THEN n ELSE m + 1
    PROVE  /\ Lists(<<new>> \o (IF m = n THEN Front(e) ELSE e), b, l, n, q)
           /\ \A w \in Ways(n) \ {v} : a[w] < m <=> b[w] < l
<1>. DEFINE r == IF m = n THEN Front(e) ELSE e
            f == <<new>> \o r
<1>1. /\ \A w \in Ways(n) : a[w] \in Nat /\ a[w] < n
      /\ \A w \in Ways(n) \ {v} : a[w] # a[v]
      /\ \A w \in Ways(n) :
            b[w] = IF w = v THEN 0 ELSE IF a[w] < a[v] THEN a[w] + 1 ELSE a[w]
  BY AgesMoved
<1>2. m \in Nat /\ m <= n /\ l \in 1..n
  BY DEF Lists
<1>3. r \in Seq(S) /\ Len(r) = l - 1 /\ \A k \in 1..(l - 1) : r[k] = e[k]
  <2>1. CASE m = n
    BY <1>2, <2>1 DEF Front
  <2>2. CASE m # n
    BY <1>2, <2>2
  <2>. QED  BY <2>1, <2>2
<1>. HIDE DEF r
<1>4. /\ f \in Seq(S) /\ Len(f) = l /\ f[1] = new
      /\ \A k \in 2..l : f[k] = e[k - 1]
  <2>1. /\ f \in Seq(S) /\ Len(f) = Len(r) + 1 /\ f[1] = new
        /\ \A k \in 2..(Len(r) + 1) : f[k] = r[k - 1]
    BY <1>3, PutInFront
  <2>. HIDE DEF f
  <2>2. ASSUME NEW k \in 2..l PROVE f[k] = e[k - 1]
    <3>1. k \in 2..(Len(r) + 1) /\ k - 1 \in 1..(l - 1)
      BY <1>2, <1>3
    <3>. QED  BY <1>3, <2>1, <3>1
  <2>. QED  BY <1>2, <1>3, <2>1, <2>2
<1>. HIDE DEF f
<1>5. ASSUME NEW w \in Ways(n) \ {v}
      PROVE  /\ b[w] = a[w] + 1 /\ a[w] \in Nat /\ a[w] < n - 1
             /\ a[w] < m <=> b[w] < l
  <2>1. b[w] = a[w] + 1 /\ a[w] \in Nat /\ a[w] < n - 1
    BY <1>1
  <2>. QED  BY <1>2, <2>1
<1>6. ASSUME NEW w \in Ways(n), b[w] < l PROVE f[b[w] + 1] = q[w]
  <2>1. CASE w = v
    BY <1>1, <1>4, <2>1 DEF Replaces
  <2>2. CASE w # v
    <3>1. b[w] + 1 \in 2..l /\ (b[w] + 1) - 1 = a[w] + 1 /\ a[w] < m
      BY <1>2, <1>5, <1>6, <2>2
    <3>2. e[a[w] + 1] = p[w]
      BY <3>1 DEF Lists
    <3>. QED  BY <1>4, <2>2, <3>1, <3>2 DEF Replaces
  <2>. QED  BY <2>1, <2>2
<1>7. f = [k \in 1..l |-> f[k]]
  BY <1>4
<1>8. Lists(f, b, l, n, q)
  <2>1. l \in 0..n
    BY <1>2
  <2>. QED  BY <1>6, <1>7, <2>1 DEF Lists
<1>. QED  BY <1>5, <1>8 DEF f, r

--------------------------------------------------------------------------------
(* The cache implements the abstract store *)

\* The ways of a set that were written are those used most recently, so the list
\* of a set has no holes.
YoungestWritten(g, c, s, m) ==
    /\ m \in 0..g.numways
    /\ \A w \in Ways(g.numways) :
            c.tags[s][w] # EMPTY <=> Ages(g, c.counters[s])[w] < m

NoHoles(g, c) == \A s \in Sets(g) : \E m \in 0..g.numways : YoungestWritten(g, c, s, m)

ListInv == CacheInv /\ NoHoles(geometry, cache)

Pairs(g, c, s) == [w \in Ways(g.numways) |-> Pair(g, c, s, w)]

\* What StoredIn lists, and that nothing else is such a list.
LEMMA StoredLists ==
    ASSUME NEW g \in Geometries, NEW c, CacheOK(g, c), NEW s \in Sets(g),
           NEW m, YoungestWritten(g, c, s, m)
    PROVE  /\ StoredIn(g, c, s) \in Seq(Uint \X Uint)
           /\ Len(StoredIn(g, c, s)) = m
           /\ Lists(StoredIn(g, c, s), Ages(g, c.counters[s]), m, g.numways,
                    Pairs(g, c, s))
<1>. DEFINE n == g.numways
            a == Ages(g, c.counters[s])
            way == [k \in 1..n |-> CHOOSE w \in Ways(n) : a[w] = k - 1]
            e == StoredIn(g, c, s)
<1>1. n \in Nat \ {0} /\ m \in 0..n
  BY DEF Geometries, YoungestWritten
<1>2. IsPermutation(a, n)
  BY AgesPermute DEF CacheOK, PoliciesReady
<1>3. e = [k \in {i \in 1..n : c.tags[s][way[i]] # EMPTY} |-> Pair(g, c, s, way[k])]
  BY DEF StoredIn
<1>4. \A w \in Ways(n) : c.tags[s][w] # EMPTY <=> a[w] < m
  BY DEF YoungestWritten
<1>. HIDE DEF a, e
<1>5. ASSUME NEW k \in 1..n PROVE way[k] \in Ways(n) /\ a[way[k]] = k - 1
  <2>1. k - 1 \in Ways(n)
    BY <1>1 DEF Ways
  <2>. QED  BY <1>2, <2>1 DEF IsPermutation
<1>. HIDE DEF way
<1>6. {i \in 1..n : c.tags[s][way[i]] # EMPTY} = 1..m
  <2>1. ASSUME NEW i \in 1..n PROVE c.tags[s][way[i]] # EMPTY <=> i \in 1..m
    <3>1. c.tags[s][way[i]] # EMPTY <=> i - 1 < m
      BY <1>4, <1>5
    <3>. QED  BY <1>1, <3>1
  <2>2. 1..m \subseteq 1..n
    BY <1>1
  <2>. QED  BY <2>1, <2>2
<1>7. e = [k \in 1..m |-> Pair(g, c, s, way[k])]
  BY <1>3, <1>6
<1>8. \A w \in Ways(n) : Pair(g, c, s, w) \in Uint \X Uint
  <2>. SUFFICES ASSUME NEW w \in Ways(n) PROVE Pair(g, c, s, w) \in Uint \X Uint
    OBVIOUS
  <2>1. c.tags[s][w] \in Uint /\ c.targets[s][w] \in Uint
    BY CacheFields DEF CacheOK
  <2>2. s \in Nat
    BY DEF Sets, Geometries
  <2>. QED  BY <2>1, <2>2, AddrOfIsUint DEF Pair
<1>9. \A k \in 1..m : Pair(g, c, s, way[k]) \in Uint \X Uint
  BY <1>1, <1>5, <1>8
<1>10. e \in Seq(Uint \X Uint) /\ Len(e) = m
  BY <1>1, <1>7, <1>9
<1>11. ASSUME NEW w \in Ways(n), a[w] < m
       PROVE  e[a[w] + 1] = Pairs(g, c, s)[w]
  <2>1. a[w] \in Ways(n)
    BY <1>2 DEF IsPermutation
  <2>2. a[w] + 1 \in 1..n /\ a[w] + 1 \in 1..m /\ (a[w] + 1) - 1 = a[w]
    BY <1>1, <1>11, <2>1 DEF Ways
  <2>3. way[a[w] + 1] \in Ways(n) /\ a[way[a[w] + 1]] = a[w]
    BY <1>5, <2>2
  <2>4. way[a[w] + 1] = w
    BY <1>2, <2>3 DEF IsPermutation
  <2>. QED  BY <1>7, <2>2, <2>4 DEF Pairs
<1>12. e = [k \in 1..m |-> e[k]]
  BY <1>7
<1>. QED  BY <1>1, <1>10, <1>11, <1>12 DEF Lists, e, a

LEMMA StoredListUnique ==
    ASSUME NEW g \in Geometries, NEW c, CacheOK(g, c), NEW s \in Sets(g),
           NEW m, YoungestWritten(g, c, s, m), NEW f,
           Lists(f, Ages(g, c.counters[s]), m, g.numways, Pairs(g, c, s))
    PROVE  f = StoredIn(g, c, s)
<1>1. g.numways \in Nat \ {0}
  BY DEF Geometries
<1>2. IsPermutation(Ages(g, c.counters[s]), g.numways)
  BY AgesPermute DEF CacheOK, PoliciesReady
<1>. QED  BY <1>1, <1>2, StoredLists, ListsUnique

\* The store holds an address when the cache does.
LEMMA HoldsIsHit ==
    ASSUME ListInv, NEW addr \in Addrs
    PROVE  /\ Index(geometry, addr) \in Sets(geometry)
           /\ Store!Holds(addr) <=> Hit(geometry, cache, addr)
           /\ Hit(geometry, cache, addr) =>
                LET s == Index(geometry, addr)
                    k == Ages(geometry, cache.counters[s])
                            [FirstMatch(geometry, cache, addr)] + 1
                IN  /\ k \in DOMAIN StoredIn(geometry, cache, s)
                    /\ StoredIn(geometry, cache, s)[k][1] = addr
<1>. DEFINE g == geometry
            c == cache
            n == g.numways
            s == Index(g, addr)
            a == Ages(g, c.counters[s])
            e == StoredIn(g, c, s)
            v == FirstMatch(g, c, addr)
<1>1. /\ g \in Geometries /\ Enabled(g) /\ CacheOK(g, c) /\ TagsNameAddrs(g, c)
      /\ addr \in Uint /\ addr # EMPTY
  BY GeometryFacts, AddrFacts DEF ListInv, CacheInv
<1>2. s \in Sets(g) /\ Tag(g, addr) # EMPTY
  BY <1>1, IndexIsSet, TagIsUint
<1>3. PICK m : YoungestWritten(g, c, s, m)
  BY <1>2 DEF ListInv, NoHoles
<1>4. e \in Seq(Uint \X Uint) /\ Len(e) = m /\ Lists(e, a, m, n, Pairs(g, c, s))
  BY <1>1, <1>2, <1>3, StoredLists
<1>5. n \in Nat \ {0} /\ m \in 0..n /\ DOMAIN e = 1..m
  BY <1>1, <1>3, <1>4 DEF Geometries, YoungestWritten
<1>6. IsPermutation(a, n)
  BY <1>1, <1>2, AgesPermute DEF CacheOK, PoliciesReady
<1>7. ASSUME Hit(g, c, addr)
      PROVE  a[v] + 1 \in DOMAIN e /\ e[a[v] + 1][1] = addr
  <2>1. v \in Ways(n) /\ c.tags[s][v] = Tag(g, addr)
    BY <1>1, <1>7, FirstMatchIsMatch
  <2>. HIDE DEF v
  <2>2. a[v] < m /\ a[v] \in Ways(n)
    BY <1>2, <1>3, <1>6, <2>1 DEF YoungestWritten, IsPermutation
  <2>3. e[a[v] + 1] = Pair(g, c, s, v)
    BY <1>4, <2>1, <2>2 DEF Lists, Pairs
  <2>4. Pair(g, c, s, v)[1] = addr
    BY <1>1, <2>1, AddressRebuilt DEF Pair
  <2>5. a[v] + 1 \in 1..m
    BY <1>5, <2>2 DEF Ways
  <2>. QED  BY <1>5, <2>3, <2>4, <2>5
<1>8. ASSUME NEW k \in DOMAIN e, e[k][1] = addr
      PROVE  Hit(g, c, addr)
  <2>1. k - 1 \in Ways(n) /\ k - 1 < m /\ (k - 1) + 1 = k
    BY <1>5 DEF Ways
  <2>2. PICK w \in Ways(n) : a[w] = k - 1
    BY <1>6, <2>1 DEF IsPermutation
  <2>3. e[k] = Pair(g, c, s, w) /\ c.tags[s][w] # EMPTY
    BY <1>3, <1>4, <2>1, <2>2 DEF Lists, Pairs, YoungestWritten
  <2>4. PICK b \in Addrs : Index(g, b) = s /\ Tag(g, b) = c.tags[s][w]
    BY <1>1, <1>2, <2>3 DEF TagsNameAddrs
  <2>5. AddrOf(g, s, c.tags[s][w]) = b
    BY <1>1, <2>4, AddrFacts, AddressRebuilt
  <2>6. b = addr
    BY <1>8, <2>3, <2>5 DEF Pair
  <2>. QED  BY <1>1, <2>4, <2>6 DEF Hit, Matches
<1>9. Store!Holds(addr) <=> \E k \in DOMAIN e : e[k][1] = addr
  BY <1>2 DEF Store!Holds, Store!SetOf, Index
<1>. QED  BY <1>2, <1>7, <1>8, <1>9

\* A hit keeps the pairs, and under LRU moves the entry found to the front.
LEMMA HitStep ==
    ASSUME ListInv, NEW addr \in Addrs, NEW target \in Targets,
           Hit(geometry, cache, addr), Fits(geometry, addr, target),
           NEW d, d = Update(geometry, cache, addr, target).cache, CacheOK(geometry, d)
    PROVE  LET s == Index(geometry, addr)
               e == StoredIn(geometry, cache, s)
               k == Ages(geometry, cache.counters[s])
                        [FirstMatch(geometry, cache, addr)] + 1
           IN  /\ NoHoles(geometry, d)
               /\ StoredIn(geometry, d, s) = IF geometry.algorithm = WAY_LRU
                                             THEN <<e[k]>> \o RemoveAt(e, k) ELSE e
               /\ \A t \in Sets(geometry) \ {s} :
                    StoredIn(geometry, d, t) = StoredIn(geometry, cache, t)
<1>. DEFINE g == geometry
            c == cache
            n == g.numways
            s == Index(g, addr)
            a == Ages(g, c.counters[s])
            b == Ages(g, d.counters[s])
            e == StoredIn(g, c, s)
            v == FirstMatch(g, c, addr)
            f == IF g.algorithm = WAY_LRU
                 THEN <<e[a[v] + 1]>> \o RemoveAt(e, a[v] + 1) ELSE e
<1>1. /\ g \in Geometries /\ Enabled(g) /\ CacheOK(g, c) /\ TagsNameAddrs(g, c)
      /\ addr \in Uint /\ addr # EMPTY
  BY GeometryFacts, AddrFacts DEF ListInv, CacheInv
<1>2. s \in Sets(g) /\ Tag(g, addr) # EMPTY
  BY <1>1, IndexIsSet, TagIsUint
<1>3. v \in Ways(n) /\ c.tags[s][v] = Tag(g, addr)
  BY <1>1, FirstMatchIsMatch
<1>4. PICK m : YoungestWritten(g, c, s, m)
  BY <1>2 DEF ListInv, NoHoles
<1>5. e \in Seq(Uint \X Uint) /\ Len(e) = m /\ Lists(e, a, m, n, Pairs(g, c, s))
  BY <1>1, <1>2, <1>4, StoredLists
<1>6. n \in Nat \ {0} /\ PolicyReady(g.algorithm, c.counters[s], n) /\ IsPermutation(a, n)
  BY <1>1, <1>2, AgesPermute DEF CacheOK, PoliciesReady, Geometries
<1>7. /\ d.tags = c.tags /\ d.targets = c.targets
      /\ d.counters = [c.counters EXCEPT ![s] = Touch(g.algorithm, @, v)]
      /\ d.counters[s] = Touch(g.algorithm, c.counters[s], v)
  <2>1. d = Refreshed(g, c, addr)
    BY <1>1 DEF Update, Untouched
  <2>. HIDE DEF v, s
  <2>2. d = [c EXCEPT !.counters[s] = Touch(g.algorithm, @, v)]
    BY <2>1 DEF Refreshed, v, s
  <2>. QED  BY <1>1, <1>2, <2>2, CacheFields DEF CacheOK
<1>8. Pairs(g, d, s) = Pairs(g, c, s)
  BY <1>7 DEF Pairs, Pair
<1>9. ASSUME NEW t \in Sets(g) \ {s}
      PROVE  /\ StoredIn(g, d, t) = StoredIn(g, c, t)
             /\ \E l \in 0..n : YoungestWritten(g, d, t, l)
  <2>1. d.counters[t] = c.counters[t]
    <3>. HIDE DEF v, s
    <3>1. DOMAIN c.counters = Sets(g)
      BY <1>1, CacheFields DEF CacheOK
    <3>. QED  BY <1>7, <3>1
  <2>2. PICK l \in 0..n : YoungestWritten(g, c, t, l)
    BY DEF ListInv, NoHoles
  <2>3. YoungestWritten(g, d, t, l)
    BY <1>7, <2>1, <2>2 DEF YoungestWritten
  <2>4. StoredIn(g, d, t) = StoredIn(g, c, t)
    <3>1. d.tags = c.tags /\ d.targets = c.targets
      BY <1>7
    <3>. HIDE DEF v, s
    <3>. QED  BY <2>1, <3>1 DEF StoredIn, Pair
  <2>. QED  BY <2>3, <2>4
<1>10. a[v] < m
  BY <1>2, <1>3, <1>4 DEF YoungestWritten
<1>11. b = IF g.algorithm = WAY_LRU THEN Touch(WAY_LRU, a, v) ELSE a
  BY <1>1, <1>3, <1>6, <1>7, TouchAges
<1>. HIDE DEF a, b, e, v, s
<1>12. Lists(f, b, m, n, Pairs(g, d, s))
  BY <1>3, <1>5, <1>6, <1>8, <1>10, <1>11, MoveLists
<1>13. YoungestWritten(g, d, s, m)
  <2>1. CASE g.algorithm = WAY_LRU
    <3>1. b = Touch(WAY_LRU, a, v)
      BY <1>11, <2>1
    <3>2. /\ \A w \in Ways(n) : a[w] \in Nat /\ a[w] < n
          /\ \A w \in Ways(n) \ {v} : a[w] # a[v]
          /\ \A w \in Ways(n) :
                b[w] = IF w = v THEN 0 ELSE IF a[w] < a[v] THEN a[w] + 1 ELSE a[w]
      BY <1>3, <1>6, <3>1, AgesMoved
    <3>3. m \in 0..n /\ \A w \in Ways(n) : c.tags[s][w] # EMPTY <=> a[w] < m
      BY <1>4 DEF YoungestWritten, a
    <3>4. ASSUME NEW w \in Ways(n) PROVE a[w] < m <=> b[w] < m
      <4>1. a[w] \in Nat /\ a[v] \in Nat /\ m \in Nat
        BY <1>3, <1>6, <3>2, <3>3
      <4>2. b[w] = IF w = v THEN 0 ELSE IF a[w] < a[v] THEN a[w] + 1 ELSE a[w]
        BY <3>2
      <4>. QED  BY <1>10, <4>1, <4>2
    <3>. QED  BY <1>7, <3>3, <3>4 DEF YoungestWritten, b
  <2>2. CASE g.algorithm # WAY_LRU
    BY <1>4, <1>7, <1>11, <2>2 DEF YoungestWritten, a, b
  <2>. QED  BY <2>1, <2>2
<1>14. StoredIn(g, d, s) = f
  BY <1>1, <1>2, <1>12, <1>13, StoredListUnique DEF b
<1>15. NoHoles(g, d)
  <2>. SUFFICES ASSUME NEW t \in Sets(g)
                PROVE  \E l \in 0..n : YoungestWritten(g, d, t, l)
    BY DEF NoHoles
  <2>1. CASE t = s
    BY <1>13, <2>1 DEF YoungestWritten
  <2>2. CASE t # s
    BY <1>9, <2>2
  <2>. QED  BY <2>1, <2>2
<1>. QED  BY <1>9, <1>14, <1>15 DEF e, a, v, s

\* A miss that fits puts its pair in front, in place of the oldest of a full set.
LEMMA MissStep ==
    ASSUME ListInv, NEW addr \in Addrs, NEW target \in Targets,
           ~Hit(geometry, cache, addr), Fits(geometry, addr, target),
           NEW d, d = Update(geometry, cache, addr, target).cache, CacheOK(geometry, d)
    PROVE  LET s == Index(geometry, addr)
               e == StoredIn(geometry, cache, s)
           IN  /\ NoHoles(geometry, d)
               /\ StoredIn(geometry, d, s) =
                    <<<<addr, target>>>> \o
                    (IF Len(e) = geometry.numways THEN Front(e) ELSE e)
               /\ \A t \in Sets(geometry) \ {s} :
                    StoredIn(geometry, d, t) = StoredIn(geometry, cache, t)
<1>. DEFINE g == geometry
            c == cache
            n == g.numways
            s == Index(g, addr)
            a == Ages(g, c.counters[s])
            b == Ages(g, d.counters[s])
            e == StoredIn(g, c, s)
            v == InsertWay(g, c, addr)
            f == <<<<addr, target>>>> \o (IF Len(e) = n THEN Front(e) ELSE e)
<1>1. /\ g \in Geometries /\ Enabled(g) /\ CacheOK(g, c) /\ TagsNameAddrs(g, c)
      /\ addr \in Uint /\ addr # EMPTY /\ target \in Uint
  BY GeometryFacts, AddrFacts, MachineAssumption DEF ListInv, CacheInv
<1>2. s \in Sets(g) /\ Tag(g, addr) # EMPTY
  BY <1>1, IndexIsSet, TagIsUint
<1>3. PICK m : YoungestWritten(g, c, s, m)
  BY <1>2 DEF ListInv, NoHoles
<1>4. e \in Seq(Uint \X Uint) /\ Len(e) = m /\ Lists(e, a, m, n, Pairs(g, c, s))
  BY <1>1, <1>2, <1>3, StoredLists
<1>5. n \in Nat \ {0} /\ PolicyReady(g.algorithm, c.counters[s], n) /\ IsPermutation(a, n)
  BY <1>1, <1>2, AgesPermute DEF CacheOK, PoliciesReady, Geometries
<1>6. IsInsertion(g, c, addr, target, s, v, d)
  <2>1. d = Inserted(g, c, addr, target).cache
    BY <1>1 DEF Update
  <2>. QED  BY <1>1, <2>1, InsertedFields
<1>7. IsInsertionAt(g, c, addr, target, s, v, d)
  BY <1>1, <1>6, InsertionSlots
<1>8. /\ v \in Ways(n) /\ a[v] = n - 1 /\ b = Touch(WAY_LRU, a, v)
  <2>1. v = Victim(g.algorithm, c.counters[s], n)
    BY DEF InsertWay
  <2>. HIDE DEF v, s
  <2>2. DOMAIN c.counters = Sets(g)
    BY <1>1, CacheFields DEF CacheOK
  <2>3. d.counters[s] = Replaced(g.algorithm, c.counters[s], n)
    BY <1>2, <1>6, <2>2 DEF IsInsertion
  <2>. QED  BY <1>1, <1>5, <2>1, <2>3, ReplacedAges
<1>. HIDE DEF v, s
<1>9. ASSUME NEW t \in Sets(g) \ {s}
      PROVE  /\ StoredIn(g, d, t) = StoredIn(g, c, t)
             /\ \E l \in 0..n : YoungestWritten(g, d, t, l)
  <2>1. /\ d.counters[t] = c.counters[t] /\ d.tags[t] = c.tags[t]
        /\ d.targets[t] = c.targets[t]
    <3>1. /\ DOMAIN c.counters = Sets(g) /\ DOMAIN c.tags = Sets(g)
          /\ DOMAIN c.targets = Sets(g)
      BY <1>1, CacheFields DEF CacheOK
    <3>. QED  BY <1>6, <3>1 DEF IsInsertion
  <2>2. PICK l \in 0..n : YoungestWritten(g, c, t, l)
    BY DEF ListInv, NoHoles
  <2>. QED  BY <2>1, <2>2 DEF StoredIn, Pair, YoungestWritten
<1>. DEFINE l == IF m = n THEN n ELSE m + 1
<1>10. /\ Pairs(g, d, s)[v] = <<addr, target>>
       /\ \A w \in Ways(n) \ {v} : Pairs(g, d, s)[w] = Pairs(g, c, s)[w]
  <2>1. Pair(g, d, s, v) = <<addr, target>>
    <3>1. AddrOf(g, s, Tag(g, addr)) = addr
      BY <1>1, AddressRebuilt DEF s
    <3>. QED  BY <1>7, <3>1 DEF IsInsertionAt, Pair
  <2>. QED  BY <1>7, <1>8, <2>1 DEF IsInsertionAt, Pairs, Pair
<1>11. /\ Lists(f, b, l, n, Pairs(g, d, s))
       /\ \A w \in Ways(n) \ {v} : a[w] < m <=> b[w] < l
  <2>. DEFINE S == Uint \X Uint
              new == <<addr, target>>
              p == Pairs(g, c, s)
              q == Pairs(g, d, s)
  <2>1. new \in S
    BY <1>1
  <2>2. Replaces(q, p, v, new, n)
    BY <1>10 DEF Replaces
  <2>3. l = (IF m = n THEN n ELSE m + 1) /\ e \in Seq(S) /\ Len(e) = m
    BY <1>4
  <2>4. f = <<new>> \o (IF m = n THEN Front(e) ELSE e)
    BY <2>3
  <2>. HIDE DEF a, b, e, f, q, l, n, S, new, p
  <2>5. /\ Lists(<<new>> \o (IF m = n THEN Front(e) ELSE e), b, l, n, q)
        /\ \A w \in Ways(n) \ {v} : a[w] < m <=> b[w] < l
    BY <1>4, <1>5, <1>8, <2>1, <2>2, <2>3, AdmitLists DEF p
  <2>6. Lists(f, b, l, n, q)
    BY <2>4, <2>5
  <2>. QED  BY <2>5, <2>6 DEF q
<1>12. YoungestWritten(g, d, s, l)
  <2>1. m \in 0..n /\ l \in 1..n
    BY <1>3, <1>5 DEF YoungestWritten
  <2>2. d.tags[s][v] # EMPTY /\ b[v] = 0
    BY <1>2, <1>5, <1>7, <1>8, AgesMoved DEF IsInsertionAt
  <2>3. ASSUME NEW w \in Ways(n) \ {v} PROVE d.tags[s][w] # EMPTY <=> b[w] < l
    <3>1. d.tags[s][w] = c.tags[s][w]
      BY <1>7 DEF IsInsertionAt
    <3>2. c.tags[s][w] # EMPTY <=> a[w] < m
      BY <1>3 DEF YoungestWritten
    <3>. QED  BY <1>11, <3>1, <3>2
  <2>4. l \in 0..n /\ 0 < l
    BY <2>1
  <2>. HIDE DEF l, b
  <2>5. \A w \in Ways(n) : d.tags[s][w] # EMPTY <=> b[w] < l
    BY <2>2, <2>3, <2>4
  <2>. QED  BY <2>4, <2>5 DEF YoungestWritten, b
<1>. HIDE DEF l
<1>13. StoredIn(g, d, s) = f
  BY <1>1, <1>2, <1>11, <1>12, StoredListUnique
<1>14. NoHoles(g, d)
  <2>. SUFFICES ASSUME NEW t \in Sets(g)
                PROVE  \E j \in 0..n : YoungestWritten(g, d, t, j)
    BY DEF NoHoles
  <2>1. CASE t = s
    BY <1>12, <2>1 DEF YoungestWritten
  <2>2. CASE t # s
    BY <1>9, <2>2
  <2>. QED  BY <2>1, <2>2
<1>. QED  BY <1>9, <1>13, <1>14 DEF s

\* A refused update changes no list.
LEMMA RefusedStep ==
    ASSUME ListInv, NEW addr \in Addrs, NEW target \in Targets,
           ~Fits(geometry, addr, target),
           NEW d, d = Update(geometry, cache, addr, target).cache
    PROVE  /\ NoHoles(geometry, d)
           /\ \A t \in Sets(geometry) :
                StoredIn(geometry, d, t) = StoredIn(geometry, cache, t)
<1>1. geometry \in Geometries /\ Enabled(geometry) /\ CacheOK(geometry, cache)
  BY GeometryFacts DEF ListInv, CacheInv
<1>2. /\ d.tags = cache.tags /\ d.targets = cache.targets
      /\ d.counters = cache.counters
  <2>1. d = [cache EXCEPT !.nummissed = (@ + 1) % STAT_SPACE]
    BY <1>1 DEF Update, Untouched
  <2>. QED  BY <1>1, <2>1, CacheFields DEF CacheOK
<1>3. NoHoles(geometry, d)
  BY <1>2 DEF ListInv, NoHoles, YoungestWritten
<1>4. ASSUME NEW t \in Sets(geometry)
      PROVE  StoredIn(geometry, d, t) = StoredIn(geometry, cache, t)
  BY <1>2 DEF StoredIn, Pair
<1>. QED  BY <1>3, <1>4

\* A new cache lists nothing.
LEMMA InitLists ==
    ASSUME Init
    PROVE  ListInv /\ Store!Init
<1>1. CacheInv
  BY InitInv
<1>2. geometry \in Geometries /\ Enabled(geometry) /\ CacheOK(geometry, cache)
  BY <1>1, GeometryFacts DEF CacheInv
<1>3. \A s \in Sets(geometry), w \in Ways(geometry.numways) :
        cache.tags[s][w] = EMPTY
  <2>1. PICK garbage, n :
            cache = [tags      |-> [s \in Sets(geometry) |->
                                        [w \in Ways(geometry.numways) |-> EMPTY]],
                     targets   |-> garbage,
                     counters  |-> [s \in Sets(geometry) |->
                                        NewCounters(geometry.numways)],
                     nummissed |-> n]
    BY DEF Init, NewCaches
  <2>. QED  BY <2>1
<1>4. ASSUME NEW s \in Sets(geometry)
      PROVE  /\ YoungestWritten(geometry, cache, s, 0)
             /\ StoredIn(geometry, cache, s) = << >>
  <2>. DEFINE a == Ages(geometry, cache.counters[s])
  <2>1. geometry.numways \in Nat /\ 0 \in 0..geometry.numways
    BY <1>2 DEF Geometries
  <2>2. IsPermutation(a, geometry.numways)
    BY <1>2, AgesPermute DEF CacheOK, PoliciesReady
  <2>. HIDE DEF a
  <2>3. \A w \in Ways(geometry.numways) : ~(a[w] < 0)
    BY <2>1, <2>2 DEF IsPermutation, Ways
  <2>4. YoungestWritten(geometry, cache, s, 0)
    BY <1>3, <2>1, <2>3 DEF YoungestWritten, a
  <2>5. StoredIn(geometry, cache, s) \in Seq(Uint \X Uint)
        /\ Len(StoredIn(geometry, cache, s)) = 0
    BY <1>2, <2>4, StoredLists
  <2>. QED  BY <2>4, <2>5
<1>5. NoHoles(geometry, cache)
  <2>. SUFFICES ASSUME NEW s \in Sets(geometry)
                PROVE  \E m \in 0..geometry.numways :
                            YoungestWritten(geometry, cache, s, m)
    BY DEF NoHoles
  <2>1. 0 \in 0..geometry.numways
    BY <1>4 DEF YoungestWritten
  <2>. QED  BY <1>4, <2>1
<1>6. Store!Init
  BY <1>4 DEF Store!Init, Init, Sets
<1>. QED  BY <1>1, <1>5, <1>6 DEF ListInv

LEMMA StoreStep ==
    ASSUME ListInv, CacheInv', NEW addr \in Addrs, NEW target \in Targets,
           UpdateCache(addr, target)
    PROVE  ListInv' /\ Store!Next
<1>. DEFINE g == geometry
            c == cache
            s == Index(g, addr)
            e == StoredIn(g, c, s)
            store == [t \in Sets(g) |-> StoredIn(g, c, t)]
            list == [t \in Sets(g) |-> StoredIn(g, cache', t)]
<1>1. /\ cache' = Update(g, c, addr, target).cache
      /\ geometry' = g /\ pair' = <<addr, target>>
  BY DEF UpdateCache
<1>2. CacheOK(g, cache') /\ s \in Sets(g)
  BY <1>1, HoldsIsHit DEF CacheInv
<1>. DEFINE mapped == [t \in Sets(geometry) |-> StoredIn(geometry, cache, t)]
<1>3. mapped' = list /\ mapped = store /\ Store!SetOf(addr) = s
  BY <1>1 DEF Store!SetOf, Index
<1>4. /\ \A x : Store!Front(x) = Front(x)
      /\ \A x, i : Store!RemoveAt(x, i) = RemoveAt(x, i)
  BY DEF Store!Front, Front, Store!RemoveAt, RemoveAt
<1>5. CASE Fits(g, addr, target) /\ Hit(g, c, addr)
  <2>. DEFINE k == Ages(g, c.counters[s])[FirstMatch(g, c, addr)] + 1
  <2>1. /\ NoHoles(g, cache')
        /\ StoredIn(g, cache', s) = IF g.algorithm = WAY_LRU
                                    THEN <<e[k]>> \o RemoveAt(e, k) ELSE e
        /\ \A t \in Sets(g) \ {s} : StoredIn(g, cache', t) = StoredIn(g, c, t)
    BY <1>1, <1>2, <1>5, HitStep
  <2>2. k \in DOMAIN e /\ e[k][1] = addr
    BY <1>5, HoldsIsHit
  <2>. HIDE DEF k
  <2>3. list = IF g.algorithm = 1
               THEN [store EXCEPT ![s] = <<e[k]>> \o RemoveAt(e, k)] ELSE store
    BY <1>2, <2>1 DEF WAY_LRU
  <2>4. store[s] = e
    BY <1>2
  <2>5. Store!Use(addr)
    <3>. HIDE DEF s, e, store, list, mapped
    <3>1. LET entries == mapped[Store!SetOf(addr)]
          IN  /\ k \in DOMAIN entries
              /\ entries[k][1] = addr
              /\ mapped' = IF geometry.algorithm = 1
                           THEN [mapped EXCEPT ![Store!SetOf(addr)] =
                                    <<entries[k]>> \o Store!RemoveAt(entries, k)]
                           ELSE mapped
      BY <1>3, <1>4, <2>2, <2>3, <2>4
    <3>. QED  BY <3>1, Zenon DEF Store!Use, mapped
  <2>6. Store!Next
    BY <1>1, <1>5, <2>5 DEF Store!Next
  <2>. QED  BY <1>1, <2>1, <2>6 DEF ListInv
<1>6. CASE Fits(g, addr, target) /\ ~Hit(g, c, addr)
  <2>1. /\ NoHoles(g, cache')
        /\ StoredIn(g, cache', s) =
                <<<<addr, target>>>> \o (IF Len(e) = g.numways THEN Front(e) ELSE e)
        /\ \A t \in Sets(g) \ {s} : StoredIn(g, cache', t) = StoredIn(g, c, t)
    BY <1>1, <1>2, <1>6, MissStep
  <2>2. ~Store!Holds(addr)
    BY <1>6, HoldsIsHit
  <2>3. list = [store EXCEPT ![s] = <<<<addr, target>>>> \o
                        (IF Len(e) = g.numways THEN Front(e) ELSE e)]
    BY <1>2, <2>1
  <2>4. store[s] = e
    BY <1>2
  <2>5. Store!Admit(addr, target)
    <3>. HIDE DEF s, e, store, list, mapped
    <3>. QED  BY <1>3, <1>4, <2>2, <2>3, <2>4 DEF Store!Admit, mapped
  <2>6. Store!Next
    BY <1>1, <1>6, <2>5 DEF Store!Next
  <2>. QED  BY <1>1, <2>1, <2>6 DEF ListInv
<1>7. CASE ~Fits(g, addr, target)
  <2>1. /\ NoHoles(g, cache')
        /\ \A t \in Sets(g) : StoredIn(g, cache', t) = StoredIn(g, c, t)
    BY <1>1, <1>7, RefusedStep
  <2>2. list = store
    BY <2>1
  <2>3. Store!Next
    BY <1>1, <1>7, <2>2 DEF Store!Next
  <2>. QED  BY <1>1, <2>1, <2>3 DEF ListInv
<1>. QED  BY <1>5, <1>6, <1>7

\* Whatever the geometry, the tags, ways and counters of a cache behave as one
\* recency-ordered list per set: nothing but the least recent entry of a full set
\* is ever given up, and a stored target stays as it was admitted.
THEOREM CacheIsAnLruStore == Spec => ImplementsLruStore
<1>1. Init => ListInv /\ Store!Init
  BY InitLists
<1>2. ListInv /\ CacheInv' /\ [Next]_vars => ListInv' /\ [Store!Next]_(Store!vars)
  <2>. SUFFICES ASSUME ListInv, CacheInv', [Next]_vars
                PROVE  ListInv' /\ [Store!Next]_(Store!vars)
    OBVIOUS
  <2>1. CASE UNCHANGED vars
    <3>1. geometry' = geometry /\ cache' = cache /\ pair' = pair
      BY <2>1 DEF vars
    <3>2. UNCHANGED Store!vars
      BY <3>1 DEF Store!vars
    <3>. QED  BY <3>1, <3>2 DEF ListInv
  <2>2. ASSUME NEW addr \in Addrs, NEW target \in Targets, UpdateCache(addr, target)
        PROVE  ListInv' /\ Store!Next
    BY <2>2, StoreStep
  <2>. QED  BY <2>1, <2>2 DEF Next
<1>. QED  BY <1>1, <1>2, CacheInvariant, PTL DEF Spec, ImplementsLruStore, Store!Spec

--------------------------------------------------------------------------------
(* The return address stack as an object: its shape is kept, and a call never    *)
(* leaves more entries than the capacity.                                       *)

\* What a call does to the queue, for a stack that exists: push, and drop the
\* oldest entry if the stack was full.
LEMMA CallQueue ==
    ASSUME NEW addrs, NEW space \in Nat \ {0}, NEW cap \in Int,
           NEW old \in Stacks(addrs, space), NEW addr \in addrs, cap # 0
    PROVE  /\ Call(cap, old, addr, space).callqueue \in Seq(addrs)
           /\ Len(Call(cap, old, addr, space).callqueue) =
                 IF Overflows(cap, old) THEN Len(old.callqueue)
                 ELSE Len(old.callqueue) + 1
           /\ \A k \in 1..Len(Call(cap, old, addr, space).callqueue) :
                 Call(cap, old, addr, space).callqueue[k] =
                    IF k = 1 THEN addr ELSE old.callqueue[k - 1]
<1>. DEFINE q == old.callqueue
            p == <<addr>> \o q
            r == Call(cap, old, addr, space).callqueue
<1>1. q \in Seq(addrs) /\ Len(q) \in Nat
  BY DEF Stacks
<1>2. /\ p \in Seq(addrs)
      /\ Len(p) = Len(q) + 1
      /\ \A k \in 1..Len(p) : p[k] = IF k = 1 THEN addr ELSE q[k - 1]
  BY <1>1
<1>3. r = IF Overflows(cap, old) THEN SubSeq(p, 1, Len(p) - 1) ELSE p
  BY DEF Call, Stacks
<1>. HIDE DEF p, q, r
<1>4. CASE Overflows(cap, old)
  <2>1. /\ SubSeq(p, 1, Len(p) - 1) \in Seq(addrs)
        /\ Len(SubSeq(p, 1, Len(p) - 1)) = Len(q)
        /\ \A k \in 1..Len(q) : SubSeq(p, 1, Len(p) - 1)[k] = p[k]
    BY <1>1, <1>2
  <2>2. /\ r \in Seq(addrs) /\ Len(r) = Len(q)
        /\ \A k \in 1..Len(r) : r[k] = IF k = 1 THEN addr ELSE q[k - 1]
    <3>1. \A k \in 1..Len(q) : k \in 1..Len(p)
      BY <1>1, <1>2
    <3>. QED  BY <1>2, <1>3, <1>4, <2>1, <3>1
  <2>. QED  BY <1>4, <2>2 DEF q, r
<1>5. CASE ~Overflows(cap, old)
  BY <1>1, <1>2, <1>3, <1>5 DEF q, r
<1>. QED  BY <1>4, <1>5

\* A call keeps the shape of the stack.
LEMMA CallType ==
    ASSUME NEW addrs, NEW space \in Nat \ {0}, NEW cap \in Int,
           NEW old \in Stacks(addrs, space), NEW addr \in addrs
    PROVE  Call(cap, old, addr, space) \in Stacks(addrs, space)
<1>. DEFINE r == Call(cap, old, addr, space)
            size == Len(<<addr>> \o old.callqueue)
            counted == (old.call_overflow + 1) % space
<1>1. counted \in 0..(space - 1)
  BY DEF Stacks
<1>2. CASE cap = 0
  BY <1>1, <1>2 DEF Call, Stacks
<1>3. CASE cap # 0
  <2>1. r.callqueue \in Seq(addrs)
    BY <1>3, CallQueue
  <2>2. size \in Nat
    BY DEF Stacks
  <2>3. r.maxsize = IF size % space > old.maxsize THEN size % space ELSE old.maxsize
    BY <1>3 DEF Call, Stacks
  <2>4. r.maxsize \in 0..(space - 1)
    BY <2>2, <2>3 DEF Stacks
  <2>5. r.call_overflow \in 0..(space - 1)
    BY <1>1, <1>3 DEF Call, Stacks
  <2>6. /\ r.ret_underflow = old.ret_underflow
        /\ r = [callqueue |-> r.callqueue, maxsize |-> r.maxsize,
                call_overflow |-> r.call_overflow,
                ret_underflow |-> r.ret_underflow]
    BY <1>3 DEF Call, Stacks
  <2>. QED  BY <2>1, <2>4, <2>5, <2>6 DEF Stacks
<1>. QED  BY <1>2, <1>3

\* A return keeps the shape of the stack, and what it pops is an address.
LEMMA RetType ==
    ASSUME NEW addrs, NEW space \in Nat \ {0}, NEW old \in Stacks(addrs, space)
    PROVE  /\ Ret(old, space) \in Stacks(addrs, space)
           /\ HasReturn(old) => ReturnAddress(old) \in addrs
<1>1. (old.ret_underflow + 1) % space \in 0..(space - 1)
  BY DEF Stacks
<1>2. HasReturn(old) => /\ Tail(old.callqueue) \in Seq(addrs)
                        /\ Head(old.callqueue) \in addrs
  BY DEF Stacks, HasReturn
<1>. QED  BY <1>1, <1>2 DEF Ret, Stacks, HasReturn, ReturnAddress

--------------------------------------------------------------------------------
(* The machine *)

\* The queue is never longer than the history says, nor that than the capacity.
DepthBounds ==
    /\ Len(ras.callqueue) <= deepest
    /\ capacity >= 0 => deepest <= capacity

\* The properties together are inductive: which frames survive depends on the
\* capacity being respected, the conservation law on counters not wrapping, and
\* that the size does not wrap on the conservation law.
RasInv ==
    /\ RasTypeOK
    /\ StackIsSurvivingFrames
    /\ CallsAccountedFor
    /\ MaxsizeExplained
    /\ DepthBounds

LEMMA RasInvInit == RasInit => RasInv
<1>. SUFFICES ASSUME RasInit PROVE RasInv
  OBVIOUS
<1>1. RasTypeOK
  BY RasAssumption DEF RasInit, RasTypeOK, NewStack, Stacks
<1>2. StackIsSurvivingFrames /\ CallsAccountedFor
  BY DEF RasInit, NewStack, StackIsSurvivingFrames, CallsAccountedFor
<1>3. MaxsizeExplained /\ DepthBounds
  BY RasAssumption DEF RasInit, NewStack, MaxsizeExplained, DepthBounds
<1>. QED  BY <1>1, <1>2, <1>3 DEF RasInv

\* A counter below the wrap is not changed by it.
LEMMA NoWrap ==
    ASSUME NEW x \in Nat, NEW space \in Nat \ {0}, x < space
    PROVE  x % space = x
OBVIOUS

\* The frames after a call: the new one on top, the others one deeper.
LEMMA FramesAfterCall ==
    ASSUME RasTypeOK, NEW addr \in ReturnAddrs, DoCall(addr)
    PROVE  /\ frames' \in Seq(ReturnAddrs)
           /\ reach' \in Seq(Nat \ {0})
           /\ Len(frames') = Len(frames) + 1
           /\ Len(reach') = Len(frames) + 1
           /\ frames'[1] = addr /\ reach'[1] = 1
           /\ \A k \in 2..(Len(frames) + 1) :
                /\ frames'[k] = frames[k - 1]
                /\ reach'[k] = IF reach[k - 1] > k THEN reach[k - 1] ELSE k
<1>. DEFINE n == Len(frames)
            lower == [k \in 1..n |-> Deeper(k)]
<1>1. /\ n \in Nat /\ frames \in Seq(ReturnAddrs) /\ reach \in Seq(Nat \ {0})
      /\ Len(reach) = n
  BY DEF RasTypeOK
<1>2. frames' = <<addr>> \o frames /\ reach' = <<1>> \o lower
  BY <1>1 DEF DoCall
<1>3. ASSUME NEW k \in 1..n
      PROVE  /\ lower[k] = IF reach[k] > k + 1 THEN reach[k] ELSE k + 1
             /\ lower[k] \in Nat \ {0}
  BY <1>1 DEF Deeper
<1>4. lower \in Seq(Nat \ {0}) /\ Len(lower) = n
  <2>1. lower = [k \in 1..n |-> lower[k]]
    OBVIOUS
  <2>. HIDE DEF lower
  <2>. QED  BY <1>1, <1>3, <2>1
<1>. HIDE DEF lower
<1>5. /\ frames' \in Seq(ReturnAddrs) /\ Len(frames') = n + 1 /\ frames'[1] = addr
      /\ \A k \in 2..(n + 1) : frames'[k] = frames[k - 1]
  BY <1>1, <1>2
<1>6. /\ reach' \in Seq(Nat \ {0}) /\ Len(reach') = n + 1 /\ reach'[1] = 1
      /\ \A k \in 2..(n + 1) : reach'[k] = lower[k - 1]
  BY <1>1, <1>2, <1>4
<1>7. ASSUME NEW k \in 2..(n + 1)
      PROVE  reach'[k] = IF reach[k - 1] > k THEN reach[k - 1] ELSE k
  <2>1. k - 1 \in 1..n /\ (k - 1) + 1 = k
    BY <1>1
  <2>. QED  BY <1>3, <1>6, <2>1
<1>. QED  BY <1>5, <1>6, <1>7

\* What survives a call, for one frame: the arithmetic of depth and capacity.
LEMMA SurvivalStep ==
    ASSUME NEW capacity0 \in Int, capacity0 # 0,
           NEW len \in Nat, capacity0 > 0 => len <= capacity0,
           NEW k \in Nat, k >= 2, NEW old \in Nat,
           (capacity0 < 0 \/ old <= capacity0) <=> k - 1 <= len,
           NEW now, now = IF old > k THEN old ELSE k,
           NEW len2, len2 = IF capacity0 > 0 /\ len >= capacity0
                            THEN len ELSE len + 1
    PROVE  (capacity0 < 0 \/ now <= capacity0) <=> k <= len2
OBVIOUS

\* A call keeps the correspondence of the stack and the frames.
LEMMA CallKeepsFrames ==
    ASSUME RasInv, NEW addr \in ReturnAddrs, DoCall(addr)
    PROVE  /\ ras' \in Stacks(ReturnAddrs, UINT_SPACE)
           /\ capacity >= 0 => Len(ras'.callqueue) <= capacity
           /\ StackIsSurvivingFrames'
           /\ Len(ras'.callqueue) + ras'.call_overflow
                = Len(ras.callqueue) + ras.call_overflow + 1
           /\ ras'.call_overflow \in {ras.call_overflow, ras.call_overflow + 1}
           /\ ras'.ret_underflow = ras.ret_underflow
<1>. DEFINE q == ras.callqueue
            n == Len(frames)
<1>1. /\ capacity \in Int
      /\ ras \in Stacks(ReturnAddrs, UINT_SPACE)
      /\ UINT_SPACE \in Nat \ {0}
      /\ q \in Seq(ReturnAddrs) /\ Len(q) \in Nat
      /\ n \in Nat /\ Len(q) <= n
      /\ capacity >= 0 => Len(q) <= capacity
  BY RasAssumption DEF RasInv, RasTypeOK, Stacks, StackIsSurvivingFrames
<1>2. ras' = Call(capacity, ras, addr, UINT_SPACE) /\ capacity' = capacity
  BY DEF DoCall
<1>3. (ras.call_overflow + 1) % UINT_SPACE = ras.call_overflow + 1
  <2>1. ras.call_overflow + 1 \in Nat /\ ras.call_overflow + 1 < UINT_SPACE
    BY RasAssumption DEF RasInv, RasTypeOK, Stacks, DoCall
  <2>. QED  BY <1>1, <2>1, NoWrap
<1>4. ASSUME NEW k \in 1..n
      PROVE  /\ Survives(k) <=> k <= Len(q)
             /\ k <= Len(q) => q[k] = frames[k]
             /\ reach[k] \in Nat /\ reach[k] > 0
  BY DEF RasInv, RasTypeOK, StackIsSurvivingFrames
<1>5. PICK r, f, h : r = ras' /\ f = frames' /\ h = reach'
  OBVIOUS
<1>6. /\ Len(f) = n + 1
      /\ f[1] = addr /\ h[1] = 1
      /\ \A k \in 2..(n + 1) :
            /\ f[k] = frames[k - 1]
            /\ h[k] = IF reach[k - 1] > k THEN reach[k - 1] ELSE k
  BY <1>5, FramesAfterCall DEF RasInv
<1>7. r \in Stacks(ReturnAddrs, UINT_SPACE)
  BY <1>1, <1>2, <1>5, CallType
<1>. HIDE DEF q, n
<1>8. SUFFICES
        /\ capacity >= 0 => Len(r.callqueue) <= capacity
        /\ Len(r.callqueue) <= n + 1
        /\ \A k \in 1..(n + 1) :
             /\ (capacity < 0 \/ h[k] <= capacity) <=> k <= Len(r.callqueue)
             /\ k <= Len(r.callqueue) => r.callqueue[k] = f[k]
        /\ Len(r.callqueue) + r.call_overflow = Len(q) + ras.call_overflow + 1
        /\ r.call_overflow \in {ras.call_overflow, ras.call_overflow + 1}
        /\ r.ret_underflow = ras.ret_underflow
  BY <1>2, <1>5, <1>6, <1>7 DEF StackIsSurvivingFrames, Survives, q
<1>9. CASE capacity = 0
  <2>1. /\ r.callqueue = q /\ Len(q) = 0
        /\ r.ret_underflow = ras.ret_underflow
        /\ r.call_overflow = ras.call_overflow + 1
    BY <1>1, <1>2, <1>3, <1>5, <1>9 DEF Call, Stacks, q
  <2>2. ASSUME NEW k \in 1..(n + 1)
        PROVE  h[k] > 0
    <3>1. CASE k = 1
      BY <1>6, <3>1
    <3>2. CASE k # 1
      <4>1. k \in 2..(n + 1) /\ k - 1 \in 1..n
        BY <1>1, <3>2
      <4>. QED  BY <1>4, <1>6, <4>1
    <3>. QED  BY <3>1, <3>2
  <2>3. \A k \in 1..(n + 1) : ~(h[k] <= capacity) /\ ~(k <= 0)
    <3>. TAKE k \in 1..(n + 1)
    <3>1. h[k] \in Int
      <4>1. CASE k = 1
        BY <1>6, <4>1
      <4>2. CASE k # 1
        <5>1. k \in 2..(n + 1) /\ k - 1 \in 1..n
          BY <1>1, <4>2
        <5>. QED  BY <1>4, <1>6, <5>1
      <4>. QED  BY <4>1, <4>2
    <3>. QED  BY <1>1, <1>9, <2>2, <3>1
  <2>. QED  BY <1>1, <1>9, <2>1, <2>3 DEF Stacks
<1>10. CASE capacity # 0
  <2>. DEFINE full == Overflows(capacity, ras)
              len2 == IF full THEN Len(q) ELSE Len(q) + 1
  <2>1. full <=> capacity > 0 /\ Len(q) >= capacity
    BY DEF Overflows, q
  <2>2. /\ r.ret_underflow = ras.ret_underflow
        /\ r.call_overflow = IF full THEN ras.call_overflow + 1
                             ELSE ras.call_overflow
    BY <1>1, <1>2, <1>3, <1>5, <1>10 DEF Call, Stacks
  <2>3. /\ Len(r.callqueue) = len2
        /\ \A k \in 1..len2 :
              r.callqueue[k] = IF k = 1 THEN addr ELSE q[k - 1]
    <3>1. r = Call(capacity, ras, addr, UINT_SPACE)
      BY <1>2, <1>5
    <3>. HIDE DEF len2, full
    <3>2. /\ Len(r.callqueue) = IF Overflows(capacity, ras) THEN Len(ras.callqueue)
                               ELSE Len(ras.callqueue) + 1
          /\ \A k \in 1..Len(r.callqueue) :
                r.callqueue[k] = IF k = 1 THEN addr ELSE ras.callqueue[k - 1]
      <4>1. /\ capacity \in Int /\ capacity # 0
            /\ UINT_SPACE \in Nat \ {0} /\ ras \in Stacks(ReturnAddrs, UINT_SPACE)
        BY <1>1, <1>10
      <4>. QED  BY ONLY <4>1, <3>1, CallQueue, addr \in ReturnAddrs
    <3>. USE DEF len2, full
    <3>3. Len(r.callqueue) = len2
      BY <3>2 DEF q
    <3>. HIDE DEF len2
    <3>. QED  BY <3>2, <3>3 DEF q
  <2>. HIDE DEF full
  <2>4. len2 \in Nat /\ len2 >= 1 /\ len2 <= n + 1
        /\ (capacity >= 0 => len2 <= capacity)
    BY <1>1, <1>10, <2>1
  <2>5. ASSUME NEW k \in 1..(n + 1)
        PROVE  /\ (capacity < 0 \/ h[k] <= capacity) <=> k <= len2
               /\ k <= len2 => r.callqueue[k] = f[k]
    <3>1. CASE k = 1
      BY <1>1, <1>6, <1>10, <2>3, <2>4, <3>1
    <3>2. CASE k # 1
      <4>1. k \in 2..(n + 1) /\ k - 1 \in 1..n /\ k \in Nat /\ k >= 2
        BY <1>1, <3>2
      <4>2. /\ (capacity < 0 \/ reach[k - 1] <= capacity) <=> k - 1 <= Len(q)
            /\ k - 1 <= Len(q) => q[k - 1] = frames[k - 1]
            /\ reach[k - 1] \in Nat
        BY <1>4, <4>1 DEF Survives
      <4>3. h[k] = IF reach[k - 1] > k THEN reach[k - 1] ELSE k
        BY <1>6, <4>1
      <4>4. len2 = IF capacity > 0 /\ Len(q) >= capacity THEN Len(q) ELSE Len(q) + 1
        BY <2>1
      <4>5. capacity > 0 => Len(q) <= capacity
        BY <1>1
      <4>. HIDE DEF len2
      <4>6. (capacity < 0 \/ h[k] <= capacity) <=> k <= len2
        BY <1>1, <1>10, <4>1, <4>2, <4>3, <4>4, <4>5, SurvivalStep
      <4>7. k <= len2 => r.callqueue[k] = q[k - 1] /\ k - 1 <= Len(q)
        BY <1>1, <2>3, <2>4, <4>1, <4>4
      <4>8. f[k] = frames[k - 1]
        BY <1>6, <4>1
      <4>. QED  BY <4>2, <4>6, <4>7, <4>8
    <3>. QED  BY <3>1, <3>2
  <2>6. /\ len2 + r.call_overflow = Len(q) + ras.call_overflow + 1
        /\ r.call_overflow \in {ras.call_overflow, ras.call_overflow + 1}
    BY <1>1, <2>2 DEF Stacks
  <2>. QED  BY <2>2, <2>3, <2>4, <2>5, <2>6
<1>. QED  BY <1>9, <1>10

\* What a call makes of the maximum: the arithmetic of sizes and capacity.
LEMMA MaxsizeStep ==
    ASSUME NEW capacity0 \in Int, capacity0 # 0,
           NEW len \in Nat, capacity0 > 0 => len <= capacity0,
           NEW deep \in Nat, len <= deep, capacity0 > 0 => deep <= capacity0,
           NEW over \in Nat, NEW most \in Nat,
           most = IF capacity0 > 0 /\ over > 0 THEN capacity0 + 1 ELSE deep,
           NEW full \in BOOLEAN, full <=> capacity0 > 0 /\ len >= capacity0,
           NEW len2, len2 = IF full THEN len ELSE len + 1,
           NEW over2, over2 = IF full THEN over + 1 ELSE over,
           NEW most2, most2 = IF len + 1 > most THEN len + 1 ELSE most,
           NEW deep2, deep2 = IF len2 > deep THEN len2 ELSE deep
    PROVE  /\ most2 = IF capacity0 > 0 /\ over2 > 0 THEN capacity0 + 1 ELSE deep2
           /\ len2 <= deep2
           /\ capacity0 >= 0 => deep2 <= capacity0
OBVIOUS

\* A call keeps the maximum explained.
LEMMA CallKeepsMaxsize ==
    ASSUME RasInv, NEW addr \in ReturnAddrs, DoCall(addr)
    PROVE  MaxsizeExplained' /\ DepthBounds'
<1>. DEFINE q == ras.callqueue
            r == Call(capacity, ras, addr, UINT_SPACE)
<1>1. /\ capacity \in Int /\ UINT_SPACE \in Nat \ {0}
      /\ ras \in Stacks(ReturnAddrs, UINT_SPACE)
      /\ Len(q) \in Nat /\ deepest \in Nat
      /\ ras.call_overflow \in Nat /\ ras.maxsize \in Nat
      /\ Len(q) <= deepest
      /\ capacity >= 0 => Len(q) <= capacity /\ deepest <= capacity
      /\ ras.maxsize = IF capacity > 0 /\ ras.call_overflow > 0 THEN capacity + 1
                       ELSE deepest
  BY RasAssumption DEF RasInv, RasTypeOK, Stacks, DepthBounds, MaxsizeExplained
<1>2. /\ ras' = r /\ capacity' = capacity
      /\ deepest' = IF Len(ras'.callqueue) > deepest
                    THEN Len(ras'.callqueue) ELSE deepest
  BY DEF DoCall
<1>3. /\ ras.call_overflow + 1 < UINT_SPACE
      /\ Len(q) + 1 < UINT_SPACE
  <2>1. /\ ncalls \in Nat /\ nrets \in Nat /\ ncalls < MaxCalls
        /\ MaxCalls \in Nat /\ MaxCalls < UINT_SPACE
        /\ ras.call_overflow <= ncalls
        /\ ras.ret_underflow \in Nat /\ ras.ret_underflow <= nrets
    BY <1>1, RasAssumption DEF RasInv, RasTypeOK, Stacks, DoCall
  <2>2. ncalls - ras.call_overflow - Len(q) = nrets - ras.ret_underflow
    BY DEF RasInv, CallsAccountedFor
  <2>3. PICK c, o, l, t, u : /\ c = ncalls /\ o = ras.call_overflow /\ l = Len(q)
                             /\ t = nrets /\ u = ras.ret_underflow
    OBVIOUS
  <2>. HIDE DEF q
  <2>4. l + 1 < UINT_SPACE
    <3>1. /\ c \in Int /\ o \in Int /\ l \in Int /\ t \in Int /\ u \in Int
          /\ o >= 0 /\ u <= t /\ c < MaxCalls /\ c - o - l = t - u
      BY <1>1, <2>1, <2>2, <2>3
    <3>. QED  BY <1>1, <2>1, <3>1
  <2>. QED  BY <1>1, <2>1, <2>3, <2>4
<1>4. /\ (ras.call_overflow + 1) % UINT_SPACE = ras.call_overflow + 1
      /\ (Len(q) + 1) % UINT_SPACE = Len(q) + 1
  <2>1. ras.call_overflow + 1 \in Nat /\ Len(q) + 1 \in Nat
    BY <1>1
  <2>. HIDE DEF q
  <2>2. (ras.call_overflow + 1) % UINT_SPACE = ras.call_overflow + 1
    BY <1>1, <1>3, <2>1, NoWrap
  <2>3. (Len(q) + 1) % UINT_SPACE = Len(q) + 1
    BY <1>1, <1>3, <2>1, NoWrap
  <2>. QED  BY <2>2, <2>3
<1>5. CASE capacity = 0
  <2>1. /\ r.callqueue = q /\ r.maxsize = ras.maxsize
    BY <1>1, <1>5 DEF Call, Stacks
  <2>. QED  BY <1>1, <1>2, <1>5, <2>1 DEF MaxsizeExplained, DepthBounds
<1>6. CASE capacity # 0
  <2>. DEFINE full == Overflows(capacity, ras)
  <2>1. /\ full \in BOOLEAN
        /\ full <=> capacity > 0 /\ Len(q) >= capacity
    BY DEF Overflows
  <2>2. Len(r.callqueue) = IF full THEN Len(q) ELSE Len(q) + 1
    BY <1>1, <1>6, CallQueue
  <2>3. r.call_overflow = IF full THEN ras.call_overflow + 1 ELSE ras.call_overflow
    BY <1>1, <1>4, <1>6 DEF Call, Stacks
  <2>4. r.maxsize = IF Len(q) + 1 > ras.maxsize THEN Len(q) + 1 ELSE ras.maxsize
    <3>1. Len(<<addr>> \o q) = Len(q) + 1
      BY <1>1 DEF Stacks
    <3>. QED  BY <1>1, <1>4, <1>6, <3>1 DEF Call, Stacks
  <2>. HIDE DEF q, r, full
  <2>5. PICK len2, over2, most2, deep2 :
          /\ len2 = Len(r.callqueue) /\ over2 = r.call_overflow
          /\ most2 = r.maxsize /\ deep2 = deepest'
    OBVIOUS
  <2>6. deep2 = IF len2 > deepest THEN len2 ELSE deepest
    BY <1>2, <2>5
  <2>7. /\ most2 = IF capacity > 0 /\ over2 > 0 THEN capacity + 1 ELSE deep2
        /\ len2 <= deep2
        /\ capacity >= 0 => deep2 <= capacity
    BY <1>1, <1>6, <2>1, <2>2, <2>3, <2>4, <2>5, <2>6, MaxsizeStep
  <2>. QED  BY <1>2, <2>5, <2>7 DEF MaxsizeExplained, DepthBounds
<1>. QED  BY <1>5, <1>6

\* A call preserves the invariant.
LEMMA CallPreserves ==
    ASSUME RasInv, NEW addr \in ReturnAddrs, DoCall(addr)
    PROVE  RasInv'
<1>1. /\ frames' \in Seq(ReturnAddrs) /\ reach' \in Seq(Nat \ {0})
      /\ Len(reach') = Len(frames')
  BY FramesAfterCall DEF RasInv, RasTypeOK
<1>2. /\ ncalls < MaxCalls /\ ncalls' = ncalls + 1
      /\ capacity' = capacity /\ nrets' = nrets
      /\ deepest' = IF Len(ras'.callqueue) > deepest
                    THEN Len(ras'.callqueue) ELSE deepest
  BY DEF DoCall
<1>3. /\ ras \in Stacks(ReturnAddrs, UINT_SPACE) /\ ras' \in Stacks(ReturnAddrs, UINT_SPACE)
      /\ ras'.call_overflow \in {ras.call_overflow, ras.call_overflow + 1}
      /\ ras'.ret_underflow = ras.ret_underflow
  BY CallKeepsFrames DEF RasInv, RasTypeOK
<1>4. /\ Len(ras.callqueue) \in Nat /\ Len(ras'.callqueue) \in Nat
      /\ ras.call_overflow \in Nat /\ ras.ret_underflow \in Nat
  BY <1>3, RasAssumption DEF Stacks
<1>5. capacity >= 0 => Len(ras'.callqueue) <= capacity
  BY CallKeepsFrames
<1>6. deepest' \in Nat
  BY <1>2, <1>4 DEF RasInv, RasTypeOK
<1>7. ncalls' \in 0..MaxCalls /\ ras'.call_overflow <= ncalls'
  BY <1>2, <1>3, <1>4, RasAssumption DEF RasInv, RasTypeOK
<1>8. RasTypeOK'
  BY <1>1, <1>2, <1>3, <1>5, <1>6, <1>7 DEF RasInv, RasTypeOK
<1>9. CallsAccountedFor'
  <2>1. Len(ras'.callqueue) + ras'.call_overflow
          = Len(ras.callqueue) + ras.call_overflow + 1
    BY CallKeepsFrames
  <2>2. ncalls \in Nat /\ nrets \in Nat /\ ras'.call_overflow \in Nat
    BY <1>3, RasAssumption DEF RasInv, RasTypeOK, Stacks
  <2>3. ncalls - ras.call_overflow - Len(ras.callqueue) = nrets - ras.ret_underflow
    BY DEF RasInv, CallsAccountedFor
  <2>4. PICK c, o, l, t, u, o2, l2 :
          /\ c = ncalls /\ o = ras.call_overflow /\ l = Len(ras.callqueue)
          /\ t = nrets /\ u = ras.ret_underflow
          /\ o2 = ras'.call_overflow /\ l2 = Len(ras'.callqueue)
    OBVIOUS
  <2>5. (c + 1) - o2 - l2 = t - u
    <3>1. /\ c \in Int /\ o \in Int /\ l \in Int /\ t \in Int /\ u \in Int
          /\ o2 \in Int /\ l2 \in Int
          /\ c - o - l = t - u /\ l2 + o2 = l + o + 1
      BY <1>4, <2>1, <2>2, <2>3, <2>4
    <3>. QED  BY <3>1
  <2>. QED  BY <1>2, <1>3, <2>4, <2>5 DEF CallsAccountedFor
<1>10. StackIsSurvivingFrames'
  BY CallKeepsFrames
<1>11. MaxsizeExplained' /\ DepthBounds'
  BY CallKeepsMaxsize
<1>. QED  BY <1>8, <1>9, <1>10, <1>11 DEF RasInv

\* A return preserves the invariant: both stacks lose their top, if they have
\* one.
LEMMA ReturnPreserves == RasInv /\ DoReturn => RasInv'
<1>. SUFFICES ASSUME RasInv, DoReturn PROVE RasInv'
  OBVIOUS
<1>. DEFINE q == ras.callqueue
            n == Len(frames)
<1>1. /\ capacity \in Int /\ UINT_SPACE \in Nat \ {0}
      /\ ras \in Stacks(ReturnAddrs, UINT_SPACE)
      /\ q \in Seq(ReturnAddrs) /\ Len(q) \in Nat /\ Len(q) <= n
      /\ frames \in Seq(ReturnAddrs) /\ reach \in Seq(Nat \ {0})
      /\ n \in Nat /\ Len(reach) = n
      /\ capacity >= 0 => Len(q) <= capacity
      /\ ncalls \in 0..MaxCalls /\ nrets \in 0..MaxReturns /\ deepest \in Nat
      /\ ras.call_overflow \in Nat /\ ras.ret_underflow \in Nat
      /\ ras.call_overflow <= ncalls /\ ras.ret_underflow <= nrets
      /\ MaxCalls \in Nat /\ MaxReturns \in Nat /\ MaxReturns < UINT_SPACE
  BY RasAssumption DEF RasInv, RasTypeOK, Stacks, StackIsSurvivingFrames
<1>2. /\ nrets < MaxReturns /\ nrets' = nrets + 1
      /\ capacity' = capacity /\ ncalls' = ncalls /\ deepest' = deepest
      /\ ras' = Ret(ras, UINT_SPACE)
  BY DEF DoReturn
<1>3. ras' \in Stacks(ReturnAddrs, UINT_SPACE)
  BY <1>1, <1>2, RetType
<1>4. ncalls - ras.call_overflow - Len(q) = nrets - ras.ret_underflow
  BY DEF RasInv, CallsAccountedFor
<1>5. ASSUME NEW k \in 1..n
      PROVE  /\ Survives(k) <=> k <= Len(q)
             /\ k <= Len(q) => q[k] = frames[k]
  BY DEF RasInv, StackIsSurvivingFrames
<1>6. ras'.call_overflow = ras.call_overflow
  BY <1>1, <1>2 DEF Ret, Stacks
<1>9. MaxsizeExplained' /\ DepthBounds'
  <2>1. ras'.maxsize = ras.maxsize
    BY <1>1, <1>2 DEF Ret, Stacks
  <2>2. Len(ras'.callqueue) <= Len(q)
    BY <1>1, <1>2 DEF Ret, HasReturn, Stacks
  <2>3. Len(ras'.callqueue) \in Nat
    BY <1>3 DEF Stacks
  <2>4. /\ Len(q) <= deepest
        /\ capacity >= 0 => deepest <= capacity
        /\ ras.maxsize = IF capacity > 0 /\ ras.call_overflow > 0 THEN capacity + 1
                         ELSE deepest
    BY DEF RasInv, MaxsizeExplained, DepthBounds
  <2>. HIDE DEF q
  <2>5. Len(ras'.callqueue) <= deepest
    BY <1>1, <2>2, <2>3, <2>4
  <2>. QED  BY <1>2, <1>6, <2>1, <2>4, <2>5 DEF MaxsizeExplained, DepthBounds
<1>7. CASE q = << >>
  <2>1. /\ ras'.callqueue = << >>
        /\ ras'.ret_underflow = ras.ret_underflow + 1
    <3>1. (ras.ret_underflow + 1) % UINT_SPACE = ras.ret_underflow + 1
      <4>1. ras.ret_underflow + 1 \in Nat /\ ras.ret_underflow + 1 < UINT_SPACE
        BY <1>1, <1>2
      <4>. QED  BY <1>1, <4>1, NoWrap
    <3>. QED  BY <1>1, <1>2, <1>7, <3>1 DEF Ret, HasReturn, Stacks
  <2>2. /\ frames' \in Seq(ReturnAddrs) /\ reach' \in Seq(Nat \ {0})
        /\ Len(reach') = Len(frames') /\ Len(frames') \in Nat
        /\ \A k \in 1..Len(frames') : ~(capacity < 0 \/ reach'[k] <= capacity)
    <3>1. CASE frames = << >>
      BY <1>1, <3>1 DEF DoReturn
    <3>2. CASE frames # << >>
      <4>1. frames' = Tail(frames) /\ reach' = Tail(reach)
        BY <3>2 DEF DoReturn
      <4>2. /\ n > 0
            /\ frames' \in Seq(ReturnAddrs) /\ Len(frames') = n - 1
            /\ reach' \in Seq(Nat \ {0}) /\ Len(reach') = n - 1
            /\ \A k \in 1..(n - 1) : reach'[k] = reach[k + 1]
        BY <1>1, <3>2, <4>1
      <4>3. ASSUME NEW k \in 1..(n - 1)
            PROVE  ~(capacity < 0 \/ reach'[k] <= capacity)
        <5>1. k + 1 \in 1..n /\ ~(k + 1 <= Len(q))
          BY <1>1, <1>7
        <5>. QED  BY <1>5, <4>2, <5>1 DEF Survives
      <4>. QED  BY <1>1, <4>2, <4>3
    <3>. QED  BY <3>1, <3>2
  <2>3. RasTypeOK'
    BY <1>1, <1>2, <1>3, <1>6, <2>1, <2>2 DEF RasTypeOK, RasInv
  <2>4. StackIsSurvivingFrames'
    <3>1. Len(ras'.callqueue) = 0
      BY <2>1
    <3>2. \A k \in 1..Len(frames') : k \in Nat /\ ~(k <= 0)
      BY <2>2
    <3>. QED  BY <1>2, <2>2, <3>1, <3>2 DEF StackIsSurvivingFrames, Survives
  <2>5. CallsAccountedFor'
    <3>1. PICK c, o, t, u : /\ c = ncalls /\ o = ras.call_overflow
                            /\ t = nrets /\ u = ras.ret_underflow
      OBVIOUS
    <3>2. /\ c \in Int /\ o \in Int /\ t \in Int /\ u \in Int
          /\ c - o - 0 = t - u
      BY <1>1, <1>4, <1>7, <3>1
    <3>3. c - o - 0 = (t + 1) - (u + 1)
      BY <3>2
    <3>4. Len(ras'.callqueue) = 0
      BY <2>1
    <3>. HIDE DEF q
    <3>. QED  BY <1>2, <1>6, <2>1, <3>1, <3>3, <3>4 DEF CallsAccountedFor
  <2>. QED  BY <1>9, <2>3, <2>4, <2>5 DEF RasInv
<1>8. CASE q # << >>
  <2>1. /\ ras'.callqueue = Tail(q)
        /\ ras'.ret_underflow = ras.ret_underflow
    BY <1>1, <1>2, <1>8 DEF Ret, HasReturn, Stacks
  <2>2. /\ Len(q) > 0 /\ n > 0
        /\ Len(ras'.callqueue) = Len(q) - 1
        /\ \A k \in 1..(Len(q) - 1) : ras'.callqueue[k] = q[k + 1]
    BY <1>1, <1>8, <2>1
  <2>3. frames' = Tail(frames) /\ reach' = Tail(reach)
    BY <1>1, <2>2 DEF DoReturn
  <2>4. /\ frames' \in Seq(ReturnAddrs) /\ Len(frames') = n - 1
        /\ reach' \in Seq(Nat \ {0}) /\ Len(reach') = n - 1
        /\ \A k \in 1..(n - 1) : /\ frames'[k] = frames[k + 1]
                                  /\ reach'[k] = reach[k + 1]
    BY <1>1, <2>2, <2>3
  <2>5. RasTypeOK'
    <3>1. capacity' \in Capacities
      BY <1>2 DEF RasTypeOK, RasInv
    <3>2. /\ ncalls' \in 0..MaxCalls /\ nrets' \in 0..MaxReturns /\ deepest' \in Nat
          /\ ras'.ret_underflow <= nrets'
      BY <1>1, <1>2, <2>1
    <3>3. ras'.call_overflow <= ncalls'
      BY <1>1, <1>2, <1>6
    <3>4. capacity' >= 0 => Len(ras'.callqueue) <= capacity'
      BY <1>1, <1>2, <2>2
    <3>5. Len(reach') = Len(frames')
      BY <2>4
    <3>. QED  BY <1>3, <2>4, <3>1, <3>2, <3>3, <3>4, <3>5 DEF RasTypeOK
  <2>6. ASSUME NEW k \in 1..Len(frames')
        PROVE  /\ (capacity' < 0 \/ reach'[k] <= capacity')
                     <=> k <= Len(ras'.callqueue)
               /\ k <= Len(ras'.callqueue) => ras'.callqueue[k] = frames'[k]
    <3>1. k \in 1..(n - 1) /\ k + 1 \in 1..n /\ k \in Nat
      BY <1>1, <2>4
    <3>2. /\ (capacity < 0 \/ reach[k + 1] <= capacity) <=> k + 1 <= Len(q)
          /\ k + 1 <= Len(q) => q[k + 1] = frames[k + 1]
      BY <1>5, <3>1 DEF Survives
    <3>3. k + 1 <= Len(q) <=> k <= Len(q) - 1
      BY <1>1, <3>1
    <3>4. frames'[k] = frames[k + 1] /\ reach'[k] = reach[k + 1]
      BY <2>4, <3>1
    <3>. HIDE DEF q, n
    <3>5. k <= Len(q) - 1 => ras'.callqueue[k] = q[k + 1]
      BY <1>1, <2>2, <3>1
    <3>. QED  BY <1>2, <2>2, <3>2, <3>3, <3>4, <3>5
  <2>7. StackIsSurvivingFrames'
    <3>1. Len(ras'.callqueue) <= Len(frames')
      BY <1>1, <2>2, <2>4
    <3>. QED  BY <2>6, <3>1 DEF StackIsSurvivingFrames, Survives
  <2>8. CallsAccountedFor'
    <3>1. PICK c, o, l, t, u : /\ c = ncalls /\ o = ras.call_overflow
                               /\ l = Len(q) /\ t = nrets /\ u = ras.ret_underflow
      OBVIOUS
    <3>2. /\ c \in Int /\ o \in Int /\ l \in Int /\ t \in Int /\ u \in Int
          /\ c - o - l = t - u
      BY <1>1, <1>4, <3>1
    <3>3. c - o - (l - 1) = (t + 1) - u
      BY <3>2
    <3>. HIDE DEF q
    <3>. QED  BY <1>2, <1>6, <2>1, <2>2, <3>1, <3>3 DEF CallsAccountedFor
  <2>. QED  BY <1>9, <2>5, <2>7, <2>8 DEF RasInv
<1>. QED  BY <1>7, <1>8

\* The invariant holds in every reachable state.
THEOREM RasInvariant == RasSpec => []RasInv
<1>1. RasInv /\ [RasNext]_rasVars => RasInv'
  <2>. SUFFICES ASSUME RasInv, [RasNext]_rasVars PROVE RasInv'
    OBVIOUS
  <2>1. CASE \E addr \in ReturnAddrs : DoCall(addr)
    BY <2>1, CallPreserves
  <2>2. CASE DoReturn
    BY <2>2, ReturnPreserves
  <2>3. CASE UNCHANGED rasVars
    BY <2>3 DEF rasVars, RasInv, RasTypeOK, StackIsSurvivingFrames, Survives,
                CallsAccountedFor, MaxsizeExplained, DepthBounds
  <2>. QED  BY <2>1, <2>2, <2>3 DEF RasNext
<1>. QED  BY RasInvInit, <1>1, PTL DEF RasSpec

\* The stack keeps its shape and never holds more than its capacity.
THEOREM RasTypeCorrect == RasSpec => []RasTypeOK
<1>1. RasInv => RasTypeOK
  BY DEF RasInv
<1>. QED  BY <1>1, RasInvariant, PTL

\* The predictor's stack is, address by address, the part of the program's call
\* stack that was never buried deeper than the capacity.
THEOREM RasSurvivors == RasSpec => []StackIsSurvivingFrames
<1>1. RasInv => StackIsSurvivingFrames
  BY DEF RasInv
<1>. QED  BY <1>1, RasInvariant, PTL

\* No call is lost uncounted, and maxsize is the deepest stack or one too many.
THEOREM RasStatistics == RasSpec => []StatisticsAddUp
<1>1. RasInv => StatisticsAddUp
  BY DEF RasInv, StatisticsAddUp
<1>. QED  BY <1>1, RasInvariant, PTL
================================================================================
