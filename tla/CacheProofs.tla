------------------------------ MODULE CacheProofs -------------------------------
(***************************************************************************)
(* What the operations of the replacement policy and of one BTB_CACHE      *)
(* preserve and achieve, for every number of ways and every geometry:      *)
(* lemmas for the proofs about the machines built from them.               *)
(***************************************************************************)
EXTENDS BtbCache, TLAPS, WellFoundedInduction

--------------------------------------------------------------------------------
(* The policy.  The counters under LRU are a permutation of 0..numways-1, use  *)
(* and replacement keep them one, and so the loop of replace() always finds a  *)
(* victim.                                                                     *)

\* Every nonempty set of naturals has a least element: the first match of a
\* loop over ways exists as soon as there is a match.
LEMMA LeastExists ==
    ASSUME NEW S \in SUBSET Nat, S # {}
    PROVE  \E x \in S : \A y \in S : x <= y
<1>1. IsWellFoundedOn(OpToRel(<, Nat), Nat)
  BY NatLessThanWellFounded
<1>2. PICK x \in S : \A y \in S : <<y, x>> \notin OpToRel(<, Nat)
  BY <1>1, WFMin
<1>3. ASSUME NEW y \in S
      PROVE  x <= y
  <2>1. x \in Nat /\ y \in Nat
    OBVIOUS
  <2>2. ~(y < x)
    BY <1>2, <2>1 DEF OpToRel
  <2>. QED  BY <2>1, <2>2
<1>. QED  BY <1>2, <1>3

\* A new policy is ready, under either algorithm.
LEMMA NewReady ==
    ASSUME NEW n \in Nat \ {0}, NEW algorithm \in Algorithms
    PROVE  PolicyReady(algorithm, NewCounters(n), n)
BY DEF PolicyReady, IsPermutation, NewCounters, Ways

\* Using a way permutes the counters again.
LEMMA TouchPermutes ==
    ASSUME NEW n \in Nat \ {0}, NEW c, IsPermutation(c, n), NEW used \in Ways(n)
    PROVE  IsPermutation(Touch(WAY_LRU, c, used), n)
<1>. DEFINE d == Touch(WAY_LRU, c, used)
<1>1. c \in [Ways(n) -> Ways(n)]
  BY DEF IsPermutation
<1>2. /\ d = [w \in Ways(n) |-> d[w]]
      /\ \A w \in Ways(n) :
            d[w] = IF w = used THEN 0
                   ELSE IF c[w] < c[used] THEN c[w] + 1 ELSE c[w]
  BY <1>1 DEF Touch
<1>. HIDE DEF d
<1>3. \A w \in Ways(n) : w \in Int /\ 0 <= w /\ w < n
  BY DEF Ways
<1>4. \A w \in Ways(n) : c[w] \in Int /\ 0 <= c[w] /\ c[w] < n
  BY <1>1, <1>3
<1>5. ASSUME NEW w \in Ways(n)
      PROVE  d[w] \in Ways(n)
  BY <1>2, <1>4 DEF Ways
<1>6. ASSUME NEW v \in Ways(n), NEW w \in Ways(n), d[v] = d[w]
      PROVE  v = w
  <2>1. c[v] = c[w] => v = w
    BY DEF IsPermutation
  <2>2. c[used] = c[v] => used = v
    BY DEF IsPermutation
  <2>3. c[used] = c[w] => used = w
    BY DEF IsPermutation
  <2>4. c[used] \in Int /\ c[v] \in Int /\ c[w] \in Int /\ c[v] >= 0 /\ c[w] >= 0
    BY <1>4
  <2>5. /\ v = used => d[v] = 0
        /\ v # used /\ c[v] < c[used] => d[v] = c[v] + 1
        /\ v # used /\ ~(c[v] < c[used]) => d[v] = c[v]
    BY <1>2
  <2>6. /\ w = used => d[w] = 0
        /\ w # used /\ c[w] < c[used] => d[w] = c[w] + 1
        /\ w # used /\ ~(c[w] < c[used]) => d[w] = c[w]
    BY <1>2
  <2>7. d[v] = d[w]
    BY <1>6
  <2>8. ASSUME v # w
        PROVE  c[v] # c[w] /\ (w # used => c[used] # c[w]) /\ (v # used => c[used] # c[v])
    BY <2>1, <2>2, <2>3, <2>8
  <2>. QED  BY <2>4, <2>5, <2>6, <2>7, <2>8
<1>7. ASSUME NEW m \in Ways(n)
      PROVE  \E w \in Ways(n) : d[w] = m
  <2>. m \in Int /\ m >= 0 /\ m < n
    BY <1>3
  <2>1. CASE m = 0
    BY <1>2, <2>1
  <2>2. CASE m > 0 /\ m <= c[used]
    <3>1. m - 1 \in Ways(n)
      BY <2>2 DEF Ways
    <3>2. PICK v \in Ways(n) : c[v] = m - 1
      BY <3>1 DEF IsPermutation
    <3>3. c[v] < c[used] /\ v # used
      BY <1>4, <2>2, <3>2
    <3>4. d[v] = m
      BY <1>2, <3>2, <3>3
    <3>. QED  BY <3>4
  <2>3. CASE m > c[used]
    <3>1. PICK v \in Ways(n) : c[v] = m
      BY DEF IsPermutation
    <3>2. ~(c[v] < c[used]) /\ v # used
      BY <1>4, <2>3, <3>1
    <3>3. d[v] = m
      BY <1>2, <3>1, <3>2
    <3>. QED  BY <3>3
  <2>. QED  BY <1>4, <2>1, <2>2, <2>3
<1>8. d \in [Ways(n) -> Ways(n)]
  BY <1>2, <1>5
<1>. QED  BY <1>6, <1>7, <1>8 DEF d, IsPermutation

\* Using a way keeps a policy ready.
LEMMA TouchReady ==
    ASSUME NEW n \in Nat \ {0}, NEW algorithm \in Algorithms, NEW c,
           PolicyReady(algorithm, c, n), NEW used \in Ways(n)
    PROVE  PolicyReady(algorithm, Touch(algorithm, c, used), n)
<1>1. CASE algorithm = WAY_LRU
  <2>1. IsPermutation(Touch(WAY_LRU, c, used), n)
    BY <1>1, TouchPermutes DEF PolicyReady
  <2>. QED  BY <1>1, <2>1 DEF PolicyReady, IsPermutation
<1>2. CASE algorithm # WAY_LRU
  BY <1>2 DEF PolicyReady, Touch
<1>. QED  BY <1>1, <1>2

\* A ready policy has a victim, and it is a way: replace() does not reach its
\* assert(0).
LEMMA VictimIsWay ==
    ASSUME NEW n \in Nat \ {0}, NEW algorithm \in Algorithms, NEW c,
           PolicyReady(algorithm, c, n)
    PROVE  Victim(algorithm, c, n) \in Ways(n)
<1>1. CASE algorithm = WAY_RROBIN
  BY <1>1 DEF PolicyReady, Victim, Ways
<1>2. CASE algorithm = WAY_LRU
  <2>. DEFINE O == Oldest(c, n)
  <2>1. O \subseteq Ways(n)
    BY DEF Oldest, PolicyReady
  <2>2. n - 1 \in Ways(n)
    BY DEF Ways
  <2>3. O # {}
    BY <1>2, <2>2 DEF PolicyReady, IsPermutation, Oldest
  <2>4. O \in SUBSET Nat
    BY <2>1 DEF Ways
  <2>5. \E w \in O : \A v \in O : w <= v
    BY <2>3, <2>4, LeastExists
  <2>6. Victim(algorithm, c, n) \in O
    BY <1>2, <2>5 DEF Victim, WAY_LRU, WAY_RROBIN
  <2>. QED  BY <2>1, <2>6
<1>. QED  BY <1>1, <1>2 DEF Algorithms

\* Replacing keeps a policy ready.
LEMMA ReplacedReady ==
    ASSUME NEW n \in Nat \ {0}, NEW algorithm \in Algorithms, NEW c,
           PolicyReady(algorithm, c, n)
    PROVE  PolicyReady(algorithm, Replaced(algorithm, c, n), n)
<1>1. CASE algorithm = WAY_RROBIN
  <2>1. Replaced(algorithm, c, n) \in [Ways(n) -> Ways(n)]
    <3>1. 0 \in Ways(n) /\ (c[0] + 1) % n \in Ways(n)
      BY DEF PolicyReady, Ways
    <3>. QED  BY <1>1, <3>1 DEF Replaced, PolicyReady
  <2>. QED  BY <1>1, <2>1 DEF PolicyReady, WAY_LRU, WAY_RROBIN
<1>2. CASE algorithm = WAY_LRU
  <2>1. Replaced(algorithm, c, n) = Touch(algorithm, c, Victim(algorithm, c, n))
    BY <1>2 DEF Replaced, WAY_LRU, WAY_RROBIN
  <2>. QED  BY <2>1, TouchReady, VictimIsWay
<1>. QED  BY <1>1, <1>2 DEF Algorithms

--------------------------------------------------------------------------------
(* The cache *)

\* EMPTY is a uint.
LEMMA UintFacts ==
    /\ EMPTY \in Uint
    /\ 0 \in Uint
    /\ Garbage \subseteq Uint
    /\ Uint \subseteq Nat
BY SpaceAssumption DEF Uint, EMPTY

\* The index of an address is a set of the cache.
LEMMA IndexIsSet ==
    ASSUME NEW g \in Geometries, Enabled(g), NEW addr \in Uint
    PROVE  Index(g, addr) \in Sets(g)
BY UintFacts DEF Geometries, Enabled, Index, Sets

\* A tag fits in a uint, and only the address EMPTY can have the tag EMPTY.
LEMMA TagIsUint ==
    ASSUME NEW g \in Geometries, Enabled(g), NEW addr \in Uint
    PROVE  /\ Tag(g, addr) \in Uint
           /\ addr # EMPTY => Tag(g, addr) # EMPTY
<1>. g.btbsize \in Nat \ {0}
  BY DEF Geometries, Enabled
<1>. addr \in Nat /\ addr < ADDR_SPACE
  BY SpaceAssumption DEF Uint
<1>1. Tag(g, addr) \in Nat /\ Tag(g, addr) <= addr
  BY DEF Tag
<1>2. Tag(g, addr) = addr \/ Tag(g, addr) < addr
  BY <1>1
<1>. QED  BY <1>1, <1>2, SpaceAssumption DEF Uint, EMPTY

\* What update() rebuilds from a slot is a uint.
LEMMA AddrOfIsUint ==
    ASSUME NEW g \in Geometries, NEW index \in Nat, NEW tag \in Uint
    PROVE  AddrOf(g, index, tag) \in Uint
<1>1. index + tag * g.btbsize \in Int
  BY UintFacts DEF Geometries
<1>. QED  BY <1>1, SpaceAssumption DEF AddrOf, Uint

\* It is the address that was put there: index and tag determine an address.
LEMMA AddressRebuilt ==
    ASSUME NEW g \in Geometries, Enabled(g), NEW addr \in Uint
    PROVE  AddrOf(g, Index(g, addr), Tag(g, addr)) = addr
<1>. g.btbsize \in Nat \ {0}
  BY DEF Geometries, Enabled
<1>. addr \in Nat /\ addr < ADDR_SPACE
  BY SpaceAssumption DEF Uint
<1>1. Index(g, addr) + Tag(g, addr) * g.btbsize = addr
  BY DEF Index, Tag
<1>2. addr % ADDR_SPACE = addr
  BY SpaceAssumption
<1>. QED  BY <1>1, <1>2 DEF AddrOf

\* The invariant of a cache object: its shape, usable policies, one slot per
\* address.
CacheOK(g, c) ==
    /\ CacheType(g, c)
    /\ PoliciesReady(g, c)
    /\ NoDuplicates(g, c)

\* The shape of a cache, field by field.
LEMMA CacheFields ==
    ASSUME NEW g, NEW c, CacheType(g, c)
    PROVE  /\ c = [tags |-> c.tags, targets |-> c.targets,
                   counters |-> c.counters, nummissed |-> c.nummissed]
           /\ c.tags \in [Sets(g) -> [Ways(g.numways) -> Uint]]
           /\ c.targets \in [Sets(g) -> [Ways(g.numways) -> Uint]]
           /\ c.counters \in [Sets(g) -> [Ways(g.numways) -> Ways(g.numways)]]
           /\ c.nummissed \in 0..(STAT_SPACE - 1)
BY DEF CacheType

\* A new cache, whatever malloc returned, satisfies the invariant.
LEMMA NewCacheOK ==
    ASSUME NEW g \in Geometries, NEW c \in NewCaches(g)
    PROVE  CacheOK(g, c)
<1>. g.numways \in Nat \ {0} /\ g.algorithm \in Algorithms
  BY DEF Geometries
<1>1. PICK garbage \in [Sets(g) -> [Ways(g.numways) -> Garbage]],
           n \in IF Enabled(g) THEN {0} ELSE {x % STAT_SPACE : x \in Garbage} :
        c = [tags |-> [s \in Sets(g) |-> [w \in Ways(g.numways) |-> EMPTY]],
             targets |-> garbage,
             counters |-> [s \in Sets(g) |-> NewCounters(g.numways)],
             nummissed |-> n]
  BY DEF NewCaches
<1>2. n \in 0..(STAT_SPACE - 1)
  <2>1. CASE Enabled(g)
    BY <2>1, SpaceAssumption
  <2>2. CASE ~Enabled(g)
    <3>1. PICK x \in Garbage : n = x % STAT_SPACE
      BY <2>2
    <3>2. x \in Nat
      BY UintFacts
    <3>. QED  BY <3>1, <3>2, SpaceAssumption
  <2>. QED  BY <2>1, <2>2
<1>3. garbage \in [Sets(g) -> [Ways(g.numways) -> Uint]]
  BY UintFacts
<1>4. PolicyReady(g.algorithm, NewCounters(g.numways), g.numways)
  BY NewReady
<1>5. CacheType(g, c)
  BY <1>1, <1>2, <1>3, <1>4, UintFacts DEF CacheType, PolicyReady
<1>6. PoliciesReady(g, c)
  BY <1>1, <1>4 DEF PoliciesReady
<1>7. NoDuplicates(g, c)
  BY <1>1 DEF NoDuplicates
<1>. QED  BY <1>5, <1>6, <1>7 DEF CacheOK

\* A hit has a first matching way.
LEMMA FirstMatchIsMatch ==
    ASSUME NEW g \in Geometries, NEW c, NEW addr, Hit(g, c, addr)
    PROVE  /\ FirstMatch(g, c, addr) \in Ways(g.numways)
           /\ c.tags[Index(g, addr)][FirstMatch(g, c, addr)] = Tag(g, addr)
<1>. DEFINE M == Matches(g, c, addr)
<1>1. M \subseteq Ways(g.numways) /\ M # {}
  BY DEF Hit, Matches
<1>2. M \in SUBSET Nat
  BY <1>1 DEF Ways, Geometries
<1>3. \E w \in M : \A v \in M : w <= v
  BY <1>1, <1>2, LeastExists
<1>4. FirstMatch(g, c, addr) \in M
  BY <1>3 DEF FirstMatch
<1>. QED  BY <1>4 DEF Matches

\* A lookup that hits reads a uint.
LEMMA LookupIsUint ==
    ASSUME NEW g \in Geometries, NEW c, CacheType(g, c), NEW addr \in Uint,
           Hit(g, c, addr)
    PROVE  Lookup(g, c, addr) \in Uint
<1>1. Index(g, addr) \in Sets(g)
  BY IndexIsSet DEF Hit
<1>. QED  BY <1>1, FirstMatchIsMatch, CacheFields DEF Lookup

\* Touching one row of the counters keeps the invariant.
LEMMA RefreshedOK ==
    ASSUME NEW g \in Geometries, NEW c, CacheOK(g, c), NEW addr \in Uint,
           Hit(g, c, addr)
    PROVE  CacheOK(g, Refreshed(g, c, addr))
<1>. DEFINE s == Index(g, addr)
            d == Refreshed(g, c, addr)
            row == Touch(g.algorithm, c.counters[s], FirstMatch(g, c, addr))
<1>. g.numways \in Nat \ {0} /\ g.algorithm \in Algorithms
  BY DEF Geometries
<1>1. s \in Sets(g)
  BY IndexIsSet DEF Hit
<1>2. PolicyReady(g.algorithm, row, g.numways)
  BY <1>1, FirstMatchIsMatch, TouchReady DEF CacheOK, PoliciesReady
<1>3. /\ d.tags = c.tags
      /\ d.targets = c.targets
      /\ d.counters = [c.counters EXCEPT ![s] = row]
      /\ d.nummissed = c.nummissed
      /\ d = [tags |-> d.tags, targets |-> d.targets,
              counters |-> d.counters, nummissed |-> d.nummissed]
  <2>1. c = [tags |-> c.tags, targets |-> c.targets,
             counters |-> c.counters, nummissed |-> c.nummissed]
    BY CacheFields DEF CacheOK
  <2>2. d = [c EXCEPT !.counters = [@ EXCEPT ![s] = row]]
    BY DEF Refreshed
  <2>. HIDE DEF d, row, s
  <2>. QED  BY <2>1, <2>2
<1>4. CacheType(g, d)
  <2>1. row \in [Ways(g.numways) -> Ways(g.numways)]
    BY <1>2 DEF PolicyReady
  <2>2. c.counters \in [Sets(g) -> [Ways(g.numways) -> Ways(g.numways)]]
    BY CacheFields DEF CacheOK
  <2>3. d.counters \in [Sets(g) -> [Ways(g.numways) -> Ways(g.numways)]]
    <3>. HIDE DEF row, d, s
    <3>. QED  BY <1>3, <2>1, <2>2
  <2>. QED  BY <1>3, <2>3, CacheFields DEF CacheOK, CacheType
<1>5. PoliciesReady(g, d)
  BY <1>1, <1>2, <1>3, CacheFields DEF CacheOK, PoliciesReady
<1>6. NoDuplicates(g, d)
  BY <1>3 DEF CacheOK, NoDuplicates
<1>. QED  BY <1>4, <1>5, <1>6 DEF CacheOK

\* The way a miss overwrites, and what the cache looks like afterwards.
InsertWay(g, c, addr) ==
    Victim(g.algorithm, c.counters[Index(g, addr)], g.numways)

IsInsertion(g, c, addr, target, s, w, d) ==
    /\ s \in Sets(g)
    /\ w \in Ways(g.numways)
    /\ d = [tags |-> d.tags, targets |-> d.targets,
            counters |-> d.counters, nummissed |-> d.nummissed]
    /\ d.tags = [c.tags EXCEPT ![s] = [@ EXCEPT ![w] = Tag(g, addr)]]
    /\ d.targets = [c.targets EXCEPT ![s] = [@ EXCEPT ![w] = target]]
    /\ d.counters = [c.counters EXCEPT ![s] =
                         Replaced(g.algorithm, @, g.numways)]
    /\ d.nummissed = c.nummissed
    /\ PolicyReady(g.algorithm, d.counters[s], g.numways)

LEMMA InsertedFields ==
    ASSUME NEW g \in Geometries, NEW c, CacheOK(g, c), Enabled(g),
           NEW addr \in Uint, NEW target \in Uint,
           NEW s, s = Index(g, addr), NEW w, w = InsertWay(g, c, addr),
           NEW d, d = Inserted(g, c, addr, target).cache
    PROVE  IsInsertion(g, c, addr, target, s, w, d)
<1>. g.numways \in Nat \ {0} /\ g.algorithm \in Algorithms
  BY DEF Geometries
<1>1. s \in Sets(g)
  BY IndexIsSet
<1>2. PolicyReady(g.algorithm, c.counters[s], g.numways)
  BY <1>1 DEF CacheOK, PoliciesReady
<1>3. w \in Ways(g.numways)
  BY <1>2, VictimIsWay DEF InsertWay
<1>4. d = [tags      |-> [c.tags EXCEPT ![s] = [@ EXCEPT ![w] = Tag(g, addr)]],
           targets   |-> [c.targets EXCEPT ![s] = [@ EXCEPT ![w] = target]],
           counters  |-> [c.counters EXCEPT ![s] =
                             Replaced(g.algorithm, @, g.numways)],
           nummissed |-> c.nummissed]
  BY DEF Inserted, InsertWay
<1>5. d.counters[s] = Replaced(g.algorithm, c.counters[s], g.numways)
  BY <1>1, <1>4, CacheFields DEF CacheOK
<1>6. PolicyReady(g.algorithm, d.counters[s], g.numways)
  BY <1>2, <1>5, ReplacedReady
<1>. QED  BY <1>1, <1>3, <1>4, <1>6 DEF IsInsertion

\* Overwriting the victim of a miss keeps the invariant; that the address was
\* not there is what keeps its slot unique.
LEMMA InsertedOK ==
    ASSUME NEW g \in Geometries, NEW c, CacheOK(g, c), Enabled(g),
           NEW addr \in Uint, NEW target \in Uint, ~Hit(g, c, addr)
    PROVE  CacheOK(g, Inserted(g, c, addr, target).cache)
<1>1. PICK s, w, d : /\ s = Index(g, addr)
                     /\ w = InsertWay(g, c, addr)
                     /\ d = Inserted(g, c, addr, target).cache
  OBVIOUS
<1>2. IsInsertion(g, c, addr, target, s, w, d)
  BY <1>1, InsertedFields
<1>. USE <1>2 DEF IsInsertion
<1>3. Tag(g, addr) \in Uint
  BY TagIsUint
<1>4. CacheType(g, d)
  <2>1. d.counters[s] \in [Ways(g.numways) -> Ways(g.numways)]
    BY <1>2 DEF PolicyReady
  <2>2. d.counters \in [Sets(g) -> [Ways(g.numways) -> Ways(g.numways)]]
    BY <1>2, <2>1, CacheFields DEF CacheOK
  <2>3. d.tags \in [Sets(g) -> [Ways(g.numways) -> Uint]]
    BY <1>2, <1>3, CacheFields DEF CacheOK
  <2>4. d.targets \in [Sets(g) -> [Ways(g.numways) -> Uint]]
    BY <1>2, CacheFields DEF CacheOK
  <2>. QED  BY <1>2, <2>2, <2>3, <2>4, CacheFields DEF CacheOK, CacheType
<1>5. PoliciesReady(g, d)
  BY <1>2, CacheFields DEF CacheOK, PoliciesReady
<1>6. NoDuplicates(g, d)
  <2>. SUFFICES ASSUME NEW t \in Sets(g),
                       NEW u \in Ways(g.numways), NEW v \in Ways(g.numways),
                       d.tags[t][u] = d.tags[t][v], d.tags[t][u] # EMPTY
                PROVE  u = v
    BY DEF NoDuplicates
  <2>. \A x \in Sets(g) : c.tags[x] \in [Ways(g.numways) -> Uint]
    BY CacheFields DEF CacheOK
  <2>1. CASE t # s
    <3>1. d.tags[t] = c.tags[t]
      BY <1>2, <2>1, CacheFields DEF CacheOK
    <3>. QED  BY <3>1 DEF CacheOK, NoDuplicates
  <2>2. CASE t = s
    <3>1. d.tags[s] = [c.tags[s] EXCEPT ![w] = Tag(g, addr)]
      BY <1>2, CacheFields DEF CacheOK
    <3>2. \A x \in Ways(g.numways) : c.tags[s][x] # Tag(g, addr)
      BY <1>1 DEF Hit, Matches
    <3>3. c.tags[s][u] = c.tags[s][v] /\ c.tags[s][u] # EMPTY => u = v
      BY <1>2 DEF CacheOK, NoDuplicates
    <3>. QED  BY <1>2, <2>2, <3>1, <3>2, <3>3
  <2>. QED  BY <2>1, <2>2
<1>. QED  BY <1>1, <1>4, <1>5, <1>6 DEF CacheOK

\* update() keeps the invariant, and what it reports as evicted are uints.
LEMMA UpdateOK ==
    ASSUME NEW g \in Geometries, NEW c, CacheOK(g, c),
           NEW addr \in Uint, NEW target \in Uint
    PROVE  /\ CacheOK(g, Update(g, c, addr, target).cache)
           /\ Update(g, c, addr, target).stored \in BOOLEAN
           /\ Update(g, c, addr, target).evicted_addr \in Uint
           /\ Update(g, c, addr, target).evicted_target \in Uint
<1>1. CASE ~Enabled(g)
  BY <1>1, UintFacts DEF Update, Untouched
<1>2. CASE Enabled(g) /\ ~Fits(g, addr, target)
  <2>. DEFINE d == [c EXCEPT !.nummissed = (@ + 1) % STAT_SPACE]
  <2>1. /\ d.tags = c.tags
        /\ d.targets = c.targets
        /\ d.counters = c.counters
        /\ d = [tags |-> d.tags, targets |-> d.targets,
                counters |-> d.counters, nummissed |-> d.nummissed]
        /\ d.nummissed = (c.nummissed + 1) % STAT_SPACE
    BY CacheFields DEF CacheOK
  <2>2. d.nummissed \in 0..(STAT_SPACE - 1)
    BY <2>1, CacheFields, SpaceAssumption DEF CacheOK
  <2>. HIDE DEF d
  <2>3. CacheOK(g, d)
    BY <2>1, <2>2, CacheFields DEF CacheOK, CacheType, PoliciesReady, NoDuplicates
  <2>. QED  BY <1>2, <2>3, UintFacts DEF d, Update, Untouched
<1>3. CASE Enabled(g) /\ Fits(g, addr, target) /\ Hit(g, c, addr)
  BY <1>3, RefreshedOK, UintFacts DEF Update, Untouched
<1>4. CASE Enabled(g) /\ Fits(g, addr, target) /\ ~Hit(g, c, addr)
  <2>. DEFINE s == Index(g, addr)
              w == InsertWay(g, c, addr)
  <2>1. s \in Sets(g) /\ w \in Ways(g.numways)
    BY <1>4, InsertedFields DEF IsInsertion
  <2>2. c.tags[s][w] \in Uint /\ c.targets[s][w] \in Uint
    BY <2>1, CacheFields DEF CacheOK
  <2>3. AddrOf(g, s, c.tags[s][w]) \in Uint
    BY <2>1, <2>2, AddrOfIsUint DEF Sets
  <2>4. Update(g, c, addr, target) = Inserted(g, c, addr, target)
    BY <1>4 DEF Update
  <2>5. /\ Inserted(g, c, addr, target).stored = TRUE
        /\ Inserted(g, c, addr, target).evicted_addr =
              IF c.targets[s][w] # EMPTY THEN AddrOf(g, s, c.tags[s][w]) ELSE 0
        /\ Inserted(g, c, addr, target).evicted_target =
              IF c.targets[s][w] # EMPTY THEN c.targets[s][w] ELSE 0
    BY DEF Inserted, InsertWay, EvictedAddr, EvictedTarget, InUse
  <2>. QED  BY <1>4, <2>2, <2>3, <2>4, <2>5, InsertedOK, UintFacts
<1>. QED  BY <1>1, <1>2, <1>3, <1>4

\* A pair the cache may hold is found afterwards, whatever was there before.
LEMMA UpdateHits ==
    ASSUME NEW g \in Geometries, NEW c, CacheOK(g, c), Enabled(g),
           NEW addr \in Uint, NEW target \in Uint, Fits(g, addr, target)
    PROVE  Hit(g, Update(g, c, addr, target).cache, addr)
<1>1. CASE Hit(g, c, addr)
  <2>1. Refreshed(g, c, addr).tags = c.tags
    BY CacheFields DEF CacheOK, Refreshed
  <2>2. Update(g, c, addr, target).cache = Refreshed(g, c, addr)
    BY <1>1 DEF Update, Untouched
  <2>. QED  BY <1>1, <2>1, <2>2 DEF Hit, Matches
<1>2. CASE ~Hit(g, c, addr)
  <2>1. PICK s, w, d : /\ s = Index(g, addr)
                       /\ w = InsertWay(g, c, addr)
                       /\ d = Inserted(g, c, addr, target).cache
    OBVIOUS
  <2>2. IsInsertion(g, c, addr, target, s, w, d)
    BY <2>1, InsertedFields
  <2>3. c.tags[s] \in [Ways(g.numways) -> Uint] /\ s \in DOMAIN c.tags
    BY <2>2, CacheFields DEF CacheOK, IsInsertion
  <2>4. d.tags[s][w] = Tag(g, addr)
    BY <2>2, <2>3 DEF IsInsertion
  <2>5. Update(g, c, addr, target).cache = d
    BY <1>2, <2>1 DEF Update
  <2>. QED  BY <2>1, <2>2, <2>4, <2>5 DEF Hit, Matches, IsInsertion
<1>. QED  BY <1>1, <1>2

\* An enabled cache accepts exactly the pairs that fit.
LEMMA UpdateStores ==
    ASSUME NEW g, NEW c, NEW addr, NEW target
    PROVE  Update(g, c, addr, target).stored
                <=> Enabled(g) /\ Fits(g, addr, target)
BY DEF Update, Untouched, Inserted

\* An entry, spelled out.
LEMMA EntryOf ==
    ASSUME NEW g, NEW c, NEW e
    PROVE  e \in Entries(g, c) <=>
            \E s \in Sets(g), w \in Ways(g.numways) :
                /\ c.tags[s][w] # EMPTY
                /\ e = <<AddrOf(g, s, c.tags[s][w]), c.targets[s][w]>>
<1>. DEFINE P == {q \in Sets(g) \X Ways(g.numways) : c.tags[q[1]][q[2]] # EMPTY}
            F(p) == <<AddrOf(g, p[1], c.tags[p[1]][p[2]]), c.targets[p[1]][p[2]]>>
<1>1. Entries(g, c) = {F(p) : p \in P}
  BY DEF Entries
<1>2. ASSUME e \in Entries(g, c)
      PROVE  \E s \in Sets(g), w \in Ways(g.numways) :
                c.tags[s][w] # EMPTY /\ e = F(<<s, w>>)
  <2>1. PICK p \in P : e = F(p)
    BY <1>1, <1>2
  <2>2. /\ p[1] \in Sets(g) /\ p[2] \in Ways(g.numways)
        /\ p = <<p[1], p[2]>>
        /\ c.tags[p[1]][p[2]] # EMPTY
    OBVIOUS
  <2>. QED  BY <2>1, <2>2
<1>3. ASSUME NEW s \in Sets(g), NEW w \in Ways(g.numways),
             c.tags[s][w] # EMPTY, e = F(<<s, w>>)
      PROVE  e \in Entries(g, c)
  <2>1. <<s, w>> \in P
    BY <1>3
  <2>. HIDE DEF P, F
  <2>. QED  BY <1>1, <1>3, <2>1
<1>. QED  BY <1>2, <1>3

\* update() adds no entry but the pair it was given.
LEMMA UpdateEntries ==
    ASSUME NEW g \in Geometries, NEW c, CacheOK(g, c),
           NEW addr \in Uint, NEW target \in Uint,
           NEW e \in Entries(g, Update(g, c, addr, target).cache)
    PROVE  e \in Entries(g, c) \/ e = <<addr, target>>
<1>. DEFINE d == Update(g, c, addr, target).cache
<1>1. PICK t \in Sets(g), v \in Ways(g.numways) :
        /\ d.tags[t][v] # EMPTY
        /\ e = <<AddrOf(g, t, d.tags[t][v]), d.targets[t][v]>>
  BY EntryOf
<1>2. CASE d.tags = c.tags /\ d.targets = c.targets
  BY <1>1, <1>2, EntryOf
<1>3. CASE Enabled(g) /\ Fits(g, addr, target) /\ ~Hit(g, c, addr)
  <2>1. PICK s, w, i : /\ s = Index(g, addr)
                       /\ w = InsertWay(g, c, addr)
                       /\ i = Inserted(g, c, addr, target).cache
    OBVIOUS
  <2>2. IsInsertion(g, c, addr, target, s, w, i)
    BY <1>3, <2>1, InsertedFields
  <2>3. d = i
    BY <1>3, <2>1 DEF Update
  <2>. HIDE DEF d
  <2>4. c.tags \in [Sets(g) -> [Ways(g.numways) -> Uint]]
        /\ c.targets \in [Sets(g) -> [Ways(g.numways) -> Uint]]
    BY CacheFields DEF CacheOK
  <2>5. CASE t = s /\ v = w
    <3>1. d.tags[t][v] = Tag(g, addr) /\ d.targets[t][v] = target
      BY <2>2, <2>3, <2>4, <2>5 DEF IsInsertion
    <3>. QED  BY <1>1, <1>3, <2>1, <2>5, <3>1, AddressRebuilt
  <2>6. CASE ~(t = s /\ v = w)
    <3>1. d.tags[t][v] = c.tags[t][v] /\ d.targets[t][v] = c.targets[t][v]
      BY <2>2, <2>3, <2>4, <2>6 DEF IsInsertion
    <3>. QED  BY <1>1, <3>1, EntryOf
  <2>. QED  BY <2>5, <2>6
<1>4. CASE ~(Enabled(g) /\ Fits(g, addr, target) /\ ~Hit(g, c, addr))
  <2>1. \/ d = c
        \/ d = [c EXCEPT !.nummissed = (@ + 1) % STAT_SPACE]
        \/ d = Refreshed(g, c, addr)
    BY <1>4 DEF Update, Untouched
  <2>. HIDE DEF d
  <2>2. d.tags = c.tags /\ d.targets = c.targets
    BY <2>1, CacheFields DEF CacheOK, Refreshed
  <2>. QED  BY <1>2, <2>2 DEF d
<1>. QED  BY <1>3, <1>4

\* Slots never written still hold what malloc left in them.
UnwrittenHoldGarbage(g, c) ==
    \A s \in Sets(g), w \in Ways(g.numways) :
        c.tags[s][w] = EMPTY => c.targets[s][w] \in Garbage

LEMMA NewHoldsGarbage ==
    ASSUME NEW g, NEW c \in NewCaches(g)
    PROVE  UnwrittenHoldGarbage(g, c) /\ Entries(g, c) = {}
<1>1. PICK garbage \in [Sets(g) -> [Ways(g.numways) -> Garbage]],
           n \in IF Enabled(g) THEN {0} ELSE {x % STAT_SPACE : x \in Garbage} :
        c = [tags |-> [s \in Sets(g) |-> [w \in Ways(g.numways) |-> EMPTY]],
             targets |-> garbage,
             counters |-> [s \in Sets(g) |-> NewCounters(g.numways)],
             nummissed |-> n]
  BY DEF NewCaches
<1>2. UnwrittenHoldGarbage(g, c)
  BY <1>1 DEF UnwrittenHoldGarbage
<1>3. \A e : e \notin Entries(g, c)
  BY <1>1, EntryOf
<1>. QED  BY <1>2, <1>3

LEMMA UpdateKeepsGarbage ==
    ASSUME NEW g \in Geometries, NEW c, CacheOK(g, c),
           NEW addr \in Uint \ {EMPTY}, NEW target \in Uint,
           UnwrittenHoldGarbage(g, c)
    PROVE  UnwrittenHoldGarbage(g, Update(g, c, addr, target).cache)
<1>. DEFINE d == Update(g, c, addr, target).cache
<1>1. CASE Enabled(g) /\ Fits(g, addr, target) /\ ~Hit(g, c, addr)
  <2>1. PICK s, w, i : /\ s = Index(g, addr)
                       /\ w = InsertWay(g, c, addr)
                       /\ i = Inserted(g, c, addr, target).cache
    OBVIOUS
  <2>2. IsInsertion(g, c, addr, target, s, w, i)
    BY <1>1, <2>1, InsertedFields
  <2>3. d = i
    BY <1>1, <2>1 DEF Update
  <2>. HIDE DEF d
  <2>4. c.tags \in [Sets(g) -> [Ways(g.numways) -> Uint]]
        /\ c.targets \in [Sets(g) -> [Ways(g.numways) -> Uint]]
    BY CacheFields DEF CacheOK
  <2>5. Tag(g, addr) # EMPTY
    BY <1>1, TagIsUint
  <2>6. ASSUME NEW t \in Sets(g), NEW v \in Ways(g.numways),
               d.tags[t][v] = EMPTY
        PROVE  d.targets[t][v] \in Garbage
    <3>1. ~(t = s /\ v = w)
      BY <2>2, <2>3, <2>4, <2>5, <2>6 DEF IsInsertion
    <3>2. d.tags[t][v] = c.tags[t][v] /\ d.targets[t][v] = c.targets[t][v]
      BY <2>2, <2>3, <2>4, <3>1 DEF IsInsertion
    <3>. QED  BY <2>6, <3>2 DEF UnwrittenHoldGarbage
  <2>. QED  BY <2>6 DEF UnwrittenHoldGarbage, d
<1>2. CASE ~(Enabled(g) /\ Fits(g, addr, target) /\ ~Hit(g, c, addr))
  <2>1. \/ d = c
        \/ d = [c EXCEPT !.nummissed = (@ + 1) % STAT_SPACE]
        \/ d = Refreshed(g, c, addr)
    BY <1>2 DEF Update, Untouched
  <2>. HIDE DEF d
  <2>2. d.tags = c.tags /\ d.targets = c.targets
    BY <2>1, CacheFields DEF CacheOK, Refreshed
  <2>. QED  BY <2>2 DEF UnwrittenHoldGarbage, d
<1>. QED  BY <1>1, <1>2

\* What update() reports as evicted was an entry, or is made from a slot never
\* written: the pair the phantom comes from.
LEMMA ReportedWasHeld ==
    ASSUME NEW g \in Geometries, NEW c, CacheOK(g, c), UnwrittenHoldGarbage(g, c),
           NEW addr \in Uint, NEW target \in Uint,
           NEW r, r = Update(g, c, addr, target), r.evicted_addr # 0
    PROVE  \/ <<r.evicted_addr, r.evicted_target>> \in Entries(g, c)
           \/ /\ r.evicted_target \in Garbage
              /\ \E s \in Sets(g) : r.evicted_addr = AddrOf(g, s, EMPTY)
<1>. DEFINE s == Index(g, addr)
            w == InsertWay(g, c, addr)
<1>1. Enabled(g) /\ Fits(g, addr, target) /\ ~Hit(g, c, addr)
  BY DEF Update, Untouched
<1>2. s \in Sets(g) /\ w \in Ways(g.numways)
  BY <1>1, InsertedFields DEF IsInsertion
<1>3. /\ r.evicted_addr =
            IF c.targets[s][w] # EMPTY THEN AddrOf(g, s, c.tags[s][w]) ELSE 0
      /\ r.evicted_target =
            IF c.targets[s][w] # EMPTY THEN c.targets[s][w] ELSE 0
  BY <1>1 DEF Update, Inserted, InsertWay, EvictedAddr, EvictedTarget, InUse
<1>4. /\ r.evicted_addr = AddrOf(g, s, c.tags[s][w])
      /\ r.evicted_target = c.targets[s][w]
  BY <1>3
<1>. HIDE DEF s, w
<1>5. CASE c.tags[s][w] = EMPTY
  BY <1>2, <1>4, <1>5 DEF UnwrittenHoldGarbage
<1>6. CASE c.tags[s][w] # EMPTY
  BY <1>2, <1>4, <1>6, EntryOf
<1>. QED  BY <1>5, <1>6

--------------------------------------------------------------------------------
(* What an update does to the target of an address *)

\* A way that has the tag of an address is its only match, so the one read.
LEMMA MatchIsFirst ==
    ASSUME NEW g \in Geometries, NEW c, CacheOK(g, c), Enabled(g),
           NEW a \in Uint \ {EMPTY}, NEW w \in Ways(g.numways),
           c.tags[Index(g, a)][w] = Tag(g, a)
    PROVE  Hit(g, c, a) /\ FirstMatch(g, c, a) = w
<1>1. Hit(g, c, a)
  BY DEF Hit, Matches
<1>2. Index(g, a) \in Sets(g) /\ Tag(g, a) # EMPTY
  BY IndexIsSet, TagIsUint
<1>3. /\ FirstMatch(g, c, a) \in Ways(g.numways)
      /\ c.tags[Index(g, a)][FirstMatch(g, c, a)] = Tag(g, a)
  BY <1>1, FirstMatchIsMatch
<1>. QED  BY <1>1, <1>2, <1>3 DEF CacheOK, NoDuplicates

\* The slots after an insertion: the victim holds the new pair, all others what
\* they held.
IsInsertionAt(g, c, addr, target, s, w, d) ==
    /\ s \in Sets(g) /\ w \in Ways(g.numways)
    /\ d.tags[s][w] = Tag(g, addr)
    /\ d.targets[s][w] = target
    /\ \A t \in Sets(g), v \in Ways(g.numways) :
            t # s \/ v # w => /\ d.tags[t][v] = c.tags[t][v]
                              /\ d.targets[t][v] = c.targets[t][v]

LEMMA InsertionSlots ==
    ASSUME NEW g \in Geometries, NEW c, CacheOK(g, c), NEW d,
           NEW addr \in Uint, NEW target \in Uint, NEW s, NEW w,
           IsInsertion(g, c, addr, target, s, w, d)
    PROVE  IsInsertionAt(g, c, addr, target, s, w, d)
<1>1. /\ c.tags \in [Sets(g) -> [Ways(g.numways) -> Uint]]
      /\ c.targets \in [Sets(g) -> [Ways(g.numways) -> Uint]]
  BY CacheFields DEF CacheOK
<1>. QED  BY <1>1 DEF IsInsertion, IsInsertionAt

\* An update leaves tags and targets alone, or overwrites one slot.
LEMMA UpdateShape ==
    ASSUME NEW g \in Geometries, NEW c, CacheOK(g, c),
           NEW addr \in Uint, NEW target \in Uint,
           NEW r, r = Update(g, c, addr, target)
    PROVE  \/ /\ r.cache.tags = c.tags
              /\ r.cache.targets = c.targets
              /\ r.evicted_addr = 0 /\ r.evicted_target = 0
           \/ /\ Enabled(g) /\ Fits(g, addr, target) /\ ~Hit(g, c, addr)
              /\ r = Inserted(g, c, addr, target)
              /\ IsInsertionAt(g, c, addr, target, Index(g, addr),
                               InsertWay(g, c, addr), r.cache)
<1>1. CASE ~Enabled(g)
  BY <1>1 DEF Update, Untouched
<1>2. CASE Enabled(g) /\ ~Fits(g, addr, target)
  BY <1>2, CacheFields DEF CacheOK, Update, Untouched
<1>3. CASE Enabled(g) /\ Fits(g, addr, target) /\ Hit(g, c, addr)
  BY <1>3, CacheFields DEF CacheOK, Update, Untouched, Refreshed
<1>4. CASE Enabled(g) /\ Fits(g, addr, target) /\ ~Hit(g, c, addr)
  <2>1. r = Inserted(g, c, addr, target)
    BY <1>4 DEF Update
  <2>2. IsInsertion(g, c, addr, target, Index(g, addr),
                    InsertWay(g, c, addr), r.cache)
    BY <1>4, <2>1, InsertedFields
  <2>3. IsInsertionAt(g, c, addr, target, Index(g, addr),
                      InsertWay(g, c, addr), r.cache)
    BY <2>2, InsertionSlots
  <2>. QED  BY <1>4, <2>1, <2>3
<1>. QED  BY <1>1, <1>2, <1>3, <1>4

\* An address that was cached and still is has its old target.
LEMMA UpdateKeepsTarget ==
    ASSUME NEW g \in Geometries, NEW c, CacheOK(g, c),
           NEW addr \in Uint, NEW target \in Uint, NEW a \in Uint \ {EMPTY},
           NEW d, d = Update(g, c, addr, target).cache,
           Hit(g, c, a), Hit(g, d, a)
    PROVE  Lookup(g, d, a) = Lookup(g, c, a)
<1>1. CASE d.tags = c.tags /\ d.targets = c.targets
  BY <1>1 DEF Lookup, FirstMatch, Matches
<1>2. CASE /\ Enabled(g) /\ ~Hit(g, c, addr)
           /\ IsInsertionAt(g, c, addr, target, Index(g, addr),
                            InsertWay(g, c, addr), d)
  <2>. DEFINE s == Index(g, addr)
              w == InsertWay(g, c, addr)
              i == Index(g, a)
              v == FirstMatch(g, d, a)
  <2>1. i \in Sets(g) /\ a \in Uint
    BY <1>2, IndexIsSet
  <2>2. v \in Ways(g.numways) /\ d.tags[i][v] = Tag(g, a)
    BY FirstMatchIsMatch
  <2>3. ~(i = s /\ v = w)
    <3>. SUFFICES ASSUME i = s, v = w PROVE FALSE
      OBVIOUS
    <3>1. Tag(g, a) = Tag(g, addr)
      BY <1>2, <2>2 DEF IsInsertionAt
    <3>2. a = addr
      BY <1>2, <2>1, <3>1, AddressRebuilt
    <3>. QED  BY <1>2, <3>2
  <2>4. \A t \in Sets(g), u \in Ways(g.numways) :
            t # s \/ u # w => d.tags[t][u] = c.tags[t][u]
                              /\ d.targets[t][u] = c.targets[t][u]
    BY <1>2 DEF IsInsertionAt
  <2>5. FirstMatch(g, c, a) = v /\ d.targets[i][v] = c.targets[i][v]
    <3>. HIDE DEF s, w, v
    <3>1. c.tags[i][v] = Tag(g, a) /\ d.targets[i][v] = c.targets[i][v]
      BY <2>1, <2>2, <2>3, <2>4
    <3>. QED  BY <1>2, <2>2, <3>1, MatchIsFirst
  <2>. QED  BY <2>5 DEF Lookup
<1>. QED  BY <1>1, <1>2, UpdateShape

\* An address that was cached and no longer is was reported as evicted with its
\* target, unless that is the one that means "nothing written".
LEMMA LostIsReported ==
    ASSUME NEW g \in Geometries, NEW c, CacheOK(g, c),
           NEW addr \in Uint, NEW target \in Uint, NEW a \in Uint \ {EMPTY},
           NEW r, r = Update(g, c, addr, target),
           Hit(g, c, a), ~Hit(g, r.cache, a), Lookup(g, c, a) # EMPTY
    PROVE  r.evicted_addr = a /\ r.evicted_target = Lookup(g, c, a)
<1>1. CASE r.cache.tags = c.tags
  BY <1>1 DEF Hit, Matches
<1>2. CASE /\ Enabled(g)
           /\ r = Inserted(g, c, addr, target)
           /\ IsInsertionAt(g, c, addr, target, Index(g, addr),
                            InsertWay(g, c, addr), r.cache)
  <2>. DEFINE s == Index(g, addr)
              w == InsertWay(g, c, addr)
              i == Index(g, a)
              v == FirstMatch(g, c, a)
  <2>1. i \in Sets(g) /\ a \in Uint
    BY <1>2, IndexIsSet
  <2>2. v \in Ways(g.numways) /\ c.tags[i][v] = Tag(g, a)
    BY FirstMatchIsMatch
  <2>3. i = s /\ v = w
    <3>. SUFFICES ASSUME ~(i = s /\ v = w) PROVE FALSE
      OBVIOUS
    <3>1. \A t \in Sets(g), u \in Ways(g.numways) :
            t # s \/ u # w => r.cache.tags[t][u] = c.tags[t][u]
      BY <1>2 DEF IsInsertionAt
    <3>2. r.cache.tags[i][v] = c.tags[i][v]
      <4>. HIDE DEF s, w, v
      <4>. QED  BY <2>1, <2>2, <3>1
    <3>. QED  BY <1>2, <2>2, <3>2 DEF Hit, Matches
  <2>4. c.targets[s][w] # EMPTY
    BY <2>3 DEF Lookup
  <2>5. r.evicted_addr = AddrOf(g, s, c.tags[s][w]) /\ r.evicted_target = c.targets[s][w]
    BY <1>2, <2>4 DEF Inserted, InsertWay, EvictedAddr, EvictedTarget, InUse
  <2>6. AddrOf(g, i, Tag(g, a)) = a
    BY <1>2, <2>1, AddressRebuilt
  <2>. QED  BY <2>2, <2>3, <2>5, <2>6 DEF Lookup
<1>. QED  BY <1>1, <1>2, UpdateShape

\* A pair that was not cached and fits is cached as it is.
LEMMA MissStoresTarget ==
    ASSUME NEW g \in Geometries, NEW c, CacheOK(g, c), Enabled(g),
           NEW addr \in Uint \ {EMPTY}, NEW target \in Uint,
           Fits(g, addr, target), ~Hit(g, c, addr),
           NEW d, d = Update(g, c, addr, target).cache
    PROVE  Lookup(g, d, addr) = target
<1>. DEFINE s == Index(g, addr)
            w == InsertWay(g, c, addr)
<1>. addr \in Uint
  OBVIOUS
<1>1. d = Inserted(g, c, addr, target).cache
  BY DEF Update
<1>2. IsInsertionAt(g, c, addr, target, s, w, d)
  <2>1. IsInsertion(g, c, addr, target, s, w, d)
    BY <1>1, InsertedFields
  <2>. QED  BY <2>1, InsertionSlots
<1>3. CacheOK(g, d)
  BY UpdateOK
<1>4. /\ w \in Ways(g.numways)
      /\ d.tags[s][w] = Tag(g, addr)
      /\ d.targets[s][w] = target
  BY <1>2 DEF IsInsertionAt
<1>. HIDE DEF w
<1>5. FirstMatch(g, d, addr) = w
  BY <1>3, <1>4, MatchIsFirst
<1>. QED  BY <1>4, <1>5 DEF Lookup
================================================================================
