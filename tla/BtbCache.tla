------------------------------- MODULE BtbCache --------------------------------
(***************************************************************************)
(* Class BTB_CACHE of predictor.cc, an N-way set-associative table from    *)
(* branch addresses to branch targets.  A cache object is a record c of    *)
(* its arrays, one row per set; its geometry is a record g fixed by the    *)
(* constructor:                                                            *)
(*                                                                         *)
(*   g.btbsize           sets, 2^indexbits; 0 for the object of the        *)
(*                       default constructor, which holds nothing          *)
(*   g.numways           ways of a set                                     *)
(*   g.displacementbits  width of the stored displacement; 32 when whole   *)
(*                       targets are stored                                *)
(*   g.algorithm         the replacement policy of every set               *)
(*                                                                         *)
(* The index of an address is its low indexbits bits and its tag the rest, *)
(* so both are written with % and \div by btbsize.                         *)
(***************************************************************************)
EXTENDS ReplacementPolicy

CONSTANTS
    ADDR_SPACE,     \* number of values of a uint: 2^32
    STAT_SPACE,     \* where the statistics counters wrap: 2^32
    Garbage         \* what malloc may leave in the targets array

ASSUME SpaceAssumption ==
    /\ ADDR_SPACE \in Nat \ {0}
    /\ STAT_SPACE \in Nat \ {0}
    /\ Garbage \subseteq 0..(ADDR_SPACE - 1)

Uint == 0..(ADDR_SPACE - 1)

\* 0xffffffff: the tag of a slot never written, and the test for "was used".
EMPTY == ADDR_SPACE - 1

Geometries == [btbsize : Nat, numways : Nat \ {0},
               displacementbits : 1..32, algorithm : Algorithms]

Enabled(g) == g.btbsize > 0
Sets(g) == 0..(g.btbsize - 1)

Index(g, addr) == addr % g.btbsize
Tag(g, addr) == addr \div g.btbsize

\* Variant: as if the shift had more than 32 bits to go to.
AddrOf_NoTruncation(g, index, tag) == index + tag * g.btbsize

\* The address an evicted slot stood for, rebuilt with uint shifts.
AddrOf(g, index, tag) == (index + tag * g.btbsize) % ADDR_SPACE

\* The constructor writes the tags and the policies and leaves the targets as
\* malloc returned them; the default constructor does not write nummissed.
NewCaches(g) ==
    { [tags      |-> [s \in Sets(g) |-> [w \in Ways(g.numways) |-> EMPTY]],
       targets   |-> garbage,
       counters  |-> [s \in Sets(g) |-> NewCounters(g.numways)],
       nummissed |-> n] :
         garbage \in [Sets(g) -> [Ways(g.numways) -> Garbage]],
         n \in IF Enabled(g) THEN {0} ELSE {x % STAT_SPACE : x \in Garbage} }

\* The displacement test.  delta is unsigned, so a target below its branch
\* has a huge delta and the test against mindisp never fires.
Fits(g, addr, target) ==
    \/ g.displacementbits = 32
    \/ (target - addr) % ADDR_SPACE <= 2^(g.displacementbits - 1) - 1

\* The ways of addr's set whose tag is addr's tag.
Matches(g, c, addr) ==
    {w \in Ways(g.numways) : c.tags[Index(g, addr)][w] = Tag(g, addr)}

\* predict(): does it find the address, and the target it reads.
Hit(g, c, addr) == Enabled(g) /\ Matches(g, c, addr) # {}

FirstMatch(g, c, addr) ==
    CHOOSE w \in Matches(g, c, addr) : \A v \in Matches(g, c, addr) : w <= v

Lookup(g, c, addr) == c.targets[Index(g, addr)][FirstMatch(g, c, addr)]

\* What update() returns: the new cache, its result, and its two out
\* parameters, which the callers initialise to 0.
Untouched(c, stored) ==
    [cache |-> c, stored |-> stored, evicted_addr |-> 0, evicted_target |-> 0]

\* Variant: a hit is not recorded.
Refreshed_Forgotten(g, c, addr) == c

\* A hit refreshes the recency of the way and not its target.
Refreshed(g, c, addr) ==
    [c EXCEPT !.counters[Index(g, addr)] =
        Touch(g.algorithm, @, FirstMatch(g, c, addr))]

\* Whether a victim is reported is decided by its old target, written or not.
InUse(c, s, w) == c.targets[s][w] # EMPTY

\* Variant: the tag is not shifted back into place.
EvictedAddr_NoShift(g, c, s, w) ==
    IF InUse(c, s, w) THEN (s + c.tags[s][w]) % ADDR_SPACE ELSE 0

EvictedAddr(g, c, s, w) ==
    IF InUse(c, s, w) THEN AddrOf(g, s, c.tags[s][w]) ELSE 0

EvictedTarget(c, s, w) == IF InUse(c, s, w) THEN c.targets[s][w] ELSE 0

\* A miss overwrites the policy's victim.
Inserted(g, c, addr, target) ==
    LET s == Index(g, addr)
        w == Victim(g.algorithm, c.counters[s], g.numways)
    IN  [cache |->
            [tags      |-> [c.tags EXCEPT ![s][w] = Tag(g, addr)],
             targets   |-> [c.targets EXCEPT ![s][w] = target],
             counters  |-> [c.counters EXCEPT ![s] =
                               Replaced(g.algorithm, @, g.numways)],
             nummissed |-> c.nummissed],
         stored |-> TRUE,
         evicted_addr |-> EvictedAddr(g, c, s, w),
         evicted_target |-> EvictedTarget(c, s, w)]

\* Variant: the search for the address is left out.
Update_NoSearch(g, c, addr, target) ==
    IF ~Enabled(g) THEN Untouched(c, FALSE)
    ELSE IF ~Fits(g, addr, target)
         THEN Untouched([c EXCEPT !.nummissed = (@ + 1) % STAT_SPACE], FALSE)
    ELSE Inserted(g, c, addr, target)

\* Variant: a hit stores the new target.
Update_Overwrites(g, c, addr, target) ==
    IF ~Enabled(g) THEN Untouched(c, FALSE)
    ELSE IF ~Fits(g, addr, target)
         THEN Untouched([c EXCEPT !.nummissed = (@ + 1) % STAT_SPACE], FALSE)
    ELSE IF Hit(g, c, addr)
         THEN Untouched([Refreshed(g, c, addr) EXCEPT
                    !.targets[Index(g, addr)][FirstMatch(g, c, addr)] = target],
                TRUE)
    ELSE Inserted(g, c, addr, target)

\* update(addr, target, evicted_addr, evicted_target), in the code's order.
Update(g, c, addr, target) ==
    IF ~Enabled(g) THEN Untouched(c, FALSE)
    ELSE IF ~Fits(g, addr, target)
         THEN Untouched([c EXCEPT !.nummissed = (@ + 1) % STAT_SPACE], FALSE)
    ELSE IF Hit(g, c, addr) THEN Untouched(Refreshed(g, c, addr), TRUE)
    ELSE Inserted(g, c, addr, target)

\* The shape of a cache of geometry g.
CacheType(g, c) ==
    c \in [tags      : [Sets(g) -> [Ways(g.numways) -> Uint]],
           targets   : [Sets(g) -> [Ways(g.numways) -> Uint]],
           counters  : [Sets(g) -> [Ways(g.numways) -> Ways(g.numways)]],
           nummissed : 0..(STAT_SPACE - 1)]

PoliciesReady(g, c) ==
    \A s \in Sets(g) : PolicyReady(g.algorithm, c.counters[s], g.numways)

\* No address occupies two ways of its set.
NoDuplicates(g, c) ==
    \A s \in Sets(g) : \A v, w \in Ways(g.numways) :
        c.tags[s][v] = c.tags[s][w] /\ c.tags[s][v] # EMPTY => v = w

\* The (address, target) pairs a cache holds, and the slots nothing was
\* written to, as the pairs the eviction test would report for them.
Entries(g, c) ==
    { <<AddrOf(g, p[1], c.tags[p[1]][p[2]]), c.targets[p[1]][p[2]]>> :
        p \in {q \in Sets(g) \X Ways(g.numways) : c.tags[q[1]][q[2]] # EMPTY} }
================================================================================
