--------------------------- MODULE ReplacementPolicy ---------------------------
(***************************************************************************)
(* Class ReplacementPolicy of predictor.cc: which way of a cache set is    *)
(* given up next.  An object is its array of counters, a function from     *)
(* ways to integers; the number of ways and the algorithm are parameters,  *)
(* fixed when the object is built.                                         *)
(*                                                                         *)
(*   WAY_LRU     counter[w] is the number of ways used more recently than  *)
(*               w, so the counters are a permutation of 0..numways-1      *)
(*   WAY_RROBIN  only counter[0] is used: it is the next victim            *)
(*                                                                         *)
(* Definitions named X_Y, here and in the other modules, are variants: X   *)
(* with a plausible mistake Y.  No specification uses them; they exist to  *)
(* see that the properties would notice the mistake.                       *)
(***************************************************************************)
EXTENDS Integers

WAY_RROBIN == 0
WAY_LRU == 1

Algorithms == {WAY_RROBIN, WAY_LRU}

Ways(numways) == 0..(numways - 1)

\* The constructor numbers the counters from 0.
NewCounters(numways) == [w \in Ways(numways) |-> w]

\* Variant: the used way keeps its age.
Touch_NoReset(algorithm, counters, used) ==
    IF algorithm = WAY_LRU
    THEN [w \in DOMAIN counters |->
            IF counters[w] < counters[used] THEN counters[w] + 1 ELSE counters[w]]
    ELSE counters

\* update(way_used): under LRU every way younger than the used one ages by one.
Touch(algorithm, counters, used) ==
    IF algorithm = WAY_LRU
    THEN [w \in DOMAIN counters |->
            IF w = used THEN 0
            ELSE IF counters[w] < counters[used] THEN counters[w] + 1
            ELSE counters[w]]
    ELSE counters

\* The ways replace() may return under LRU: its loop returns the first of them,
\* and falls into assert(0) when there is none.
Oldest(counters, numways) == {w \in DOMAIN counters : counters[w] = numways - 1}

\* The way replace() returns.
Victim(algorithm, counters, numways) ==
    IF algorithm = WAY_RROBIN
    THEN counters[0]
    ELSE CHOOSE w \in Oldest(counters, numways) :
            \A v \in Oldest(counters, numways) : w <= v

\* Variant: the round robin counter does not wrap.
Replaced_NoWrap(algorithm, counters, numways) ==
    IF algorithm = WAY_RROBIN
    THEN [counters EXCEPT ![0] = @ + 1]
    ELSE Touch(algorithm, counters, Victim(algorithm, counters, numways))

\* The state replace() leaves behind.
Replaced(algorithm, counters, numways) ==
    IF algorithm = WAY_RROBIN
    THEN [counters EXCEPT ![0] = (@ + 1) % numways]
    ELSE Touch(algorithm, counters, Victim(algorithm, counters, numways))

\* Every counter value is held by exactly one way.
IsPermutation(counters, numways) ==
    /\ counters \in [Ways(numways) -> Ways(numways)]
    /\ \A v, w \in Ways(numways) : counters[v] = counters[w] => v = w
    /\ \A n \in Ways(numways) : \E w \in Ways(numways) : counters[w] = n

\* What a policy needs for replace() to be defined: under LRU some counter
\* always equals numways-1, under round robin counter 0 always names a way.
PolicyReady(algorithm, counters, numways) ==
    /\ counters \in [Ways(numways) -> Ways(numways)]
    /\ algorithm = WAY_LRU => IsPermutation(counters, numways)
================================================================================
