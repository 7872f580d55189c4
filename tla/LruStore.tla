-------------------------------- MODULE LruStore --------------------------------
(***************************************************************************)
(* What a set-associative target store promises, with no ways, tags or     *)
(* counters: every set keeps its most recent entries, most recent first,   *)
(* and an entry keeps the target it was admitted with for as long as it    *)
(* stays.  "Recent" is by last use under LRU and by admission under round  *)
(* robin.  CacheMachine implements this specification.                     *)
(***************************************************************************)
EXTENDS Integers, Sequences, SequencesExt

CONSTANTS
    Geometries,         \* the geometries a store may have
    Addrs, Targets,     \* what it is used for
    Fits(_, _, _)       \* Fits(g, addr, target): the set may hold the pair

VARIABLES
    geometry,
    store,              \* set index -> sequence of <<addr, target>>
    pair                \* what it was last used for

vars == <<geometry, store, pair>>

SetOf(addr) == addr % geometry.btbsize
Holds(addr) == \E k \in DOMAIN store[SetOf(addr)] : store[SetOf(addr)][k][1] = addr

Init ==
    /\ geometry \in Geometries
    /\ store = [s \in 0..(geometry.btbsize - 1) |-> << >>]
    /\ pair = << >>

\* Using an entry makes it the most recent; its target does not change.
Use(addr) ==
    \E k \in DOMAIN store[SetOf(addr)] :
        LET entries == store[SetOf(addr)]
        IN  /\ entries[k][1] = addr
            /\ store' = IF geometry.algorithm = 1
                        THEN [store EXCEPT ![SetOf(addr)] =
                                <<entries[k]>> \o RemoveAt(entries, k)]
                        ELSE store

\* Admitting a pair gives up the least recent entry of a full set.
Admit(addr, target) ==
    LET entries == store[SetOf(addr)]
    IN  /\ ~Holds(addr)
        /\ store' = [store EXCEPT ![SetOf(addr)] =
                        <<<<addr, target>>>> \o
                        (IF Len(entries) = geometry.numways
                         THEN Front(entries) ELSE entries)]

\* Every use takes effect at once.
Next ==
    /\ UNCHANGED geometry
    /\ \E addr \in Addrs, target \in Targets :
        /\ pair' = <<addr, target>>
        /\ IF Fits(geometry, addr, target)
           THEN Use(addr) \/ Admit(addr, target)
           ELSE UNCHANGED store

Spec == Init /\ [][Next]_vars
================================================================================
