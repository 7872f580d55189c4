---------------------------- MODULE TracePredictors ----------------------------
(***************************************************************************)
(* The predictors a CBP_INST_STREAM compresses with: VALUE_CACHE,          *)
(* STRIDE_PRED, COND_PRED, INDIRECT_PRED and FINITE_STACK.  Objects are    *)
(* records or functions; the templates' sizes are parameters.              *)
(***************************************************************************)
EXTENDS Integers

CONSTANTS
    WORD,       \* number of values of a uint32_t: 2^32
    BitXor(_, _)   \* bitwise exclusive or

Word == 0..(WORD - 1)

ASSUME WordAssumption ==
    /\ WORD \in Nat \ {0}
    /\ \A a, b \in Word : BitXor(a, b) \in Word /\ BitXor(b, BitXor(a, b)) = a

--------------------------------------------------------------------------------
(* VALUE_CACHE: direct mapped, one page of values per set, remembered by its *)
(* first value.  A value's id is its set and its offset in the page.         *)

\* A set holds the first value of a page.
ValueCaches(sets, page) ==
    [sets : {sets}, page : {page}, cache : [0..(sets - 1) -> {v \in Word : v % page = 0}]]

NewValueCache(sets, page) ==
    [sets |-> sets, page |-> page, cache |-> [s \in 0..(sets - 1) |-> 0]]

VcIndex(vc, val) == (val \div vc.page) % vc.sets
VcTag(vc, val) == val - (val % vc.page)

VcFound(vc, val) == vc.cache[VcIndex(vc, val)] = VcTag(vc, val)
VcId(vc, val) == VcIndex(vc, val) * vc.page + (val % vc.page)
VcValue(vc, id) == vc.cache[id \div vc.page] + (id % vc.page)

VcInsert(vc, val) == [vc EXCEPT !.cache[VcIndex(vc, val)] = VcTag(vc, val)]

--------------------------------------------------------------------------------
(* STRIDE_PRED: two-delta; a stride is trusted when seen twice in a row.  All *)
(* arithmetic ends in 32 bits, so a negative stride is its complement.        *)

StridePreds(size) ==
    [size : {size}, table : [0..(size - 1) -> [s1 : Word, s2 : Word, v : Word]]]

NewStridePred(size) ==
    [size |-> size, table |-> [n \in 0..(size - 1) |-> [s1 |-> 0, s2 |-> 0, v |-> 0]]]

StridePrediction(sp, vip) ==
    LET entry == sp.table[vip % sp.size] IN (entry.v + entry.s2) % WORD

StrideTrained(sp, vip, v) ==
    LET entry == sp.table[vip % sp.size]
        s == (v - entry.v) % WORD
    IN  [sp EXCEPT !.table[vip % sp.size] =
            [s1 |-> s, s2 |-> IF entry.s1 = s THEN s ELSE entry.s2, v |-> v]]

--------------------------------------------------------------------------------
(* COND_PRED: two-bit counters indexed by address and global history, the     *)
(* newest outcome in the highest bit.                                         *)

CondPreds(bits) ==
    [bits : {bits}, history : 0..(2^bits - 1), table : [0..(2^bits - 1) -> 0..3]]

NewCondPred(bits) ==
    [bits |-> bits, history |-> 0, table |-> [n \in 0..(2^bits - 1) |-> 2]]

CondIndex(cp, vip) == BitXor(vip % 2^cp.bits, cp.history)

CondPrediction(cp, vip) == cp.table[CondIndex(cp, vip)] >= 2

\* Variant: the counters do not saturate.
CondTrained_NoLimit(cp, vip, taken) ==
    [cp EXCEPT
        !.table[CondIndex(cp, vip)] = IF taken THEN @ + 1 ELSE @ - 1,
        !.history = (@ \div 2) + (IF taken THEN 2^(cp.bits - 1) ELSE 0)]

CondTrained(cp, vip, taken) ==
    [cp EXCEPT
        !.table[CondIndex(cp, vip)] =
            IF taken THEN (IF @ = 3 THEN 3 ELSE @ + 1) ELSE (IF @ = 0 THEN 0 ELSE @ - 1),
        !.history = (@ \div 2) + (IF taken THEN 2^(cp.bits - 1) ELSE 0)]

--------------------------------------------------------------------------------
(* INDIRECT_PRED: an address's entry holds the low bits of its last four      *)
(* targets, newest first; their hash leads to the entry with the target.  A   *)
(* single table serves both, and an address that misses its tag starts anew.  *)

Elements(elements) == 0..(elements - 1)
Histories(elements) ==
    Elements(elements) \X Elements(elements) \X Elements(elements) \X Elements(elements)

IndirectPreds(bits, elements) ==
    [bits : {bits}, elements : {elements},
     table : [0..(2^bits - 1) ->
                [history_tag : Word, history : Histories(elements), address : Word]]]

NewIndirectPred(bits, elements) ==
    [bits |-> bits, elements |-> elements,
     table |-> [n \in 0..(2^bits - 1) |->
                   [history_tag |-> 0, history |-> <<0, 0, 0, 0>>, address |-> 0]]]

IndIndex(ip, vip) == vip % 2^ip.bits
IndHit(ip, vip) == ip.table[IndIndex(ip, vip)].history_tag = vip \div 2^ip.bits

\* get_history_hash: the k-th element is shifted left by k * SHIFT bits.
IndHash(ip, h) ==
    LET p(k) == (h[k + 1] * 2^(k * (ip.bits \div 4))) % 2^ip.bits
    IN  BitXor(BitXor(BitXor(p(0), p(1)), p(2)), p(3))

IndAddressIndex(ip, vip, h) == BitXor(IndIndex(ip, vip), IndHash(ip, h))

IndPrediction(ip, vip) ==
    LET entry == ip.table[IndIndex(ip, vip)]
    IN  IF IndHit(ip, vip)
        THEN ip.table[IndAddressIndex(ip, vip, entry.history)].address
        ELSE entry.address

IndTrained(ip, vip, address) ==
    LET n == IndIndex(ip, vip)
        h == ip.table[n].history
        where == IndAddressIndex(ip, vip, h)
        e == address % ip.elements
        restarted == [ip EXCEPT
            !.table[n] = [history_tag |-> vip \div 2^ip.bits,
                          history |-> <<e, e, e, e>>,
                          address |-> ip.table[where].address]]
    IN  IF IndHit(ip, vip)
        THEN [ip EXCEPT !.table[n].history = <<e, h[1], h[2], h[3]>>,
                        !.table[where].address = address]
        ELSE [restarted EXCEPT
                !.table[IndAddressIndex(ip, vip, <<e, e, e, e>>)].address = address]

--------------------------------------------------------------------------------
(* FINITE_STACK: a ring, so that a push on a full stack overwrites the oldest *)
(* entry and a pop of an empty one goes round.                                *)

FiniteStacks(size) ==
    [size : {size}, top_ptr : 0..(size - 1), stack : [0..(size - 1) -> Word]]

NewFiniteStack(size) ==
    [size |-> size, top_ptr |-> 0, stack |-> [n \in 0..(size - 1) |-> 0]]

FsTop(fs) == fs.stack[fs.top_ptr]
FsPopped(fs) == [fs EXCEPT !.top_ptr = (@ - 1) % fs.size]

\* Variant: the value goes where the top was.
FsPushed_Late(fs, value) ==
    [fs EXCEPT !.top_ptr = (@ + 1) % fs.size, !.stack[fs.top_ptr] = value]

FsPushed(fs, value) ==
    LET top == (fs.top_ptr + 1) % fs.size
    IN  [fs EXCEPT !.top_ptr = top, !.stack[top] = value]
================================================================================
