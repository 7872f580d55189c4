------------------------------ MODULE StreamProofs ------------------------------
(***************************************************************************)
(* The trace format for every set of instructions, every size of the       *)
(* predictors and every number of records: the get functions undo the put  *)
(* functions, one member after the other, because both sides learn alike.  *)
(***************************************************************************)
EXTENDS TraceFile, SequenceTheorems, TLAPS

LEMMA WordFacts ==
    /\ 0 \in Word /\ Word \subseteq Nat /\ WORD \in Nat \ {0}
    /\ \A n \in Int : n % WORD \in Word
BY WordAssumption DEF Word

LEMMA WordInt == Word \subseteq Nat /\ Word \subseteq Int
BY DEF Word

LEMMA ModRange ==
    ASSUME NEW x \in Int, NEW n \in Nat \ {0}
    PROVE  x % n \in 0..(n - 1)
OBVIOUS

--------------------------------------------------------------------------------
(* The predictors keep their shape *)

\* Quotient and remainder are unique.
LEMMA QuotientUnique ==
    ASSUME NEW n \in Nat \ {0}, NEW q \in Nat, NEW r \in 0..(n - 1)
    PROVE  (q * n + r) \div n = q /\ (q * n + r) % n = r
<1>. DEFINE x == q * n + r
            d == x \div n
            m == x % n
<1>1. x \in Nat /\ d \in Int /\ m \in 0..(n - 1) /\ x = n * d + m
  OBVIOUS
<1>2. n * d + m = n * q + r
  BY <1>1
<1>. HIDE DEF d, m
<1>3. CASE d > q
  <2>1. n * d >= n * (q + 1)
    BY <1>1, <1>3
  <2>2. n * (q + 1) = n * q + n
    OBVIOUS
  <2>. QED  BY <1>1, <1>2, <2>1, <2>2
<1>4. CASE d < q
  <2>1. n * q >= n * (d + 1)
    BY <1>1, <1>4
  <2>2. n * (d + 1) = n * d + n
    BY <1>1
  <2>. QED  BY <1>1, <1>2, <2>1, <2>2
<1>5. CASE d = q
  BY <1>1, <1>2, <1>5
<1>. QED  BY <1>1, <1>3, <1>4, <1>5 DEF d, m

\* The first value of a value's page.
LEMMA PageFacts ==
    ASSUME NEW page \in Nat \ {0}, NEW v \in Word
    PROVE  /\ v % page \in 0..(page - 1)
           /\ v - (v % page) \in Word
           /\ (v - (v % page)) % page = 0
<1>1. v \in Nat /\ v < WORD
  BY WordFacts DEF Word
<1>2. v % page \in 0..(page - 1) /\ v \div page \in Nat
  BY <1>1
<1>3. v = (v \div page) * page + (v % page)
  BY <1>1
<1>4. v - (v % page) = (v \div page) * page + 0
  BY <1>1, <1>2, <1>3
<1>5. 0 \in 0..(page - 1)
  OBVIOUS
<1>6. ((v \div page) * page + 0) % page = 0
  BY <1>2, <1>5, QuotientUnique
<1>7. v - (v % page) \in Word
  <2>. DEFINE m == v % page
              d == (v \div page) * page
  <2>1. m \in Nat /\ v = d + m /\ d \in Nat /\ WORD \in Nat
    BY <1>2, <1>3, WordFacts
  <2>. HIDE DEF m, d
  <2>2. v - m \in Word
    BY <1>1, <2>1 DEF Word
  <2>. QED  BY <2>2 DEF m
<1>. QED  BY <1>2, <1>4, <1>6, <1>7

LEMMA ValueCacheType ==
    ASSUME NEW sets \in Nat \ {0}, NEW page \in Nat \ {0},
           NEW vc \in ValueCaches(sets, page), NEW v \in Word
    PROVE  VcInsert(vc, v) \in ValueCaches(sets, page)
<1>1. VcTag(vc, v) \in {x \in Word : x % page = 0}
  BY PageFacts DEF VcTag, ValueCaches
<1>. QED  BY <1>1 DEF VcInsert, ValueCaches

\* The id of a value that is in the cache leads back to it.
LEMMA IdLeadsBack ==
    ASSUME NEW sets \in Nat \ {0}, NEW page \in Nat \ {0},
           NEW vc \in ValueCaches(sets, page), NEW v \in Word, VcFound(vc, v)
    PROVE  VcValue(vc, VcId(vc, v)) = v
<1>. DEFINE i == VcIndex(vc, v)
            r == v % page
<1>1. vc.page = page /\ vc.sets = sets
  BY DEF ValueCaches
<1>2. v \in Nat /\ r \in 0..(page - 1)
  BY WordFacts, PageFacts
<1>3. i \in Nat
  BY <1>1, <1>2 DEF VcIndex
<1>4. vc.cache[i] = v - r
  BY <1>1 DEF VcFound, VcTag
<1>. HIDE DEF i, r
<1>5. VcId(vc, v) = i * page + r
  BY <1>1 DEF VcId, i, r
<1>6. (i * page + r) \div page = i /\ (i * page + r) % page = r
  BY <1>2, <1>3, QuotientUnique
<1>. QED  BY <1>1, <1>2, <1>4, <1>5, <1>6 DEF VcValue

LEMMA StrideType ==
    ASSUME NEW size \in Nat \ {0}, NEW sp \in StridePreds(size), NEW vip \in Word,
           NEW v \in Word
    PROVE  StrideTrained(sp, vip, v) \in StridePreds(size)
<1>. DEFINE entry == sp.table[vip % sp.size]
            s == (v - entry.v) % WORD
<1>1. sp.size = size
  BY DEF StridePreds
<1>2. vip % size \in 0..(size - 1)
  <2>1. vip \in Nat
    BY WordFacts
  <2>. QED  BY <2>1
<1>3. entry \in [s1 : Word, s2 : Word, v : Word]
  BY <1>1, <1>2 DEF StridePreds
<1>5. s \in Word
  <2>. HIDE DEF entry
  <2>. Word \subseteq Int
    BY WordFacts
  <2>1. entry.v \in Int /\ v \in Int
    BY <1>3
  <2>2. v - entry.v \in Int
    BY <2>1
  <2>. QED  BY <2>2, WordFacts
<1>. HIDE DEF entry, s
<1>4. [s1 |-> s, s2 |-> IF entry.s1 = s THEN s ELSE entry.s2, v |-> v]
        \in [s1 : Word, s2 : Word, v : Word]
  BY <1>3, <1>5
<1>. QED  BY <1>4 DEF StrideTrained, StridePreds, entry, s

LEMMA CondType ==
    ASSUME NEW cp \in CondPreds(Sizes.cond_bits), NEW vip, NEW taken \in BOOLEAN
    PROVE  CondTrained(cp, vip, taken) \in CondPreds(Sizes.cond_bits)
<1>. DEFINE half == 2^(Sizes.cond_bits - 1)
            full == 2^Sizes.cond_bits
<1>1. half \in Nat \ {0} /\ full = 2 * half
  BY SizesAssumption
<1>. HIDE DEF half, full
<1>2. /\ cp.bits = Sizes.cond_bits /\ cp.history \in 0..(full - 1)
      /\ cp.table \in [0..(full - 1) -> 0..3]
  BY DEF CondPreds, full
<1>3. (cp.history \div 2) + (IF taken THEN half ELSE 0) \in 0..(full - 1)
  <2>1. cp.history \div 2 \in Nat /\ cp.history \div 2 < half
    BY <1>1, <1>2
  <2>. QED  BY <1>1, <2>1
<1>. DEFINE n == CondIndex(cp, vip)
            u(x) == IF taken THEN (IF x = 3 THEN 3 ELSE x + 1)
                    ELSE (IF x = 0 THEN 0 ELSE x - 1)
<1>4. \A x \in 0..3 : u(x) \in 0..3
  OBVIOUS
<1>5. [cp.table EXCEPT ![n] = u(cp.table[n])] \in [0..(full - 1) -> 0..3]
  BY <1>2, <1>4
<1>. HIDE DEF n
<1>6. /\ CondTrained(cp, vip, taken)
           = [x \in {"bits", "history", "table"} |-> CondTrained(cp, vip, taken)[x]]
      /\ CondTrained(cp, vip, taken).bits = cp.bits
      /\ CondTrained(cp, vip, taken).history
           = (cp.history \div 2) + (IF taken THEN half ELSE 0)
      /\ CondTrained(cp, vip, taken).table = [cp.table EXCEPT ![n] = u(cp.table[n])]
  BY <1>2 DEF CondTrained, CondPreds, n, half
<1>. HIDE DEF u
<1>. DEFINE c == CondTrained(cp, vip, taken)
<1>7. c = [x \in {"bits", "history", "table"} |-> c[x]] /\ c.bits = Sizes.cond_bits
      /\ c.history \in 0..(full - 1) /\ c.table \in [0..(full - 1) -> 0..3]
  BY <1>2, <1>3, <1>5, <1>6
<1>. HIDE DEF c
<1>8. c \in [bits : {Sizes.cond_bits}, history : 0..(full - 1), table : [0..(full - 1) -> 0..3]]
  BY <1>7
<1>. QED  BY <1>8 DEF CondPreds, full, c

LEMMA StackType ==
    ASSUME NEW size \in Nat \ {0}, NEW fs \in FiniteStacks(size), NEW v \in Word
    PROVE  /\ FsPushed(fs, v) \in FiniteStacks(size)
           /\ FsPopped(fs) \in FiniteStacks(size)
<1>1. /\ fs.size = size /\ fs.top_ptr \in Int
      /\ fs.stack \in [0..(size - 1) -> Word]
  BY DEF FiniteStacks
<1>2. (fs.top_ptr + 1) % size \in 0..(size - 1) /\ (fs.top_ptr - 1) % size \in 0..(size - 1)
  BY <1>1
<1>3. FsPopped(fs) \in FiniteStacks(size)
  BY <1>1, <1>2 DEF FsPopped, FiniteStacks
<1>4. FsPushed(fs, v) \in FiniteStacks(size)
  BY <1>1, <1>2 DEF FsPushed, FiniteStacks
<1>. QED  BY <1>3, <1>4

\* The entry of an address and the entry its history leads to are in the table.
LEMMA IndIndexes ==
    ASSUME NEW ip \in IndirectPreds(Sizes.ind_bits, Sizes.element), NEW vip \in Word,
           NEW h \in Histories(Sizes.element)
    PROVE  /\ IndIndex(ip, vip) \in 0..(2^Sizes.ind_bits - 1)
           /\ IndAddressIndex(ip, vip, h) \in 0..(2^Sizes.ind_bits - 1)
<1>. DEFINE full == 2^Sizes.ind_bits
            step == Sizes.ind_bits \div 4
            p(k) == (h[k + 1] * 2^(k * step)) % full
<1>1. full \in Nat \ {0} /\ (\A a, b \in 0..(full - 1) : BitXor(a, b) \in 0..(full - 1))
  BY SizesAssumption
<1>2. vip \in Nat
  BY WordFacts
<1>3. IndIndex(ip, vip) \in 0..(full - 1)
  <2>1. IndIndex(ip, vip) = vip % full
    BY DEF IndIndex, IndirectPreds
  <2>. HIDE DEF full
  <2>. QED  BY <1>1, <1>2, <2>1
<1>4. ASSUME NEW k \in {0, 1, 2, 3} PROVE p(k) \in 0..(full - 1)
  <2>1. step \in Nat
    BY SizesAssumption
  <2>. HIDE DEF step
  <2>2. k * step \in Nat
    BY <2>1
  <2>3. 2^(k * step) \in Int
    BY <2>2
  <2>4. h[k + 1] \in Int
    BY SizesAssumption DEF Histories, Elements
  <2>5. h[k + 1] * 2^(k * step) \in Int
    BY <2>3, <2>4
  <2>6. full \in Nat \ {0}
    BY <1>1
  <2>. DEFINE x == h[k + 1] * 2^(k * step)
  <2>. HIDE DEF full, x
  <2>7. x % full \in 0..(full - 1)
    BY <2>5, <2>6, ModRange DEF x
  <2>. QED  BY <2>7 DEF x
<1>5. IndHash(ip, h) = BitXor(BitXor(BitXor(p(0), p(1)), p(2)), p(3))
  BY DEF IndHash, IndirectPreds
<1>. HIDE DEF full, p
<1>6. IndHash(ip, h) \in 0..(full - 1)
  <2>1. p(0) \in 0..(full - 1) /\ p(1) \in 0..(full - 1)
        /\ p(2) \in 0..(full - 1) /\ p(3) \in 0..(full - 1)
    BY <1>4
  <2>2. BitXor(p(0), p(1)) \in 0..(full - 1)
    BY <1>1, <2>1
  <2>3. BitXor(BitXor(p(0), p(1)), p(2)) \in 0..(full - 1)
    BY <1>1, <2>1, <2>2
  <2>. QED  BY <1>1, <1>5, <2>1, <2>3
<1>7. IndAddressIndex(ip, vip, h) \in 0..(full - 1)
  BY <1>1, <1>3, <1>6 DEF IndAddressIndex
<1>. QED  BY <1>3, <1>7 DEF full

\* A change of one entry of its table leaves the predictor's shape.
LEMMA IndEntry ==
    ASSUME NEW ip \in IndirectPreds(Sizes.ind_bits, Sizes.element),
           NEW n \in 0..(2^Sizes.ind_bits - 1),
           NEW entry \in [history_tag : Word, history : Histories(Sizes.element), address : Word]
    PROVE  [ip EXCEPT !.table[n] = entry] \in IndirectPreds(Sizes.ind_bits, Sizes.element)
BY DEF IndirectPreds

LEMMA IndHistory ==
    ASSUME NEW ip \in IndirectPreds(Sizes.ind_bits, Sizes.element),
           NEW n \in 0..(2^Sizes.ind_bits - 1), NEW h \in Histories(Sizes.element)
    PROVE  [ip EXCEPT !.table[n].history = h]
              \in IndirectPreds(Sizes.ind_bits, Sizes.element)
BY DEF IndirectPreds

LEMMA IndAddress ==
    ASSUME NEW ip \in IndirectPreds(Sizes.ind_bits, Sizes.element),
           NEW n \in 0..(2^Sizes.ind_bits - 1), NEW address \in Word
    PROVE  [ip EXCEPT !.table[n].address = address]
              \in IndirectPreds(Sizes.ind_bits, Sizes.element)
BY DEF IndirectPreds

LEMMA IndType ==
    ASSUME NEW ip \in IndirectPreds(Sizes.ind_bits, Sizes.element), NEW vip \in Word,
           NEW address \in Word
    PROVE  IndTrained(ip, vip, address) \in IndirectPreds(Sizes.ind_bits, Sizes.element)
<1>. DEFINE full == 2^Sizes.ind_bits
            n == IndIndex(ip, vip)
            h == ip.table[n].history
            where == IndAddressIndex(ip, vip, h)
            e == address % ip.elements
            entry == [history_tag |-> vip \div 2^ip.bits,
                      history |-> <<e, e, e, e>>,
                      address |-> ip.table[where].address]
            restarted == [ip EXCEPT !.table[n] = entry]
<1>1. n \in 0..(full - 1)
  <2>1. <<0, 0, 0, 0>> \in Histories(Sizes.element)
    BY SizesAssumption DEF Histories, Elements
  <2>. QED  BY <2>1, IndIndexes
<1>2. h \in Histories(Sizes.element)
  BY <1>1 DEF IndirectPreds
<1>3. where \in 0..(full - 1)
  BY <1>2, IndIndexes
<1>4. e \in Elements(Sizes.element)
  <2>1. address \in Nat /\ ip.elements = Sizes.element
    BY WordFacts DEF IndirectPreds
  <2>. QED  BY <2>1, SizesAssumption DEF Elements
<1>. HIDE DEF e
<1>5. <<e, h[1], h[2], h[3]>> \in Histories(Sizes.element)
      /\ <<e, e, e, e>> \in Histories(Sizes.element)
  BY <1>2, <1>4 DEF Histories
<1>6. CASE IndHit(ip, vip)
  <2>. DEFINE one == [ip EXCEPT !.table[n].history = <<e, h[1], h[2], h[3]>>]
  <2>1. one \in IndirectPreds(Sizes.ind_bits, Sizes.element)
    BY <1>1, <1>5, IndHistory
  <2>2. [one EXCEPT !.table[where].address = address]
          \in IndirectPreds(Sizes.ind_bits, Sizes.element)
    <3>. HIDE DEF one, where
    <3>. QED  BY <1>3, <2>1, IndAddress
  <2>. QED  BY <1>6, <2>2 DEF IndTrained, e
<1>7. CASE ~IndHit(ip, vip)
  <2>1. ip.table[where].address \in Word
    BY <1>3 DEF IndirectPreds
  <2>2. vip \div 2^ip.bits \in Word
    <3>1. vip \in Nat /\ vip < WORD /\ ip.bits = Sizes.ind_bits
      BY WordFacts DEF Word, IndirectPreds
    <3>2. full \in Nat \ {0}
      BY SizesAssumption
    <3>3. vip \div full \in Nat /\ vip \div full <= vip
      <4>. HIDE DEF full
      <4>. QED  BY <3>1, <3>2
    <3>. QED  BY <3>1, <3>3, WordFacts DEF Word
  <2>3. entry \in [history_tag : Word, history : Histories(Sizes.element), address : Word]
    BY <1>5, <2>1, <2>2
  <2>4. restarted \in IndirectPreds(Sizes.ind_bits, Sizes.element)
    <3>. HIDE DEF entry, n
    <3>. QED  BY <1>1, <2>3, IndEntry
  <2>5. IndAddressIndex(ip, vip, <<e, e, e, e>>) \in 0..(full - 1)
    BY <1>5, IndIndexes
  <2>6. [restarted EXCEPT !.table[IndAddressIndex(ip, vip, <<e, e, e, e>>)].address = address]
          \in IndirectPreds(Sizes.ind_bits, Sizes.element)
    <3>. HIDE DEF restarted
    <3>. QED  BY <2>4, <2>5, IndAddress
  <2>. QED  BY <1>7, <2>6 DEF IndTrained, e
<1>. QED  BY <1>6, <1>7

--------------------------------------------------------------------------------
(* Streams, member by member *)

Fields ==
    {"inst", "static_info", "static_info_cache", "register_file", "dst_stride",
     "dst_l0", "dst_l1", "vaddr1_stride", "vaddr1_l0", "vaddr1_l1", "taken_pred",
     "ret_pred", "ind_pred", "target_l0", "target_l1", "key", "buffer"}

IsStream(w) == w = [f \in Fields |-> w[f]]

\* x is w but for the members in D.
Kept(x, w, D) == \A f \in Fields \ D : x[f] = w[f]

StreamParts(w) ==
    /\ w.inst \in Instructions
    /\ w.static_info \in 0..(Sizes.static_info - 1)
    /\ w.static_info_cache \in [0..(Sizes.static_info - 1) -> StaticInfos]
    /\ w.register_file \in [Registers -> Word]
    /\ w.dst_stride \in StridePreds(Sizes.stride)
    /\ w.dst_l0 \in ValueCaches(Sizes.l0, 1)
    /\ w.dst_l1 \in ValueCaches(Sizes.l1, 1)
    /\ w.vaddr1_stride \in StridePreds(Sizes.stride)
    /\ w.vaddr1_l0 \in ValueCaches(Sizes.vaddr1_l0, Sizes.page0)
    /\ w.vaddr1_l1 \in ValueCaches(Sizes.vaddr1_l1, Sizes.page1)
    /\ w.taken_pred \in CondPreds(Sizes.cond_bits)
    /\ w.ret_pred \in FiniteStacks(Sizes.stack)
    /\ w.ind_pred \in IndirectPreds(Sizes.ind_bits, Sizes.element)
    /\ w.target_l0 \in ValueCaches(Sizes.l0, 1)
    /\ w.target_l1 \in ValueCaches(Sizes.l1, 1)
    /\ w.key \in Keys

LEMMA StreamFields ==
    ASSUME NEW w, StreamType(w)
    PROVE  IsStream(w) /\ StreamParts(w)
<1>1. StreamParts(w)
  BY DEF StreamType, StreamParts
<1>2. IsStream(w)
  BY DEF StreamType, IsStream, Fields
<1>. QED  BY <1>1, <1>2

LEMMA FieldsStream ==
    ASSUME NEW w, IsStream(w), StreamParts(w)
    PROVE  StreamType(w)
<1>2. w = [f \in Fields |-> w[f]]
  BY DEF IsStream
<1>. QED  BY <1>2 DEF StreamType, Fields, StreamParts

\* The key as one record, and what two keys have in common.
Flat(key) ==
    [dst_val |-> key.first.dst_val, vaddr1 |-> key.first.vaddr1,
     src2_val |-> key.first.src2_val, taken |-> key.first.taken,
     static_info |-> key.first.static_info,
     instruction_addr |-> key.second.instruction_addr,
     branch_target |-> key.second.branch_target, src1_val |-> key.second.src1_val,
     vaddr2 |-> key.second.vaddr2]

KeyFields ==
    {"dst_val", "vaddr1", "src2_val", "taken", "static_info", "instruction_addr",
     "branch_target", "src1_val", "vaddr2"}

KeyAgrees(K, key, D) == \A f \in D : Flat(K)[f] = Flat(key)[f]
KeyKept(new, key, D) == KeyAgrees(new, key, KeyFields \ D)

\* The instruction new is inst with the members in D taken from out.
InstFields ==
    {"op", "instruction_addr", "instruction_next_addr", "branch_target", "src1_val",
     "src2_val", "dst_val", "src_vaddr", "dst_vaddr", "taken"}

InstSet(new, inst, out, D) ==
    \A f \in InstFields : new[f] = IF f \in D THEN out[f] ELSE inst[f]

\* What a reader has fetched, F: the values by their offsets, which are those of the
\* writer but for a shift of one when the key is one byte.  The reader's buffer when
\* the writer's is b:
Shifted(b, F) == [tail |-> b.tail - F.shift, values |-> F.values]

\* A reader r of F with the key K where the writer is w.
Reads(r, w, K, F) ==
    /\ IsStream(r)
    /\ Kept(r, w, {"key", "buffer"})
    /\ r.key = K
    /\ r.buffer = Shifted(w.buffer, F)

LEMMA ReadsKept ==
    ASSUME NEW w, NEW x, NEW r, NEW y, NEW K, NEW F, NEW D,
           Reads(r, w, K, F), IsStream(y),
           Kept(x, w, D \cup {"key", "buffer"}), Kept(y, r, D \cup {"buffer"}),
           \A f \in D : y[f] = x[f], "key" \notin D,
           y.buffer = Shifted(x.buffer, F)
    PROVE  Reads(y, x, K, F)
<1>1. Kept(y, x, {"key", "buffer"})
  BY DEF Kept, Reads
<1>2. y.key = K
  BY DEF Kept, Reads, Fields
<1>. QED  BY <1>1, <1>2 DEF Reads

--------------------------------------------------------------------------------
(* The buffer *)

BufferOK(b) ==
    /\ b = [tail |-> b.tail, values |-> b.values]
    /\ b.tail \in Nat /\ b.tail >= 2
    /\ \A o \in DOMAIN b.values : o \in Nat /\ 2 <= o /\ o < b.tail

\* c is b with n bytes more.
Appended(b, c, n) ==
    /\ BufferOK(c)
    /\ c.tail = b.tail + n
    /\ \A o \in DOMAIN b.values : o \in DOMAIN c.values /\ c.values[o] = b.values[o]

\* F holds what has been put into b.
Carries(F, b) ==
    /\ F.shift \in {0, 1}
    /\ \A o \in DOMAIN b.values : F.values[o - F.shift] = b.values[o]

LEMMA PutBuffer ==
    ASSUME NEW b, BufferOK(b), NEW n \in Nat \ {0}, NEW v
    PROVE  /\ Appended(b, put_buffer(b, n, v), n)
           /\ \A F : Carries(F, put_buffer(b, n, v)) =>
                 /\ Buffered(Shifted(b, F)) = v
                 /\ get_buffer(Shifted(b, F), n)
                      = Shifted(put_buffer(b, n, v), F)
<1>. DEFINE c == put_buffer(b, n, v)
<1>1. /\ c = [tail |-> b.tail + n, values |-> c.values]
      /\ DOMAIN c.values = DOMAIN b.values \cup {b.tail}
      /\ c.values[b.tail] = v
      /\ \A o \in DOMAIN b.values : o # b.tail => c.values[o] = b.values[o]
  BY DEF put_buffer
<1>. HIDE DEF c
<1>2. BufferOK(c)
  BY <1>1 DEF BufferOK
<1>3. Appended(b, c, n)
  BY <1>1, <1>2 DEF BufferOK, Appended
<1>4. ASSUME NEW F, Carries(F, c)
      PROVE  /\ Buffered(Shifted(b, F)) = v
             /\ get_buffer(Shifted(b, F), n) = Shifted(c, F)
  <2>1. F.shift \in {0, 1} /\ F.values[b.tail - F.shift] = v
    BY <1>1, <1>4 DEF Carries
  <2>2. c.tail = b.tail + n /\ b.tail \in Nat
    BY <1>1 DEF BufferOK
  <2>3. (b.tail - F.shift) + n = c.tail - F.shift
    BY <2>1, <2>2
  <2>. QED  BY <2>1, <2>3 DEF get_buffer, Buffered, Shifted
<1>. QED  BY <1>3, <1>4 DEF c

LEMMA SameBuffer ==
    ASSUME NEW b, BufferOK(b) PROVE Appended(b, b, 0)
BY DEF BufferOK, Appended

LEMMA CarriesBack ==
    ASSUME NEW b, NEW c, NEW n, NEW F, Appended(b, c, n), Carries(F, c)
    PROVE  Carries(F, b)
BY DEF Appended, Carries

LEMMA PatchAppends ==
    ASSUME NEW v \in Word, NEW p \in Word, NEW b, BufferOK(b)
    PROVE  Appended(b, PatchPut(v, p, b), IfRead(v # p, 4))
BY SameBuffer, PutBuffer DEF PatchPut, IfRead

LEMMA PatchReads ==
    ASSUME NEW v \in Word, NEW p \in Word, NEW b, BufferOK(b), NEW F,
           Carries(F, PatchPut(v, p, b))
    PROVE  LET e == Shifted(b, F)
           IN  /\ Patched(v # p, p, e) = v
               /\ PatchPassed(v # p, e) = Shifted(PatchPut(v, p, b), F)
<1>1. CASE v = p
  BY <1>1 DEF PatchPut, Patched, PatchPassed
<1>2. CASE v # p
  <2>1. BitXor(p, BitXor(v, p)) = v
    BY WordAssumption
  <2>. QED  BY <1>2, <2>1, PutBuffer DEF PatchPut, Patched, PatchPassed
<1>. QED  BY <1>1, <1>2

--------------------------------------------------------------------------------
(* instruction_addr *)

LEMMA AddrPredicted ==
    ASSUME NEW w, StreamType(w)
    PROVE  AddrPrediction(w) \in Word
BY StreamFields DEF StreamParts, AddrPrediction, StaticInfos, Instructions

LEMMA LinkedType ==
    ASSUME NEW w, StreamType(w), NEW addr \in Word
    PROVE  Linked(w, addr) \in [0..(Sizes.static_info - 1) -> StaticInfos]
<1>1. /\ w.static_info \in 0..(Sizes.static_info - 1)
      /\ w.static_info_cache \in [0..(Sizes.static_info - 1) -> StaticInfos]
  BY StreamFields DEF StreamParts
<1>. QED  BY <1>1 DEF Linked, StaticInfos

LEMMA AddrStep ==
    ASSUME NEW w, StreamType(w), BufferOK(w.buffer), NEW out \in Instructions,
           NEW x, x = put_instruction_addr(w, out)
    PROVE  /\ StreamType(x)
           /\ InstSet(x.inst, w.inst, out, {"instruction_addr"})
           /\ KeyKept(x.key, w.key, {"instruction_addr"})
           /\ Appended(w.buffer, x.buffer, IfRead(x.key.second.instruction_addr, 4))
           /\ \A r, K, F :
                 /\ Reads(r, w, K, F) /\ Carries(F, x.buffer)
                 /\ KeyAgrees(K, x.key, {"instruction_addr"})
                 => Reads(get_instruction_addr(r), x, K, F)
<1>. DEFINE v == out.instruction_addr
            p == AddrPrediction(w)
            D == {"inst", "static_info_cache"}
<1>1. v \in Word /\ p \in Word
  BY AddrPredicted DEF Instructions
<1>2. IsStream(w) /\ StreamParts(w)
  BY StreamFields
<1>3. /\ IsStream(x)
      /\ Kept(x, w, D \cup {"key", "buffer"})
      /\ x.inst = [w.inst EXCEPT !.instruction_addr = v]
      /\ x.static_info_cache = Linked(w, v)
      /\ x.key = [w.key EXCEPT !.second.instruction_addr = v # p]
      /\ x.buffer = PatchPut(v, p, w.buffer)
  BY <1>2 DEF put_instruction_addr, IsStream, Kept, Fields
<1>4. /\ x.key \in Keys /\ x.key.second.instruction_addr = (v # p)
      /\ KeyKept(x.key, w.key, {"instruction_addr"})
  <2>. DEFINE b == v # p
  <2>1. b \in BOOLEAN /\ w.key \in Keys
    BY <1>2 DEF StreamParts
  <2>2. x.key = [w.key EXCEPT !.second.instruction_addr = b]
    BY <1>3
  <2>. HIDE DEF b
  <2>3. /\ x.key \in Keys /\ x.key.second.instruction_addr = b
        /\ KeyKept(x.key, w.key, {"instruction_addr"})
    BY <2>1, <2>2 DEF Keys, KeyKept, KeyAgrees, KeyFields, Flat
  <2>. QED  BY <2>3 DEF b
<1>5. StreamType(x)
  <2>1. x.inst \in Instructions
    BY <1>1, <1>2, <1>3 DEF StreamParts, Instructions
  <2>2. x.static_info_cache \in [0..(Sizes.static_info - 1) -> StaticInfos]
    BY <1>1, <1>3, LinkedType
  <2>3. StreamParts(x)
    BY <1>2, <1>3, <1>4, <2>1, <2>2 DEF StreamParts, Kept, Fields
  <2>. QED  BY <1>3, <2>3, FieldsStream
<1>6. Appended(w.buffer, x.buffer, IfRead(v # p, 4))
  <2>. HIDE DEF v, p
  <2>. QED  BY <1>1, <1>3, PatchAppends
<1>7. ASSUME NEW r, NEW K, NEW F, Reads(r, w, K, F), Carries(F, x.buffer),
             KeyAgrees(K, x.key, {"instruction_addr"})
      PROVE  Reads(get_instruction_addr(r), x, K, F)
  <2>. DEFINE y == get_instruction_addr(r)
              e == Shifted(w.buffer, F)
  <2>1. IsStream(r) /\ r.key.second.instruction_addr = (v # p) /\ r.buffer = e
    BY <1>4, <1>7 DEF Reads, KeyAgrees, Flat
  <2>2. AddrPrediction(r) = p /\ (\A a : Linked(r, a) = Linked(w, a))
        /\ r.inst = w.inst
    BY <1>7 DEF Reads, Kept, Fields, AddrPrediction, Linked
  <2>3. Patched(v # p, p, e) = v /\ PatchPassed(v # p, e) = Shifted(x.buffer, F)
    BY <1>1, <1>3, <1>7, PatchReads
  <2>. HIDE DEF p, e, v
  <2>4. /\ IsStream(y)
        /\ Kept(y, r, D \cup {"buffer"})
        /\ y.inst = [r.inst EXCEPT !.instruction_addr = Patched(v # p, p, e)]
        /\ y.static_info_cache = Linked(r, Patched(v # p, p, e))
        /\ y.buffer = PatchPassed(v # p, e)
    BY <2>1, <2>2 DEF get_instruction_addr, IsStream, Kept, Fields
  <2>5. \A f \in D : y[f] = x[f]
    BY <1>3, <2>2, <2>3, <2>4
  <2>6. "key" \notin D
    OBVIOUS
  <2>. HIDE DEF y, D
  <2>7. Reads(y, x, K, F)
    BY <1>3, <1>7, <2>3, <2>4, <2>5, <2>6, ReadsKept
  <2>. QED  BY <2>7 DEF y
<1>11. InstSet(x.inst, w.inst, out, {"instruction_addr"})
  <2>. w.inst \in Instructions
    BY <1>2 DEF StreamParts
  <2>. QED  BY <1>3 DEF InstSet, InstFields, Instructions
<1>. QED  BY <1>3, <1>4, <1>5, <1>6, <1>7, <1>11

--------------------------------------------------------------------------------
(* STATIC_INFO *)

LEMMA StaticInfoType ==
    ASSUME NEW inst \in Instructions
    PROVE  StaticInfo(inst) \in StaticInfos
<1>1. inst.instruction_addr \in Int /\ (inst.instruction_addr + 3) % WORD \in Word
      /\ 0 \in Word
  <2>1. inst.instruction_addr \in Int
    BY WordInt DEF Instructions
  <2>2. inst.instruction_addr + 3 \in Int
    BY <2>1
  <2>. QED  BY <2>1, <2>2, WordFacts
<1>. QED  BY <1>1 DEF StaticInfo, StaticInfos, Instructions, Ops

LEMMA FilledType ==
    ASSUME NEW inst \in Instructions, NEW static \in StaticInfos
    PROVE  Filled(inst, static) \in Instructions
BY WordFacts DEF Filled, StaticInfos, Instructions

\* An entry that need not be replaced describes the instruction as well.
LEMMA SameFilled ==
    ASSUME NEW inst, NEW lhs, NEW rhs, ~Differs(lhs, rhs)
    PROVE  Filled(inst, lhs) = Filled(inst, rhs)
BY DEF Differs, Filled

LEMMA StaticIndexType ==
    ASSUME NEW addr \in Word
    PROVE  StaticIndex(addr) \in 0..(Sizes.static_info - 1)
<1>1. addr \in Nat
  BY WordFacts
<1>2. Sizes.static_info \in Nat \ {0}
  BY SizesAssumption
<1>. QED  BY <1>1, <1>2, ModRange DEF StaticIndex

LEMMA StaticStep ==
    ASSUME NEW w, StreamType(w), BufferOK(w.buffer), NEW out \in Instructions,
           w.inst.instruction_addr = out.instruction_addr,
           NEW x, x = put_static_info(w, out)
    PROVE  /\ StreamType(x)
           /\ x.inst = Filled(w.inst, StaticInfo(out))
           /\ KeyKept(x.key, w.key, {"static_info"})
           /\ Appended(w.buffer, x.buffer, IfRead(x.key.first.static_info, 20))
           /\ \A r, K, F :
                 /\ Reads(r, w, K, F) /\ Carries(F, x.buffer)
                 /\ KeyAgrees(K, x.key, {"static_info"})
                 => Reads(get_static_info(r), x, K, F)
<1>. DEFINE n == StaticIndex(out.instruction_addr)
            static == StaticInfo(out)
            held == w.static_info_cache[n]
            changed == Differs(held, static)
            entry == IF changed THEN static ELSE held
            D == {"inst", "static_info", "static_info_cache"}
<1>1. static \in StaticInfos /\ n \in 0..(Sizes.static_info - 1) /\ changed \in BOOLEAN
  <2>1. out.instruction_addr \in Word
    BY DEF Instructions
  <2>. QED  BY <2>1, StaticInfoType, StaticIndexType DEF Differs
<1>2. IsStream(w) /\ StreamParts(w)
  BY StreamFields
<1>. HIDE DEF n, changed, static
<1>3. /\ IsStream(x)
      /\ Kept(x, w, D \cup {"key", "buffer"})
      /\ x.inst = Filled(w.inst, static)
      /\ x.static_info = n
      /\ x.static_info_cache = [w.static_info_cache EXCEPT ![n] = entry]
      /\ x.key = [w.key EXCEPT !.first.static_info = changed]
      /\ x.buffer = IF changed THEN put_buffer(w.buffer, 20, static) ELSE w.buffer
  BY <1>2 DEF put_static_info, IsStream, Kept, Fields, n, static, changed
<1>4. /\ x.key \in Keys /\ x.key.first.static_info = changed
      /\ KeyKept(x.key, w.key, {"static_info"})
  <2>1. w.key \in Keys
    BY <1>2 DEF StreamParts
  <2>. QED  BY <1>1, <1>3, <2>1 DEF Keys, KeyKept, KeyAgrees, KeyFields, Flat
<1>5. StreamType(x)
  <2>1. x.inst \in Instructions
    BY <1>1, <1>2, <1>3, FilledType DEF StreamParts
  <2>2. w.static_info_cache \in [0..(Sizes.static_info - 1) -> StaticInfos]
    BY <1>2 DEF StreamParts
  <2>3. entry \in StaticInfos
    BY <1>1, <2>2
  <2>4. x.static_info_cache \in [0..(Sizes.static_info - 1) -> StaticInfos]
    BY <1>3, <2>2, <2>3
  <2>5. StreamParts(x)
    BY <1>1, <1>2, <1>3, <1>4, <2>1, <2>4 DEF StreamParts, Kept, Fields
  <2>. QED  BY <1>3, <2>5, FieldsStream
<1>6. Appended(w.buffer, x.buffer, IfRead(changed, 20))
  BY <1>3, SameBuffer, PutBuffer DEF IfRead
<1>7. ASSUME NEW r, NEW K, NEW F, Reads(r, w, K, F), Carries(F, x.buffer),
             KeyAgrees(K, x.key, {"static_info"})
      PROVE  Reads(get_static_info(r), x, K, F)
  <2>. DEFINE y == get_static_info(r)
              e == Shifted(w.buffer, F)
              s == IF changed THEN Buffered(e) ELSE held
  <2>1. IsStream(r) /\ r.key.first.static_info = changed /\ r.buffer = e
    BY <1>4, <1>7 DEF Reads, KeyAgrees, Flat
  <2>2. /\ r.inst = w.inst /\ r.static_info_cache = w.static_info_cache
        /\ StaticIndex(r.inst.instruction_addr) = n
    BY <1>7 DEF Reads, Kept, Fields, n
  <2>3. s = entry /\ Filled(w.inst, s) = Filled(w.inst, static)
        /\ (IF changed THEN get_buffer(e, 20) ELSE e) = Shifted(x.buffer, F)
    <3>1. CASE changed
      BY <1>3, <1>7, <3>1, PutBuffer
    <3>2. CASE ~changed
      BY <1>3, <3>2, SameFilled DEF changed
    <3>. QED  BY <3>1, <3>2
  <2>. HIDE DEF e, s, entry
  <2>4. /\ IsStream(y)
        /\ Kept(y, r, D \cup {"buffer"})
        /\ y.inst = Filled(w.inst, s)
        /\ y.static_info = n
        /\ y.static_info_cache = [w.static_info_cache EXCEPT ![n] = s]
        /\ y.buffer = IF changed THEN get_buffer(e, 20) ELSE e
    BY <2>1, <2>2 DEF get_static_info, IsStream, Kept, Fields, s
  <2>5. \A f \in D : y[f] = x[f]
    BY <1>3, <2>3, <2>4
  <2>6. "key" \notin D
    OBVIOUS
  <2>. HIDE DEF y, D
  <2>7. Reads(y, x, K, F)
    BY <1>3, <1>7, <2>3, <2>4, <2>5, <2>6, ReadsKept
  <2>. QED  BY <2>7 DEF y
<1>. QED  BY <1>3, <1>4, <1>5, <1>6, <1>7 DEF static

--------------------------------------------------------------------------------
(* src1_val and src2_val *)

LEMMA Src1Step ==
    ASSUME NEW w, StreamType(w), BufferOK(w.buffer), NEW out \in Instructions,
           NEW x, x = put_src1_val(w, out)
    PROVE  /\ StreamType(x)
           /\ InstSet(x.inst, w.inst, out, {"src1_val"})
           /\ KeyKept(x.key, w.key, {"src1_val"})
           /\ Appended(w.buffer, x.buffer, IfRead(x.key.second.src1_val, 4))
           /\ \A r, K, F :
                 /\ Reads(r, w, K, F) /\ Carries(F, x.buffer)
                 /\ KeyAgrees(K, x.key, {"src1_val"})
                 => Reads(get_src1_val(r), x, K, F)
<1>. DEFINE v == out.src1_val
            src == w.inst.op.src1
            p == w.register_file[src]
            differs == v # p
            D == {"inst", "register_file"}
<1>1. v \in Word /\ p \in Word /\ differs \in BOOLEAN
  <2>1. v \in Word
    BY DEF Instructions
  <2>2. p \in Word
    BY StreamFields DEF StreamParts, Instructions, Ops
  <2>. QED  BY <2>1, <2>2
<1>2. IsStream(w) /\ StreamParts(w)
  BY StreamFields
<1>. HIDE DEF differs
<1>3. /\ IsStream(x)
      /\ Kept(x, w, D \cup {"key", "buffer"})
      /\ x.inst = [w.inst EXCEPT !.src1_val = v]
      /\ x.register_file = [w.register_file EXCEPT ![src] = v]
      /\ x.key = [w.key EXCEPT !.second.src1_val = differs]
      /\ x.buffer = PatchPut(v, p, w.buffer)
  BY <1>2 DEF put_src1_val, IsStream, Kept, Fields, differs
<1>4. /\ x.key \in Keys /\ x.key.second.src1_val = differs
      /\ KeyKept(x.key, w.key, {"src1_val"})
  <2>1. w.key \in Keys
    BY <1>2 DEF StreamParts
  <2>. QED  BY <1>1, <1>3, <2>1 DEF Keys, KeyKept, KeyAgrees, KeyFields, Flat
<1>5. StreamType(x)
  <2>1. w.inst \in Instructions /\ w.register_file \in [Registers -> Word]
    BY <1>2 DEF StreamParts
  <2>2. x.inst \in Instructions
    BY <1>1, <1>3, <2>1 DEF Instructions
  <2>3. x.register_file \in [Registers -> Word]
    BY <1>1, <1>3, <2>1
  <2>4. StreamParts(x)
    BY <1>2, <1>3, <1>4, <2>2, <2>3 DEF StreamParts, Kept, Fields
  <2>. QED  BY <1>3, <2>4, FieldsStream
<1>. HIDE DEF v, p, src
<1>6. Appended(w.buffer, x.buffer, IfRead(differs, 4))
  BY <1>1, <1>3, PatchAppends DEF differs
<1>7. ASSUME NEW r, NEW K, NEW F, Reads(r, w, K, F), Carries(F, x.buffer),
             KeyAgrees(K, x.key, {"src1_val"})
      PROVE  Reads(get_src1_val(r), x, K, F)
  <2>. DEFINE y == get_src1_val(r)
              e == Shifted(w.buffer, F)
  <2>1. IsStream(r) /\ r.key.second.src1_val = differs /\ r.buffer = e
    BY <1>4, <1>7 DEF Reads, KeyAgrees, Flat
  <2>2. r.inst = w.inst /\ r.register_file = w.register_file
    BY <1>7 DEF Reads, Kept, Fields
  <2>3. r.inst.op.src1 = src /\ r.register_file[src] = p
    BY <2>2 DEF src, p
  <2>4. /\ Patched(differs, p, e) = v
        /\ PatchPassed(differs, e) = Shifted(x.buffer, F)
    BY <1>1, <1>3, <1>7, PatchReads DEF differs
  <2>. HIDE DEF e
  <2>5. /\ IsStream(y)
        /\ Kept(y, r, D \cup {"buffer"})
        /\ y.inst = [r.inst EXCEPT !.src1_val = Patched(differs, p, e)]
        /\ y.register_file = [r.register_file EXCEPT ![src] = Patched(differs, p, e)]
        /\ y.buffer = PatchPassed(differs, e)
    BY <2>1, <2>3 DEF get_src1_val, IsStream, Kept, Fields
  <2>6. \A f \in D : y[f] = x[f]
    BY <1>3, <2>2, <2>4, <2>5
  <2>7. "key" \notin D
    OBVIOUS
  <2>. HIDE DEF y, D
  <2>8. Reads(y, x, K, F)
    BY <1>3, <1>7, <2>4, <2>5, <2>6, <2>7, ReadsKept
  <2>. QED  BY <2>8 DEF y
<1>11. InstSet(x.inst, w.inst, out, {"src1_val"})
  <2>. w.inst \in Instructions
    BY <1>2 DEF StreamParts
  <2>. QED  BY <1>3 DEF InstSet, InstFields, Instructions, v
<1>. QED  BY <1>3, <1>4, <1>5, <1>6, <1>7, <1>11

LEMMA Src2Step ==
    ASSUME NEW w, StreamType(w), BufferOK(w.buffer), NEW out \in Instructions,
           NEW x, x = put_src2_val(w, out)
    PROVE  /\ StreamType(x)
           /\ InstSet(x.inst, w.inst, out, {"src2_val"})
           /\ KeyKept(x.key, w.key, {"src2_val"})
           /\ Appended(w.buffer, x.buffer, IfRead(x.key.first.src2_val, 4))
           /\ \A r, K, F :
                 /\ Reads(r, w, K, F) /\ Carries(F, x.buffer)
                 /\ KeyAgrees(K, x.key, {"src2_val"})
                 => Reads(get_src2_val(r), x, K, F)
<1>. DEFINE v == out.src2_val
            src == w.inst.op.src2
            p == w.register_file[src]
            differs == v # p
            D == {"inst", "register_file"}
<1>1. v \in Word /\ p \in Word /\ differs \in BOOLEAN
  <2>1. v \in Word
    BY DEF Instructions
  <2>2. p \in Word
    BY StreamFields DEF StreamParts, Instructions, Ops
  <2>. QED  BY <2>1, <2>2
<1>2. IsStream(w) /\ StreamParts(w)
  BY StreamFields
<1>. HIDE DEF differs
<1>3. /\ IsStream(x)
      /\ Kept(x, w, D \cup {"key", "buffer"})
      /\ x.inst = [w.inst EXCEPT !.src2_val = v]
      /\ x.register_file = [w.register_file EXCEPT ![src] = v]
      /\ x.key = [w.key EXCEPT !.first.src2_val = differs]
      /\ x.buffer = PatchPut(v, p, w.buffer)
  BY <1>2 DEF put_src2_val, IsStream, Kept, Fields, differs
<1>4. /\ x.key \in Keys /\ x.key.first.src2_val = differs
      /\ KeyKept(x.key, w.key, {"src2_val"})
  <2>1. w.key \in Keys
    BY <1>2 DEF StreamParts
  <2>. QED  BY <1>1, <1>3, <2>1 DEF Keys, KeyKept, KeyAgrees, KeyFields, Flat
<1>5. StreamType(x)
  <2>1. w.inst \in Instructions /\ w.register_file \in [Registers -> Word]
    BY <1>2 DEF StreamParts
  <2>2. x.inst \in Instructions
    BY <1>1, <1>3, <2>1 DEF Instructions
  <2>3. x.register_file \in [Registers -> Word]
    BY <1>1, <1>3, <2>1
  <2>4. StreamParts(x)
    BY <1>2, <1>3, <1>4, <2>2, <2>3 DEF StreamParts, Kept, Fields
  <2>. QED  BY <1>3, <2>4, FieldsStream
<1>. HIDE DEF v, p, src
<1>6. Appended(w.buffer, x.buffer, IfRead(differs, 4))
  BY <1>1, <1>3, PatchAppends DEF differs
<1>7. ASSUME NEW r, NEW K, NEW F, Reads(r, w, K, F), Carries(F, x.buffer),
             KeyAgrees(K, x.key, {"src2_val"})
      PROVE  Reads(get_src2_val(r), x, K, F)
  <2>. DEFINE y == get_src2_val(r)
              e == Shifted(w.buffer, F)
  <2>1. IsStream(r) /\ r.key.first.src2_val = differs /\ r.buffer = e
    BY <1>4, <1>7 DEF Reads, KeyAgrees, Flat
  <2>2. r.inst = w.inst /\ r.register_file = w.register_file
    BY <1>7 DEF Reads, Kept, Fields
  <2>3. r.inst.op.src2 = src /\ r.register_file[src] = p
    BY <2>2 DEF src, p
  <2>4. /\ Patched(differs, p, e) = v
        /\ PatchPassed(differs, e) = Shifted(x.buffer, F)
    BY <1>1, <1>3, <1>7, PatchReads DEF differs
  <2>. HIDE DEF e
  <2>5. /\ IsStream(y)
        /\ Kept(y, r, D \cup {"buffer"})
        /\ y.inst = [r.inst EXCEPT !.src2_val = Patched(differs, p, e)]
        /\ y.register_file = [r.register_file EXCEPT ![src] = Patched(differs, p, e)]
        /\ y.buffer = PatchPassed(differs, e)
    BY <2>1, <2>3 DEF get_src2_val, IsStream, Kept, Fields
  <2>6. \A f \in D : y[f] = x[f]
    BY <1>3, <2>2, <2>4, <2>5
  <2>7. "key" \notin D
    OBVIOUS
  <2>. HIDE DEF y, D
  <2>8. Reads(y, x, K, F)
    BY <1>3, <1>7, <2>4, <2>5, <2>6, <2>7, ReadsKept
  <2>. QED  BY <2>8 DEF y
<1>11. InstSet(x.inst, w.inst, out, {"src2_val"})
  <2>. w.inst \in Instructions
    BY <1>2 DEF StreamParts
  <2>. QED  BY <1>3 DEF InstSet, InstFields, Instructions, v
<1>. QED  BY <1>3, <1>4, <1>5, <1>6, <1>7, <1>11

--------------------------------------------------------------------------------
(* A value with a prediction and two caches *)

LEMMA ValueAppends ==
    ASSUME NEW p, NEW l0, NEW l1, NEW v, NEW b, BufferOK(b),
           NEW type, type = ValueType(p, l0, l1, v)
    PROVE  /\ type \in 0..3
           /\ Appended(b, ValuePut(type, l0, l1, v, b), TypeBytes(type))
<1>1. type \in 0..3
  BY DEF ValueType
<1>2. CASE type = 0
  BY <1>2, SameBuffer DEF ValuePut, TypeBytes
<1>3. CASE type = 1
  BY <1>3, PutBuffer DEF ValuePut, TypeBytes
<1>4. CASE type = 2
  BY <1>4, PutBuffer DEF ValuePut, TypeBytes
<1>5. CASE type = 3
  BY <1>5, PutBuffer DEF ValuePut, TypeBytes
<1>. QED  BY <1>1, <1>2, <1>3, <1>4, <1>5

LEMMA ValueReads ==
    ASSUME NEW sets0 \in Nat \ {0}, NEW page0 \in Nat \ {0},
           NEW sets1 \in Nat \ {0}, NEW page1 \in Nat \ {0},
           NEW l0 \in ValueCaches(sets0, page0), NEW l1 \in ValueCaches(sets1, page1),
           NEW p, NEW v \in Word, NEW b, BufferOK(b),
           NEW type, type = ValueType(p, l0, l1, v),
           NEW F, Carries(F, ValuePut(type, l0, l1, v, b))
    PROVE  LET e == Shifted(b, F)
           IN  /\ ValueRead(type, p, l0, l1, e) = v
               /\ ValuePassed(type, e)
                     = Shifted(ValuePut(type, l0, l1, v, b), F)
<1>1. type \in 0..3
  BY DEF ValueType
<1>2. CASE type = 0
  <2>1. v = p
    BY <1>2 DEF ValueType
  <2>. QED  BY <1>2, <2>1 DEF ValuePut, ValueRead, ValuePassed
<1>3. CASE type = 1
  <2>1. VcFound(l0, v)
    BY <1>3 DEF ValueType
  <2>2. VcValue(l0, VcId(l0, v)) = v
    BY <2>1, IdLeadsBack
  <2>. QED  BY <1>3, <2>2, PutBuffer DEF ValuePut, ValueRead, ValuePassed
<1>4. CASE type = 2
  <2>1. VcFound(l1, v)
    BY <1>4 DEF ValueType
  <2>2. VcValue(l1, VcId(l1, v)) = v
    BY <2>1, IdLeadsBack
  <2>. QED  BY <1>4, <2>2, PutBuffer DEF ValuePut, ValueRead, ValuePassed
<1>5. CASE type = 3
  BY <1>5, PutBuffer DEF ValuePut, ValueRead, ValuePassed
<1>. QED  BY <1>1, <1>2, <1>3, <1>4, <1>5

LEMMA IntoType ==
    ASSUME NEW sets \in Nat \ {0}, NEW page \in Nat \ {0},
           NEW vc \in ValueCaches(sets, page), NEW v \in Word, NEW type
    PROVE  /\ IntoL0(type, vc, v) \in ValueCaches(sets, page)
           /\ IntoL1(type, vc, v) \in ValueCaches(sets, page)
BY ValueCacheType DEF IntoL0, IntoL1

--------------------------------------------------------------------------------
(* dst_val *)

LEMMA DstStep ==
    ASSUME NEW w, StreamType(w), BufferOK(w.buffer), NEW out \in Instructions,
           NEW x, x = put_dst_val(w, out)
    PROVE  /\ StreamType(x)
           /\ InstSet(x.inst, w.inst, out, {"dst_val"})
           /\ KeyKept(x.key, w.key, {"dst_val"})
           /\ Appended(w.buffer, x.buffer, TypeBytes(x.key.first.dst_val))
           /\ \A r, K, F :
                 /\ Reads(r, w, K, F) /\ Carries(F, x.buffer)
                 /\ KeyAgrees(K, x.key, {"dst_val"})
                 => Reads(get_dst_val(r), x, K, F)
<1>. DEFINE v == out.dst_val
            p == DstPrediction(w)
            type == ValueType(p, w.dst_l0, w.dst_l1, v)
            dst == w.inst.op.dst
            vip == w.inst.instruction_addr
            D == {"inst", "register_file", "dst_stride", "dst_l0", "dst_l1"}
<1>1. IsStream(w) /\ StreamParts(w)
  BY StreamFields
<1>2. /\ w.inst \in Instructions /\ w.register_file \in [Registers -> Word]
      /\ w.dst_stride \in StridePreds(Sizes.stride)
      /\ w.dst_l0 \in ValueCaches(Sizes.l0, 1) /\ w.dst_l1 \in ValueCaches(Sizes.l1, 1)
      /\ w.key \in Keys
  BY <1>1 DEF StreamParts
<1>3. v \in Word /\ vip \in Word
  BY <1>2 DEF Instructions
<1>4. type \in 0..3
  BY DEF ValueType
<1>5. Sizes.l0 \in Nat \ {0} /\ Sizes.l1 \in Nat \ {0} /\ Sizes.stride \in Nat \ {0}
      /\ 1 \in Nat \ {0}
  BY SizesAssumption
<1>. HIDE DEF type, p
<1>6. /\ IsStream(x)
      /\ Kept(x, w, D \cup {"key", "buffer"})
      /\ x.inst = [w.inst EXCEPT !.dst_val = v]
      /\ x.register_file = [w.register_file EXCEPT ![dst] = IF dst = REG_NUL THEN @ ELSE v]
      /\ x.dst_stride = IF dst = REG_NUL THEN w.dst_stride
                        ELSE StrideTrained(w.dst_stride, vip, v)
      /\ x.dst_l0 = IntoL0(type, w.dst_l0, v)
      /\ x.dst_l1 = IntoL1(type, w.dst_l1, v)
      /\ x.key = [w.key EXCEPT !.first.dst_val = type]
      /\ x.buffer = ValuePut(type, w.dst_l0, w.dst_l1, v, w.buffer)
  BY <1>1 DEF put_dst_val, DstLearnt, IsStream, Kept, Fields, type, p
<1>7. /\ x.key \in Keys /\ x.key.first.dst_val = type
      /\ KeyKept(x.key, w.key, {"dst_val"})
  BY <1>2, <1>4, <1>6 DEF Keys, KeyKept, KeyAgrees, KeyFields, Flat
<1>8. StreamType(x)
  <2>1. x.inst \in Instructions
    BY <1>2, <1>3, <1>6 DEF Instructions
  <2>2. x.register_file \in [Registers -> Word]
    BY <1>2, <1>3, <1>6
  <2>3. x.dst_stride \in StridePreds(Sizes.stride)
    BY <1>2, <1>3, <1>5, <1>6, StrideType
  <2>4. x.dst_l0 \in ValueCaches(Sizes.l0, 1) /\ x.dst_l1 \in ValueCaches(Sizes.l1, 1)
    BY <1>2, <1>3, <1>5, <1>6, IntoType
  <2>5. StreamParts(x)
    BY <1>1, <1>6, <1>7, <2>1, <2>2, <2>3, <2>4 DEF StreamParts, Kept, Fields
  <2>. QED  BY <1>6, <2>5, FieldsStream
<1>9. Appended(w.buffer, x.buffer, TypeBytes(type))
  BY <1>6, ValueAppends DEF type
<1>10. ASSUME NEW r, NEW K, NEW F, Reads(r, w, K, F), Carries(F, x.buffer),
              KeyAgrees(K, x.key, {"dst_val"})
       PROVE  Reads(get_dst_val(r), x, K, F)
  <2>. DEFINE y == get_dst_val(r)
              e == Shifted(w.buffer, F)
              z == ValueRead(type, p, w.dst_l0, w.dst_l1, e)
  <2>1. IsStream(r) /\ r.key.first.dst_val = type /\ r.buffer = e
    BY <1>7, <1>10 DEF Reads, KeyAgrees, Flat
  <2>2. /\ r.inst = w.inst /\ r.register_file = w.register_file
        /\ r.dst_stride = w.dst_stride /\ r.dst_l0 = w.dst_l0 /\ r.dst_l1 = w.dst_l1
    BY <1>10 DEF Reads, Kept, Fields
  <2>3. DstPrediction(r) = p
    BY <2>2 DEF DstPrediction, p
  <2>4. z = v /\ ValuePassed(type, e) = Shifted(x.buffer, F)
    <3>1. Carries(F, ValuePut(type, w.dst_l0, w.dst_l1, v, w.buffer))
      BY <1>6, <1>10
    <3>. HIDE DEF v
    <3>. QED  BY <1>2, <1>3, <1>5, <1>6, <3>1, ValueReads DEF type
  <2>. HIDE DEF e, z
  <2>5. /\ IsStream(y)
        /\ Kept(y, r, D \cup {"buffer"})
        /\ y.inst = [w.inst EXCEPT !.dst_val = z]
        /\ y.register_file = [w.register_file EXCEPT ![dst] = IF dst = REG_NUL THEN @ ELSE z]
        /\ y.dst_stride = IF dst = REG_NUL THEN w.dst_stride
                          ELSE StrideTrained(w.dst_stride, vip, z)
        /\ y.dst_l0 = IntoL0(type, w.dst_l0, z)
        /\ y.dst_l1 = IntoL1(type, w.dst_l1, z)
        /\ y.buffer = ValuePassed(type, e)
    BY <2>1, <2>2, <2>3 DEF get_dst_val, DstLearnt, IsStream, Kept, Fields, z
  <2>6. \A f \in D : y[f] = x[f]
    BY <1>6, <2>4, <2>5
  <2>7. "key" \notin D
    OBVIOUS
  <2>. HIDE DEF y, D
  <2>8. Reads(y, x, K, F)
    BY <1>6, <1>10, <2>4, <2>5, <2>6, <2>7, ReadsKept
  <2>. QED  BY <2>8 DEF y
<1>11. InstSet(x.inst, w.inst, out, {"dst_val"})
  <2>. w.inst \in Instructions
    BY <1>1 DEF StreamParts
  <2>. QED  BY <1>6 DEF InstSet, InstFields, Instructions
<1>. QED  BY <1>6, <1>7, <1>8, <1>9, <1>10, <1>11

--------------------------------------------------------------------------------
(* src_vaddr and dst_vaddr *)

\* The reader before it has assigned the address it is about to get.
Follows(r, w, K, F) ==
    /\ IsStream(r)
    /\ Kept(r, w, {"inst", "key", "buffer"})
    /\ r.inst.instruction_addr = w.inst.instruction_addr
    /\ r.key = K
    /\ r.buffer = Shifted(w.buffer, F)

\* ... and after it has assigned the first of two addresses.
FollowsSrc(r, w, K, F) == Follows(r, w, K, F) /\ r.inst.src_vaddr = w.inst.src_vaddr

LEMMA FollowsKept ==
    ASSUME NEW w, NEW x, NEW r, NEW y, NEW K, NEW F, NEW D,
           Follows(r, w, K, F), IsStream(y),
           Kept(x, w, D \cup {"key", "buffer"}), Kept(y, r, D \cup {"buffer"}),
           \A f \in D : y[f] = x[f], "key" \notin D, "inst" \notin D,
           y.buffer = Shifted(x.buffer, F)
    PROVE  Follows(y, x, K, F) /\ y.inst = r.inst /\ x.inst = w.inst
<1>1. Kept(y, x, {"inst", "key", "buffer"})
  BY DEF Kept, Follows
<1>2. y.key = K /\ y.inst = r.inst /\ x.inst = w.inst
  BY DEF Kept, Follows, Fields
<1>3. y.inst.instruction_addr = x.inst.instruction_addr
  BY <1>2 DEF Follows
<1>. QED  BY <1>1, <1>2, <1>3 DEF Follows

LEMMA Vaddr1Step ==
    ASSUME NEW w, StreamType(w), BufferOK(w.buffer), NEW v \in Word,
           NEW x, x = put_vaddr1(w, v)
    PROVE  /\ StreamType(x)
           /\ x.inst = w.inst
           /\ KeyKept(x.key, w.key, {"vaddr1"})
           /\ Appended(w.buffer, x.buffer, TypeBytes(x.key.first.vaddr1))
           /\ \A r, K, F :
                 /\ Follows(r, w, K, F) /\ Carries(F, x.buffer)
                 /\ KeyAgrees(K, x.key, {"vaddr1"})
                 => /\ get_vaddr1(r).v = v
                    /\ Follows(get_vaddr1(r).w, x, K, F)
                    /\ get_vaddr1(r).w.inst = r.inst
<1>. DEFINE p == Vaddr1Prediction(w)
            type == ValueType(p, w.vaddr1_l0, w.vaddr1_l1, v)
            vip == w.inst.instruction_addr
            D == {"vaddr1_stride", "vaddr1_l0", "vaddr1_l1"}
<1>1. IsStream(w) /\ StreamParts(w)
  BY StreamFields
<1>2. /\ w.inst \in Instructions
      /\ w.vaddr1_stride \in StridePreds(Sizes.stride)
      /\ w.vaddr1_l0 \in ValueCaches(Sizes.vaddr1_l0, Sizes.page0)
      /\ w.vaddr1_l1 \in ValueCaches(Sizes.vaddr1_l1, Sizes.page1)
      /\ w.key \in Keys
  BY <1>1 DEF StreamParts
<1>3. vip \in Word
  BY <1>2 DEF Instructions
<1>4. type \in 0..3
  BY DEF ValueType
<1>5. /\ Sizes.vaddr1_l0 \in Nat \ {0} /\ Sizes.vaddr1_l1 \in Nat \ {0}
      /\ Sizes.page0 \in Nat \ {0} /\ Sizes.page1 \in Nat \ {0}
      /\ Sizes.stride \in Nat \ {0}
  BY SizesAssumption
<1>. HIDE DEF type, p
<1>6. /\ IsStream(x)
      /\ Kept(x, w, D \cup {"key", "buffer"})
      /\ x.vaddr1_stride = StrideTrained(w.vaddr1_stride, vip, v)
      /\ x.vaddr1_l0 = IntoL0(type, w.vaddr1_l0, v)
      /\ x.vaddr1_l1 = IntoL1(type, w.vaddr1_l1, v)
      /\ x.key = [w.key EXCEPT !.first.vaddr1 = type]
      /\ x.buffer = ValuePut(type, w.vaddr1_l0, w.vaddr1_l1, v, w.buffer)
  BY <1>1 DEF put_vaddr1, Vaddr1Learnt, IsStream, Kept, Fields, type, p
<1>7. /\ x.key \in Keys /\ x.key.first.vaddr1 = type
      /\ KeyKept(x.key, w.key, {"vaddr1"})
  BY <1>2, <1>4, <1>6 DEF Keys, KeyKept, KeyAgrees, KeyFields, Flat
<1>8. StreamType(x)
  <2>1. x.vaddr1_stride \in StridePreds(Sizes.stride)
    BY <1>2, <1>3, <1>5, <1>6, StrideType
  <2>2. /\ x.vaddr1_l0 \in ValueCaches(Sizes.vaddr1_l0, Sizes.page0)
        /\ x.vaddr1_l1 \in ValueCaches(Sizes.vaddr1_l1, Sizes.page1)
    BY <1>2, <1>3, <1>5, <1>6, IntoType
  <2>3. StreamParts(x)
    BY <1>1, <1>6, <1>7, <2>1, <2>2 DEF StreamParts, Kept, Fields
  <2>. QED  BY <1>6, <2>3, FieldsStream
<1>9. Appended(w.buffer, x.buffer, TypeBytes(type))
  BY <1>6, ValueAppends DEF type
<1>10. ASSUME NEW r, NEW K, NEW F, Follows(r, w, K, F), Carries(F, x.buffer),
              KeyAgrees(K, x.key, {"vaddr1"})
       PROVE  /\ get_vaddr1(r).v = v
              /\ Follows(get_vaddr1(r).w, x, K, F)
              /\ get_vaddr1(r).w.inst = r.inst
  <2>. DEFINE y == get_vaddr1(r).w
              e == Shifted(w.buffer, F)
              z == ValueRead(type, p, w.vaddr1_l0, w.vaddr1_l1, e)
  <2>1. IsStream(r) /\ r.key.first.vaddr1 = type /\ r.buffer = e
        /\ r.inst.instruction_addr = vip
    BY <1>7, <1>10 DEF Follows, KeyAgrees, Flat
  <2>2. /\ r.vaddr1_stride = w.vaddr1_stride
        /\ r.vaddr1_l0 = w.vaddr1_l0 /\ r.vaddr1_l1 = w.vaddr1_l1
    BY <1>10 DEF Follows, Kept, Fields
  <2>3. Vaddr1Prediction(r) = p
    BY <2>1, <2>2 DEF Vaddr1Prediction, p
  <2>4. z = v /\ ValuePassed(type, e) = Shifted(x.buffer, F)
    <3>1. Carries(F, ValuePut(type, w.vaddr1_l0, w.vaddr1_l1, v, w.buffer))
      BY <1>6, <1>10
    <3>. QED  BY <1>2, <1>3, <1>5, <1>6, <3>1, ValueReads DEF type
  <2>. HIDE DEF e, z
  <2>5. /\ IsStream(y)
        /\ Kept(y, r, D \cup {"buffer"})
        /\ get_vaddr1(r).v = z
        /\ y.vaddr1_stride = StrideTrained(w.vaddr1_stride, vip, z)
        /\ y.vaddr1_l0 = IntoL0(type, w.vaddr1_l0, z)
        /\ y.vaddr1_l1 = IntoL1(type, w.vaddr1_l1, z)
        /\ y.buffer = ValuePassed(type, e)
    BY <2>1, <2>2, <2>3 DEF get_vaddr1, Vaddr1Learnt, IsStream, Kept, Fields, z
  <2>6. \A f \in D : y[f] = x[f]
    BY <1>6, <2>4, <2>5
  <2>7. "key" \notin D /\ "inst" \notin D
    OBVIOUS
  <2>. HIDE DEF y, D
  <2>8. /\ Kept(y, r, D \cup {"buffer"}) /\ Kept(x, w, D \cup {"key", "buffer"})
        /\ IsStream(y) /\ y.buffer = Shifted(x.buffer, F)
    BY <1>6, <2>4, <2>5
  <2>9. Follows(y, x, K, F) /\ y.inst = r.inst
    BY <1>10, <2>6, <2>7, <2>8, FollowsKept
  <2>. QED  BY <2>4, <2>5, <2>9 DEF y
<1>11. x.inst = w.inst
  BY <1>6 DEF Kept, Fields
<1>. QED  BY <1>6, <1>7, <1>8, <1>9, <1>10, <1>11

LEMMA Vaddr2Step ==
    ASSUME NEW w, StreamType(w), BufferOK(w.buffer), NEW v \in Word,
           NEW x, x = put_vaddr2(w, v)
    PROVE  /\ StreamType(x)
           /\ x.inst = w.inst
           /\ KeyKept(x.key, w.key, {"vaddr2"})
           /\ Appended(w.buffer, x.buffer, IfRead(x.key.second.vaddr2, 4))
           /\ \A r, K, F :
                 /\ FollowsSrc(r, w, K, F) /\ Carries(F, x.buffer)
                 /\ KeyAgrees(K, x.key, {"vaddr2"})
                 => /\ get_vaddr2(r).v = v
                    /\ Follows(get_vaddr2(r).w, x, K, F)
                    /\ get_vaddr2(r).w.inst = r.inst
<1>. DEFINE p == w.inst.src_vaddr
            differs == v # p
<1>1. IsStream(w) /\ StreamParts(w)
  BY StreamFields
<1>2. p \in Word /\ w.key \in Keys /\ differs \in BOOLEAN
  BY <1>1 DEF StreamParts, Instructions
<1>. HIDE DEF differs, p
<1>3. /\ IsStream(x)
      /\ Kept(x, w, {"key", "buffer"})
      /\ x.key = [w.key EXCEPT !.second.vaddr2 = differs]
      /\ x.buffer = PatchPut(v, p, w.buffer)
  BY <1>1 DEF put_vaddr2, IsStream, Kept, Fields, differs, p
<1>4. /\ x.key \in Keys /\ x.key.second.vaddr2 = differs
      /\ KeyKept(x.key, w.key, {"vaddr2"})
  BY <1>2, <1>3 DEF Keys, KeyKept, KeyAgrees, KeyFields, Flat
<1>5. StreamType(x)
  <2>1. StreamParts(x)
    BY <1>1, <1>3, <1>4 DEF StreamParts, Kept, Fields
  <2>. QED  BY <1>3, <2>1, FieldsStream
<1>6. Appended(w.buffer, x.buffer, IfRead(differs, 4))
  BY <1>2, <1>3, PatchAppends DEF differs
<1>7. ASSUME NEW r, NEW K, NEW F, FollowsSrc(r, w, K, F), Carries(F, x.buffer),
             KeyAgrees(K, x.key, {"vaddr2"})
      PROVE  /\ get_vaddr2(r).v = v
             /\ Follows(get_vaddr2(r).w, x, K, F)
             /\ get_vaddr2(r).w.inst = r.inst
  <2>. DEFINE y == get_vaddr2(r).w
              e == Shifted(w.buffer, F)
  <2>1. IsStream(r) /\ r.key.second.vaddr2 = differs /\ r.buffer = e
        /\ r.inst.src_vaddr = p
    BY <1>4, <1>7 DEF FollowsSrc, Follows, p, KeyAgrees, Flat
  <2>2. Patched(differs, p, e) = v /\ PatchPassed(differs, e) = Shifted(x.buffer, F)
    BY <1>2, <1>3, <1>7, PatchReads DEF differs
  <2>. HIDE DEF e
  <2>3. /\ IsStream(y)
        /\ Kept(y, r, {"buffer"})
        /\ get_vaddr2(r).v = Patched(differs, p, e)
        /\ y.buffer = PatchPassed(differs, e)
    BY <2>1 DEF get_vaddr2, IsStream, Kept, Fields
  <2>. HIDE DEF y
  <2>4. Kept(y, x, {"inst", "key", "buffer"})
    BY <1>3, <1>7, <2>3 DEF Kept, FollowsSrc, Follows
  <2>5. Follows(y, x, K, F) /\ y.inst = r.inst
    BY <1>3, <1>7, <2>2, <2>3, <2>4 DEF FollowsSrc, Follows, Kept, Fields
  <2>. QED  BY <2>2, <2>3, <2>5 DEF y
<1>8. x.inst = w.inst
  BY <1>3 DEF Kept, Fields
<1>. QED  BY <1>3, <1>4, <1>5, <1>6, <1>7, <1>8

\* The instruction gets an address, before or after it is coded.
WithSrc(w, v) == [w EXCEPT !.inst.src_vaddr = v]

LEMMA SrcNamed ==
    ASSUME NEW w, StreamType(w), NEW v \in Word, NEW x, x = WithSrc(w, v)
    PROVE  /\ StreamType(x) /\ x.key = w.key /\ x.buffer = w.buffer
           /\ x.inst = [w.inst EXCEPT !.src_vaddr = v]
           /\ x.inst.instruction_addr = w.inst.instruction_addr
           /\ Kept(x, w, {"inst"})
<1>1. IsStream(w) /\ StreamParts(w)
  BY StreamFields
<1>2. /\ IsStream(x) /\ Kept(x, w, {"inst"}) /\ x.key = w.key /\ x.buffer = w.buffer
      /\ x.inst = [w.inst EXCEPT !.src_vaddr = v]
  BY <1>1 DEF WithSrc, IsStream, Kept, Fields
<1>3. x.inst \in Instructions /\ x.inst.instruction_addr = w.inst.instruction_addr
  BY <1>1, <1>2 DEF StreamParts, Instructions
<1>4. StreamParts(x)
  BY <1>1, <1>2, <1>3 DEF StreamParts, Kept, Fields
<1>. QED  BY <1>2, <1>3, <1>4, FieldsStream

LEMMA SrcAssigned ==
    ASSUME NEW w, IsStream(w), NEW x, NEW g, NEW K, NEW F, NEW v, Follows(g, x, K, F),
           x.inst = WithSrc(w, v).inst, g.inst = w.inst
    PROVE  Reads(WithSrc(g, v), x, K, F)
<1>. DEFINE y == WithSrc(g, v)
<1>1. IsStream(g)
  BY DEF Follows
<1>2. /\ IsStream(y) /\ Kept(y, g, {"inst"}) /\ y.key = g.key /\ y.buffer = g.buffer
      /\ y.inst = x.inst
  BY <1>1 DEF WithSrc, IsStream, Kept, Fields
<1>. HIDE DEF y
<1>3. Kept(y, x, {"key", "buffer"})
  BY <1>2 DEF Follows, Kept
<1>4. Reads(y, x, K, F)
  BY <1>2, <1>3 DEF Follows, Reads
<1>. QED  BY <1>4 DEF y

\* The instruction gets an address, before or after it is coded.
WithDst(w, v) == [w EXCEPT !.inst.dst_vaddr = v]

LEMMA DstNamed ==
    ASSUME NEW w, StreamType(w), NEW v \in Word, NEW x, x = WithDst(w, v)
    PROVE  /\ StreamType(x) /\ x.key = w.key /\ x.buffer = w.buffer
           /\ x.inst = [w.inst EXCEPT !.dst_vaddr = v]
           /\ x.inst.instruction_addr = w.inst.instruction_addr
           /\ Kept(x, w, {"inst"})
<1>1. IsStream(w) /\ StreamParts(w)
  BY StreamFields
<1>2. /\ IsStream(x) /\ Kept(x, w, {"inst"}) /\ x.key = w.key /\ x.buffer = w.buffer
      /\ x.inst = [w.inst EXCEPT !.dst_vaddr = v]
  BY <1>1 DEF WithDst, IsStream, Kept, Fields
<1>3. x.inst \in Instructions /\ x.inst.instruction_addr = w.inst.instruction_addr
  BY <1>1, <1>2 DEF StreamParts, Instructions
<1>4. StreamParts(x)
  BY <1>1, <1>2, <1>3 DEF StreamParts, Kept, Fields
<1>. QED  BY <1>2, <1>3, <1>4, FieldsStream

LEMMA DstAssigned ==
    ASSUME NEW w, IsStream(w), NEW x, NEW g, NEW K, NEW F, NEW v, Follows(g, x, K, F),
           x.inst = WithDst(w, v).inst, g.inst = w.inst
    PROVE  Reads(WithDst(g, v), x, K, F)
<1>. DEFINE y == WithDst(g, v)
<1>1. IsStream(g)
  BY DEF Follows
<1>2. /\ IsStream(y) /\ Kept(y, g, {"inst"}) /\ y.key = g.key /\ y.buffer = g.buffer
      /\ y.inst = x.inst
  BY <1>1 DEF WithDst, IsStream, Kept, Fields
<1>. HIDE DEF y
<1>3. Kept(y, x, {"key", "buffer"})
  BY <1>2 DEF Follows, Kept
<1>4. Reads(y, x, K, F)
  BY <1>2, <1>3 DEF Follows, Reads
<1>. QED  BY <1>4 DEF y

\* The part of the key, and the bytes, that code an instruction's addresses.
SrcKey(op) == IF op.has_mem_src THEN {"vaddr1"} ELSE {}
SrcBytes(op, key) == IF op.has_mem_src THEN TypeBytes(key.first.vaddr1) ELSE 0

DstKey(op) ==
    IF ~op.has_mem_dst THEN {} ELSE IF op.has_mem_src THEN {"vaddr2"} ELSE {"vaddr1"}
DstBytes(op, key) ==
    IF ~op.has_mem_dst THEN 0
    ELSE IF op.has_mem_src THEN IfRead(key.second.vaddr2, 4)
    ELSE TypeBytes(key.first.vaddr1)

LEMMA SrcVaddrStep ==
    ASSUME NEW w, StreamType(w), BufferOK(w.buffer), NEW out \in Instructions,
           ~w.inst.op.has_mem_src => out.src_vaddr = 0,
           NEW x, x = put_src_vaddr(w, out)
    PROVE  /\ StreamType(x)
           /\ InstSet(x.inst, w.inst, out, {"src_vaddr"})
           /\ KeyKept(x.key, w.key, SrcKey(w.inst.op))
           /\ Appended(w.buffer, x.buffer, SrcBytes(w.inst.op, x.key))
           /\ \A r, K, F :
                 /\ Reads(r, w, K, F) /\ Carries(F, x.buffer)
                 /\ KeyAgrees(K, x.key, SrcKey(w.inst.op))
                 => Reads(get_src_vaddr(r), x, K, F)
<1>. DEFINE v == out.src_vaddr
            named == WithSrc(w, v)
<1>1. v \in Word /\ IsStream(w) /\ w.inst \in Instructions
  BY StreamFields DEF Instructions, StreamParts
<1>2. /\ StreamType(named) /\ named.key = w.key /\ named.buffer = w.buffer
      /\ named.inst = [w.inst EXCEPT !.src_vaddr = v]
      /\ named.inst.instruction_addr = w.inst.instruction_addr
      /\ Kept(named, w, {"inst"})
  BY <1>1, SrcNamed
<1>3. InstSet(named.inst, w.inst, out, {"src_vaddr"})
  BY <1>1, <1>2 DEF InstSet, InstFields, Instructions
<1>. HIDE DEF v, named
<1>4. ASSUME NEW r, NEW K, NEW F, Reads(r, w, K, F)
      PROVE  Follows(r, named, K, F) /\ r.inst = w.inst
  BY <1>2, <1>4 DEF Reads, Follows, Kept, Fields
<1>5. ASSUME NEW g, NEW K, NEW F, Follows(g, x, K, F), g.inst = w.inst, x.inst = named.inst
      PROVE  Reads(WithSrc(g, v), x, K, F)
  BY <1>1, <1>5, SrcAssigned DEF named
<1>6. CASE w.inst.op.has_mem_src
  <2>1. x = put_vaddr1(named, v)
    BY <1>6 DEF put_src_vaddr, WithSrc, named, v
  <2>2. /\ StreamType(x) /\ x.inst = named.inst
        /\ KeyKept(x.key, w.key, {"vaddr1"})
        /\ Appended(w.buffer, x.buffer, TypeBytes(x.key.first.vaddr1))
    BY <1>1, <1>2, <2>1, Vaddr1Step
  <2>3. ASSUME NEW r, NEW K, NEW F, Reads(r, w, K, F), Carries(F, x.buffer),
               KeyAgrees(K, x.key, {"vaddr1"})
        PROVE  Reads(get_src_vaddr(r), x, K, F)
    <3>. DEFINE g == get_vaddr1(r)
    <3>1. r.inst = w.inst /\ Follows(r, named, K, F)
      BY <1>4, <2>3
    <3>2. g.v = v /\ Follows(g.w, x, K, F) /\ g.w.inst = w.inst
      BY <1>1, <1>2, <2>1, <2>3, <3>1, Vaddr1Step
    <3>3. get_src_vaddr(r) = WithSrc(g.w, g.v)
      BY <1>6, <3>1 DEF get_src_vaddr, WithSrc
    <3>. HIDE DEF g
    <3>. QED  BY <1>5, <2>2, <3>2, <3>3
  <2>. QED  BY <1>3, <1>6, <2>2, <2>3 DEF SrcKey, SrcBytes
<1>7. CASE ~w.inst.op.has_mem_src
  <2>1. x = named /\ v = 0
    BY <1>7 DEF put_src_vaddr, WithSrc, named, v
  <2>2. KeyKept(x.key, w.key, {}) /\ Appended(w.buffer, x.buffer, 0)
    BY <1>2, <2>1, SameBuffer DEF KeyKept, KeyAgrees
  <2>3. ASSUME NEW r, NEW K, NEW F, Reads(r, w, K, F)
        PROVE  Reads(get_src_vaddr(r), x, K, F)
    <3>1. r.inst = w.inst /\ Follows(r, x, K, F)
      BY <1>4, <2>1, <2>3
    <3>2. get_src_vaddr(r) = WithSrc(r, v)
      BY <1>7, <2>1, <3>1 DEF get_src_vaddr, WithSrc
    <3>. QED  BY <1>5, <2>1, <3>1, <3>2
  <2>. QED  BY <1>2, <1>3, <1>7, <2>1, <2>2, <2>3 DEF SrcKey, SrcBytes
<1>. QED  BY <1>6, <1>7

LEMMA DstVaddrStep ==
    ASSUME NEW w, StreamType(w), BufferOK(w.buffer), NEW out \in Instructions,
           ~w.inst.op.has_mem_dst => out.dst_vaddr = 0,
           NEW x, x = put_dst_vaddr(w, out)
    PROVE  /\ StreamType(x)
           /\ InstSet(x.inst, w.inst, out, {"dst_vaddr"})
           /\ KeyKept(x.key, w.key, DstKey(w.inst.op))
           /\ Appended(w.buffer, x.buffer, DstBytes(w.inst.op, x.key))
           /\ \A r, K, F :
                 /\ Reads(r, w, K, F) /\ Carries(F, x.buffer)
                 /\ KeyAgrees(K, x.key, DstKey(w.inst.op))
                 => Reads(get_dst_vaddr(r), x, K, F)
<1>. DEFINE v == out.dst_vaddr
            named == WithDst(w, v)
<1>1. v \in Word /\ IsStream(w) /\ w.inst \in Instructions
  BY StreamFields DEF Instructions, StreamParts
<1>2. /\ StreamType(named) /\ named.key = w.key /\ named.buffer = w.buffer
      /\ named.inst = [w.inst EXCEPT !.dst_vaddr = v]
      /\ named.inst.instruction_addr = w.inst.instruction_addr
      /\ Kept(named, w, {"inst"})
  BY <1>1, DstNamed
<1>3. InstSet(named.inst, w.inst, out, {"dst_vaddr"})
      /\ named.inst.src_vaddr = w.inst.src_vaddr
  BY <1>1, <1>2 DEF InstSet, InstFields, Instructions
<1>. HIDE DEF v, named
<1>4. ASSUME NEW r, NEW K, NEW F, Reads(r, w, K, F)
      PROVE  Follows(r, named, K, F) /\ r.inst = w.inst
  BY <1>2, <1>4 DEF Reads, Follows, Kept, Fields
<1>5. ASSUME NEW g, NEW K, NEW F, Follows(g, x, K, F), g.inst = w.inst, x.inst = named.inst
      PROVE  Reads(WithDst(g, v), x, K, F)
  BY <1>1, <1>5, DstAssigned DEF named
<1>6. CASE w.inst.op.has_mem_dst /\ ~w.inst.op.has_mem_src
  <2>1. x = put_vaddr1(named, v)
    BY <1>6 DEF put_dst_vaddr, WithDst, named, v
  <2>2. /\ StreamType(x) /\ x.inst = named.inst
        /\ KeyKept(x.key, w.key, {"vaddr1"})
        /\ Appended(w.buffer, x.buffer, TypeBytes(x.key.first.vaddr1))
    BY <1>1, <1>2, <2>1, Vaddr1Step
  <2>3. ASSUME NEW r, NEW K, NEW F, Reads(r, w, K, F), Carries(F, x.buffer),
               KeyAgrees(K, x.key, {"vaddr1"})
        PROVE  Reads(get_dst_vaddr(r), x, K, F)
    <3>. DEFINE g == get_vaddr1(r)
    <3>1. r.inst = w.inst /\ Follows(r, named, K, F)
      BY <1>4, <2>3
    <3>2. g.v = v /\ Follows(g.w, x, K, F) /\ g.w.inst = w.inst
      BY <1>1, <1>2, <2>1, <2>3, <3>1, Vaddr1Step
    <3>3. get_dst_vaddr(r) = WithDst(g.w, g.v)
      BY <1>6, <3>1 DEF get_dst_vaddr, WithDst
    <3>. HIDE DEF g
    <3>. QED  BY <1>5, <2>2, <3>2, <3>3
  <2>. QED  BY <1>3, <1>6, <2>2, <2>3 DEF DstKey, DstBytes
<1>7. CASE w.inst.op.has_mem_dst /\ w.inst.op.has_mem_src
  <2>1. x = put_vaddr2(named, v)
    BY <1>7 DEF put_dst_vaddr, WithDst, named, v
  <2>2. /\ StreamType(x) /\ x.inst = named.inst
        /\ KeyKept(x.key, w.key, {"vaddr2"})
        /\ Appended(w.buffer, x.buffer, IfRead(x.key.second.vaddr2, 4))
    BY <1>1, <1>2, <2>1, Vaddr2Step
  <2>3. ASSUME NEW r, NEW K, NEW F, Reads(r, w, K, F), Carries(F, x.buffer),
               KeyAgrees(K, x.key, {"vaddr2"})
        PROVE  Reads(get_dst_vaddr(r), x, K, F)
    <3>. DEFINE g == get_vaddr2(r)
    <3>1. r.inst = w.inst /\ FollowsSrc(r, named, K, F)
      BY <1>3, <1>4, <2>3 DEF FollowsSrc
    <3>2. g.v = v /\ Follows(g.w, x, K, F) /\ g.w.inst = w.inst
      BY <1>1, <1>2, <2>1, <2>3, <3>1, Vaddr2Step
    <3>3. get_dst_vaddr(r) = WithDst(g.w, g.v)
      BY <1>7, <3>1 DEF get_dst_vaddr, WithDst
    <3>. HIDE DEF g
    <3>. QED  BY <1>5, <2>2, <3>2, <3>3
  <2>. QED  BY <1>3, <1>7, <2>2, <2>3 DEF DstKey, DstBytes
<1>8. CASE ~w.inst.op.has_mem_dst
  <2>1. x = named /\ v = 0
    BY <1>8 DEF put_dst_vaddr, WithDst, named, v
  <2>2. KeyKept(x.key, w.key, {}) /\ Appended(w.buffer, x.buffer, 0)
    BY <1>2, <2>1, SameBuffer DEF KeyKept, KeyAgrees
  <2>3. ASSUME NEW r, NEW K, NEW F, Reads(r, w, K, F)
        PROVE  Reads(get_dst_vaddr(r), x, K, F)
    <3>1. r.inst = w.inst /\ Follows(r, x, K, F)
      BY <1>4, <2>1, <2>3
    <3>2. get_dst_vaddr(r) = WithDst(r, v)
      BY <1>8, <2>1, <3>1 DEF get_dst_vaddr, WithDst
    <3>. QED  BY <1>5, <2>1, <3>1, <3>2
  <2>. QED  BY <1>2, <1>3, <1>8, <2>1, <2>2, <2>3 DEF DstKey, DstBytes
<1>. QED  BY <1>6, <1>7, <1>8

--------------------------------------------------------------------------------
(* taken *)

LEMMA TakenStep ==
    ASSUME NEW w, StreamType(w), BufferOK(w.buffer), NEW out \in Instructions,
           NEW x, x = put_taken(w, out)
    PROVE  /\ StreamType(x)
           /\ InstSet(x.inst, w.inst, out, {"taken"})
           /\ KeyKept(x.key, w.key, {"taken"})
           /\ Appended(w.buffer, x.buffer, 0)
           /\ \A r, K, F :
                 /\ Reads(r, w, K, F) /\ Carries(F, x.buffer)
                 /\ KeyAgrees(K, x.key, {"taken"})
                 => Reads(get_taken(r), x, K, F)
<1>. DEFINE v == out.taken
            p == TakenPrediction(w)
            differs == p # v
            vip == w.inst.instruction_addr
            learnt(t) == IF w.inst.op.is_conditional THEN CondTrained(w.taken_pred, vip, t)
                         ELSE w.taken_pred
            D == {"inst", "taken_pred"}
<1>1. IsStream(w) /\ StreamParts(w)
  BY StreamFields
<1>2. /\ w.inst \in Instructions /\ w.taken_pred \in CondPreds(Sizes.cond_bits)
      /\ w.key \in Keys
  BY <1>1 DEF StreamParts
<1>3. v \in BOOLEAN /\ p \in BOOLEAN /\ differs \in BOOLEAN
  BY DEF Instructions, TakenPrediction
<1>4. (p # differs) = v
  BY <1>3
<1>. HIDE DEF p, v, differs
<1>5. /\ IsStream(x)
      /\ Kept(x, w, D \cup {"key", "buffer"})
      /\ x.inst = [w.inst EXCEPT !.taken = v]
      /\ x.taken_pred = learnt(v)
      /\ x.key = [w.key EXCEPT !.first.taken = differs]
      /\ x.buffer = w.buffer
  BY <1>1 DEF put_taken, TakenLearnt, IsStream, Kept, Fields, p, v, differs
<1>6. /\ x.key \in Keys /\ x.key.first.taken = differs
      /\ KeyKept(x.key, w.key, {"taken"})
  BY <1>2, <1>3, <1>5 DEF Keys, KeyKept, KeyAgrees, KeyFields, Flat
<1>7. StreamType(x) /\ InstSet(x.inst, w.inst, out, {"taken"})
  <2>1. x.inst \in Instructions /\ InstSet(x.inst, w.inst, out, {"taken"})
    BY <1>2, <1>3, <1>5 DEF Instructions, InstSet, InstFields, v
  <2>2. x.taken_pred \in CondPreds(Sizes.cond_bits)
    BY <1>2, <1>3, <1>5, CondType
  <2>. HIDE DEF learnt
  <2>3. StreamParts(x)
    BY <1>1, <1>5, <1>6, <2>1, <2>2 DEF StreamParts, Kept, Fields
  <2>. QED  BY <1>5, <2>1, <2>3, FieldsStream
<1>8. Appended(w.buffer, x.buffer, 0)
  BY <1>5, SameBuffer
<1>9. ASSUME NEW r, NEW K, NEW F, Reads(r, w, K, F), KeyAgrees(K, x.key, {"taken"})
      PROVE  Reads(get_taken(r), x, K, F)
  <2>. DEFINE y == get_taken(r)
              z == p # differs
  <2>1. IsStream(r) /\ r.key.first.taken = differs
        /\ r.buffer = Shifted(w.buffer, F)
    BY <1>6, <1>9 DEF Reads, KeyAgrees, Flat
  <2>2. r.inst = w.inst /\ r.taken_pred = w.taken_pred
    BY <1>9 DEF Reads, Kept, Fields
  <2>3. TakenPrediction(r) = p
    BY <2>2 DEF TakenPrediction, p
  <2>4. z = v
    BY <1>4
  <2>. HIDE DEF z
  <2>5. y = TakenLearnt(r, v)
    BY <2>1, <2>3, <2>4 DEF get_taken, z
  <2>6. /\ IsStream(y)
        /\ Kept(y, r, D \cup {"buffer"})
        /\ y.inst = [w.inst EXCEPT !.taken = v]
        /\ y.taken_pred = learnt(v)
        /\ y.buffer = r.buffer
    <3>. HIDE DEF y
    <3>. QED  BY <2>1, <2>2, <2>5 DEF TakenLearnt, IsStream, Kept, Fields
  <2>7. (\A f \in D : y[f] = x[f]) /\ "key" \notin D
        /\ y.buffer = Shifted(x.buffer, F)
    <3>. HIDE DEF learnt, y
    <3>. QED  BY <1>5, <2>1, <2>6
  <2>. HIDE DEF y, D, learnt
  <2>8. Reads(y, x, K, F)
    BY <1>5, <1>9, <2>6, <2>7, ReadsKept
  <2>. QED  BY <2>8 DEF y
<1>. QED  BY <1>6, <1>7, <1>8, <1>9

--------------------------------------------------------------------------------
(* branch_target *)

LEMMA TargetStep ==
    ASSUME NEW w, StreamType(w), BufferOK(w.buffer), NEW out \in Instructions,
           ~w.inst.op.is_indirect => w.inst.branch_target = out.branch_target,
           NEW x, x = put_branch_target(w, out)
    PROVE  /\ StreamType(x)
           /\ InstSet(x.inst, w.inst, out, {"branch_target"})
           /\ KeyKept(x.key, w.key, {"branch_target"})
           /\ Appended(w.buffer, x.buffer, TypeBytes(x.key.second.branch_target))
           /\ x.ret_pred = IF w.inst.op.is_branch THEN ReturnStack(w) ELSE w.ret_pred
           /\ /\ w.inst.op.is_branch /\ w.inst.op.is_indirect /\ w.inst.op.is_return
              /\ out.branch_target = FsTop(w.ret_pred)
              => x.key.second.branch_target = 0
           /\ \A r, K, F :
                 /\ Reads(r, w, K, F) /\ Carries(F, x.buffer)
                 /\ KeyAgrees(K, x.key, {"branch_target"})
                 => Reads(get_branch_target(r), x, K, F)
<1>. DEFINE v == out.branch_target
            named == [w EXCEPT !.inst.branch_target = v]
            p == TargetPrediction(named)
            type == ValueType(p, w.target_l0, w.target_l1, v)
            vip == w.inst.instruction_addr
            op == w.inst.op
            indirect == op.is_branch /\ op.is_indirect /\ ~op.is_return
            put == IF type = 3 THEN put_buffer(w.buffer, 4, BitXor(v, vip))
                   ELSE ValuePut(type, w.target_l0, w.target_l1, v, w.buffer)
            ret == IF op.is_branch THEN ReturnStack(w) ELSE w.ret_pred
            ind(a) == IF indirect THEN IndTrained(w.ind_pred, vip, a) ELSE w.ind_pred
            D == {"inst", "ret_pred", "ind_pred", "target_l0", "target_l1"}
<1>1. IsStream(w) /\ StreamParts(w)
  BY StreamFields
<1>2. /\ w.inst \in Instructions /\ w.key \in Keys
      /\ w.ret_pred \in FiniteStacks(Sizes.stack)
      /\ w.ind_pred \in IndirectPreds(Sizes.ind_bits, Sizes.element)
      /\ w.target_l0 \in ValueCaches(Sizes.l0, 1)
      /\ w.target_l1 \in ValueCaches(Sizes.l1, 1)
  BY <1>1 DEF StreamParts
<1>3. v \in Word /\ vip \in Word /\ w.inst.instruction_next_addr \in Word
  BY <1>2 DEF Instructions
<1>4. type \in 0..3
  BY DEF ValueType
<1>5. Sizes.l0 \in Nat \ {0} /\ Sizes.l1 \in Nat \ {0} /\ Sizes.stack \in Nat \ {0}
      /\ 1 \in Nat \ {0}
  BY SizesAssumption
<1>6. /\ IsStream(named) /\ Kept(named, w, {"inst"})
      /\ named.inst = [w.inst EXCEPT !.branch_target = v]
      /\ named.inst.op = op /\ named.inst.instruction_addr = vip
      /\ named.inst.branch_target = v
      /\ named.inst.instruction_next_addr = w.inst.instruction_next_addr
      /\ ReturnStack(named) = ReturnStack(w)
  <2>1. /\ IsStream(named) /\ Kept(named, w, {"inst"})
        /\ named.inst = [w.inst EXCEPT !.branch_target = v]
    BY <1>1 DEF IsStream, Kept, Fields
  <2>2. /\ named.inst.op = op /\ named.inst.instruction_addr = vip
        /\ named.inst.branch_target = v
        /\ named.inst.instruction_next_addr = w.inst.instruction_next_addr
    BY <1>2 DEF Instructions
  <2>3. named.ret_pred = w.ret_pred
    BY <2>1 DEF Kept, Fields
  <2>. HIDE DEF named
  <2>4. ReturnStack(named) = ReturnStack(w)
    BY <2>2, <2>3 DEF ReturnStack
  <2>. QED  BY <2>1, <2>2, <2>4
<1>. HIDE DEF v, named, p, type
<1>7. /\ IsStream(x)
      /\ Kept(x, named, D \cup {"key", "buffer"})
      /\ x.inst = [named.inst EXCEPT !.branch_target = v]
      /\ x.ret_pred = IF named.inst.op.is_branch THEN ReturnStack(named) ELSE named.ret_pred
      /\ x.ind_pred = IF /\ named.inst.op.is_branch /\ named.inst.op.is_indirect
                         /\ ~named.inst.op.is_return
                      THEN IndTrained(named.ind_pred, named.inst.instruction_addr, v)
                      ELSE named.ind_pred
      /\ x.target_l0 = IntoL0(type, named.target_l0, v)
      /\ x.target_l1 = IntoL1(type, named.target_l1, v)
      /\ x.key = [named.key EXCEPT !.second.branch_target = type]
      /\ x.buffer = IF type = 3 THEN put_buffer(named.buffer, 4, BitXor(v, vip))
                    ELSE ValuePut(type, w.target_l0, w.target_l1, v, named.buffer)
  <2>1. x = [TargetLearnt(named, type, v) EXCEPT
            !.key.second.branch_target = type,
            !.buffer =
                IF type = 3 THEN put_buffer(@, 4, BitXor(v, w.inst.instruction_addr))
                ELSE ValuePut(type, w.target_l0, w.target_l1, v, @)]
    BY DEF put_branch_target, type, p, named, v
  <2>. DEFINE u == TargetLearnt(named, type, v)
  <2>2. /\ IsStream(u) /\ Kept(u, named, D)
        /\ u.inst = [named.inst EXCEPT !.branch_target = v]
        /\ u.ret_pred = IF named.inst.op.is_branch THEN ReturnStack(named) ELSE named.ret_pred
        /\ u.ind_pred = IF /\ named.inst.op.is_branch /\ named.inst.op.is_indirect
                           /\ ~named.inst.op.is_return
                        THEN IndTrained(named.ind_pred, named.inst.instruction_addr, v)
                        ELSE named.ind_pred
        /\ u.target_l0 = IntoL0(type, named.target_l0, v)
        /\ u.target_l1 = IntoL1(type, named.target_l1, v)
        /\ u.key = named.key /\ u.buffer = named.buffer
    <3>. HIDE DEF vip, op
    <3>1. IsStream(named)
      BY <1>6
    <3>. QED  BY <3>1 DEF TargetLearnt, IsStream, Kept, Fields
  <2>. HIDE DEF u
  <2>3. /\ IsStream(x) /\ Kept(x, u, {"key", "buffer"})
        /\ x.key = [u.key EXCEPT !.second.branch_target = type]
        /\ x.buffer = IF type = 3 THEN put_buffer(u.buffer, 4, BitXor(v, vip))
                      ELSE ValuePut(type, w.target_l0, w.target_l1, v, u.buffer)
    BY <2>1, <2>2 DEF IsStream, Kept, Fields, u
  <2>4. Kept(x, named, D \cup {"key", "buffer"})
    BY <2>2, <2>3 DEF Kept
  <2>5. \A f \in D : x[f] = u[f]
    BY <2>3 DEF Kept, Fields
  <2>. QED  BY <2>2, <2>3, <2>4, <2>5
<1>8. /\ Kept(x, w, D \cup {"key", "buffer"})
      /\ x.inst = [w.inst EXCEPT !.branch_target = v]
      /\ x.ret_pred = ret /\ x.ind_pred = ind(v)
      /\ x.target_l0 = IntoL0(type, w.target_l0, v)
      /\ x.target_l1 = IntoL1(type, w.target_l1, v)
      /\ x.key = [w.key EXCEPT !.second.branch_target = type]
      /\ x.buffer = put
  <2>1. Kept(x, w, D \cup {"key", "buffer"})
    BY <1>6, <1>7 DEF Kept
  <2>2. /\ named.ret_pred = w.ret_pred /\ named.ind_pred = w.ind_pred
        /\ named.target_l0 = w.target_l0 /\ named.target_l1 = w.target_l1
        /\ named.key = w.key /\ named.buffer = w.buffer
    BY <1>6 DEF Kept, Fields
  <2>3. x.inst = [w.inst EXCEPT !.branch_target = v]
    BY <1>2, <1>6, <1>7 DEF Instructions
  <2>. QED  BY <1>6, <1>7, <2>1, <2>2, <2>3
<1>9. /\ x.key \in Keys /\ x.key.second.branch_target = type
      /\ KeyKept(x.key, w.key, {"branch_target"})
  BY <1>2, <1>4, <1>8 DEF Keys, KeyKept, KeyAgrees, KeyFields, Flat
<1>10. StreamType(x) /\ InstSet(x.inst, w.inst, out, {"branch_target"})
  <2>1. x.inst \in Instructions /\ InstSet(x.inst, w.inst, out, {"branch_target"})
    BY <1>2, <1>3, <1>8 DEF Instructions, InstSet, InstFields, v
  <2>2. x.ret_pred \in FiniteStacks(Sizes.stack)
    BY <1>2, <1>3, <1>5, <1>8, StackType DEF ReturnStack
  <2>3. x.ind_pred \in IndirectPreds(Sizes.ind_bits, Sizes.element)
    BY <1>2, <1>3, <1>8, IndType
  <2>4. x.target_l0 \in ValueCaches(Sizes.l0, 1) /\ x.target_l1 \in ValueCaches(Sizes.l1, 1)
    BY <1>2, <1>3, <1>5, <1>8, IntoType
  <2>. HIDE DEF put, ret, ind, op, vip
  <2>5. StreamParts(x)
    BY <1>1, <1>8, <1>9, <2>1, <2>2, <2>3, <2>4 DEF StreamParts, Kept, Fields
  <2>. QED  BY <1>7, <2>1, <2>5, FieldsStream
<1>11. Appended(w.buffer, x.buffer, TypeBytes(type))
  <2>1. CASE type = 3
    BY <1>8, <2>1, PutBuffer DEF TypeBytes
  <2>2. CASE type # 3
    BY <1>8, <2>2, ValueAppends DEF type
  <2>. QED  BY <2>1, <2>2
<1>12. ASSUME NEW r, NEW K, NEW F, Reads(r, w, K, F), Carries(F, x.buffer),
              KeyAgrees(K, x.key, {"branch_target"})
       PROVE  Reads(get_branch_target(r), x, K, F)
  <2>. DEFINE y == get_branch_target(r)
              e == Shifted(w.buffer, F)
              z == IF type = 3 THEN BitXor(vip, Buffered(e))
                   ELSE ValueRead(type, p, w.target_l0, w.target_l1, e)
  <2>1. IsStream(r) /\ r.key.second.branch_target = type /\ r.buffer = e
    BY <1>9, <1>12 DEF Reads, KeyAgrees, Flat
  <2>2. /\ r.inst = w.inst /\ r.ret_pred = w.ret_pred /\ r.ind_pred = w.ind_pred
        /\ r.target_l0 = w.target_l0 /\ r.target_l1 = w.target_l1
    BY <1>12 DEF Reads, Kept, Fields
  <2>3. TargetPrediction(r) = p /\ ReturnStack(r) = ReturnStack(w)
    <3>1. named.ret_pred = w.ret_pred /\ named.ind_pred = w.ind_pred
      BY <1>6 DEF Kept, Fields
    <3>2. ~op.is_indirect => r.inst.branch_target = v
      BY <2>2 DEF v
    <3>. QED  BY <1>6, <2>2, <3>1, <3>2 DEF TargetPrediction, ReturnStack, p
  <2>4. z = v /\ ValuePassed(type, e) = Shifted(x.buffer, F)
    <3>1. CASE type = 3
      <4>1. Buffered(e) = BitXor(v, vip)
            /\ get_buffer(e, 4) = Shifted(x.buffer, F)
        BY <1>8, <1>12, <3>1, PutBuffer
      <4>2. BitXor(vip, BitXor(v, vip)) = v
        BY <1>3, WordAssumption
      <4>. HIDE DEF e, vip
      <4>. QED  BY <3>1, <4>1, <4>2 DEF ValuePassed
    <3>2. CASE type # 3
      <4>1. x.buffer = ValuePut(type, w.target_l0, w.target_l1, v, w.buffer)
        BY <1>8, <3>2
      <4>2. Carries(F, ValuePut(type, w.target_l0, w.target_l1, v, w.buffer))
        BY <1>12, <4>1
      <4>. QED  BY <1>2, <1>3, <1>5, <3>2, <4>1, <4>2, ValueReads DEF type
    <3>. QED  BY <3>1, <3>2
  <2>5. y = [TargetLearnt(r, type, z) EXCEPT !.buffer = ValuePassed(type, @)]
    BY <2>1, <2>2, <2>3 DEF get_branch_target
  <2>. HIDE DEF e, z, y
  <2>6. /\ IsStream(y)
        /\ Kept(y, r, D \cup {"buffer"})
        /\ y.inst = [w.inst EXCEPT !.branch_target = z]
        /\ y.ret_pred = ret /\ y.ind_pred = ind(z)
        /\ y.target_l0 = IntoL0(type, w.target_l0, z)
        /\ y.target_l1 = IntoL1(type, w.target_l1, z)
        /\ y.buffer = ValuePassed(type, e)
    BY <2>1, <2>2, <2>3, <2>5 DEF TargetLearnt, IsStream, Kept, Fields
  <2>7. \A f \in D : y[f] = x[f]
    <3>. HIDE DEF ret, ind
    <3>. QED  BY <1>8, <2>4, <2>6
  <2>8. "key" \notin D
    OBVIOUS
  <2>. HIDE DEF D, ret, ind, put
  <2>9. Reads(y, x, K, F)
    BY <1>8, <1>12, <2>4, <2>6, <2>7, <2>8, ReadsKept
  <2>. QED  BY <2>9 DEF y
<1>13. ASSUME op.is_branch, op.is_indirect, op.is_return, v = FsTop(w.ret_pred)
       PROVE  x.key.second.branch_target = 0
  <2>1. named.ret_pred = w.ret_pred
    BY <1>6 DEF Kept, Fields
  <2>2. p = v
    BY <1>6, <1>13, <2>1 DEF TargetPrediction, p
  <2>. QED  BY <1>9, <2>2 DEF ValueType, type
<1>. QED  BY <1>8, <1>9, <1>10, <1>11, <1>12, <1>13 DEF v

--------------------------------------------------------------------------------
(* write() and read() *)

\* The ring after an instruction: a call that is a return pushes, then pops.
RingAfter(fs, inst) ==
    LET called == IF inst.op.is_call THEN FsPushed(fs, inst.instruction_next_addr) ELSE fs
    IN  IF inst.op.is_return THEN FsPopped(called) ELSE called

\* The ring of return addresses changes with the branch target only.
LEMMA RingKept ==
    ASSUME NEW w, StreamType(w), NEW out
    PROVE  /\ put_instruction_addr(w, out).ret_pred = w.ret_pred
           /\ put_static_info(w, out).ret_pred = w.ret_pred
           /\ put_src1_val(w, out).ret_pred = w.ret_pred
           /\ put_src2_val(w, out).ret_pred = w.ret_pred
           /\ put_dst_val(w, out).ret_pred = w.ret_pred
           /\ put_src_vaddr(w, out).ret_pred = w.ret_pred
           /\ put_dst_vaddr(w, out).ret_pred = w.ret_pred
           /\ put_taken(w, out).ret_pred = w.ret_pred
<1>1. IsStream(w)
  BY StreamFields
<1>2. /\ put_instruction_addr(w, out).ret_pred = w.ret_pred
      /\ put_static_info(w, out).ret_pred = w.ret_pred
  BY <1>1 DEF IsStream, Fields, put_instruction_addr, put_static_info
<1>3. /\ put_src1_val(w, out).ret_pred = w.ret_pred
      /\ put_src2_val(w, out).ret_pred = w.ret_pred
  BY <1>1 DEF IsStream, Fields, put_src1_val, put_src2_val
<1>4. put_dst_val(w, out).ret_pred = w.ret_pred
  <2>1. ASSUME NEW type, NEW v
        PROVE  IsStream(DstLearnt(w, type, v)) /\ DstLearnt(w, type, v).ret_pred = w.ret_pred
    BY <1>1 DEF IsStream, Fields, DstLearnt
  <2>. QED  BY <2>1 DEF IsStream, Fields, put_dst_val
<1>5. ASSUME NEW u, IsStream(u), NEW v
      PROVE  put_vaddr1(u, v).ret_pred = u.ret_pred /\ put_vaddr2(u, v).ret_pred = u.ret_pred
  <2>1. ASSUME NEW type
        PROVE  IsStream(Vaddr1Learnt(u, type, v)) /\ Vaddr1Learnt(u, type, v).ret_pred = u.ret_pred
    BY <1>5 DEF IsStream, Fields, Vaddr1Learnt
  <2>. QED  BY <1>5, <2>1 DEF IsStream, Fields, put_vaddr1, put_vaddr2
<1>6. put_src_vaddr(w, out).ret_pred = w.ret_pred
  <2>. DEFINE u == [w EXCEPT !.inst.src_vaddr = out.src_vaddr]
  <2>1. IsStream(u) /\ u.ret_pred = w.ret_pred
    BY <1>1 DEF IsStream, Fields
  <2>. QED  BY <1>5, <2>1 DEF put_src_vaddr
<1>7. put_dst_vaddr(w, out).ret_pred = w.ret_pred
  <2>. DEFINE u == [w EXCEPT !.inst.dst_vaddr = out.dst_vaddr]
  <2>1. IsStream(u) /\ u.ret_pred = w.ret_pred
    BY <1>1 DEF IsStream, Fields
  <2>. QED  BY <1>5, <2>1 DEF put_dst_vaddr
<1>8. put_taken(w, out).ret_pred = w.ret_pred
  <2>1. IsStream(TakenLearnt(w, out.taken)) /\ TakenLearnt(w, out.taken).ret_pred = w.ret_pred
    BY <1>1 DEF IsStream, Fields, TakenLearnt
  <2>. QED  BY <2>1 DEF IsStream, Fields, put_taken
<1>. QED  BY <1>2, <1>3, <1>4, <1>6, <1>7, <1>8

\* The members in D are out's.
Holds(inst, out, D) == \A f \in D : inst[f] = out[f]

LEMMA HoldsSet ==
    ASSUME NEW new, NEW inst, NEW out, NEW D \in SUBSET InstFields,
           NEW E \in SUBSET InstFields, InstSet(new, inst, out, E), Holds(inst, out, D)
    PROVE  Holds(new, out, D \cup E)
BY DEF InstSet, Holds

LEMMA HoldsAll ==
    ASSUME NEW inst \in Instructions, NEW out \in Instructions, Holds(inst, out, InstFields)
    PROVE  inst = out
BY DEF Holds, Instructions, InstFields

\* What a static description tells of a legal instruction.
Told(out) ==
    {"op", "instruction_addr", "instruction_next_addr"}
        \cup (IF out.op.is_indirect THEN {} ELSE {"branch_target"})

LEMMA FilledTells ==
    ASSUME NEW inst \in Instructions, NEW out \in Instructions, Legal(out)
    PROVE  Holds(Filled(inst, StaticInfo(out)), out, Told(out))
<1>. DEFINE new == Filled(inst, StaticInfo(out))
<1>1. new.op = out.op /\ new.instruction_addr = out.instruction_addr
  BY DEF Filled, StaticInfo, Instructions
<1>2. new.instruction_next_addr = out.instruction_next_addr
  BY DEF Filled, StaticInfo, Instructions, Legal
<1>3. ~out.op.is_indirect => new.branch_target = out.branch_target
  BY DEF Filled, StaticInfo, Instructions
<1>. QED  BY <1>1, <1>2, <1>3 DEF Holds, Told

\* K is the key of a stream that has gone on from new, C what it has changed.
LEMMA KeyBack ==
    ASSUME NEW K, NEW new, NEW key, NEW C, NEW D,
           KeyAgrees(K, new, KeyFields \ C), KeyKept(new, key, D)
    PROVE  KeyAgrees(K, key, KeyFields \ (C \cup D))
BY DEF KeyAgrees, KeyKept

LEMMA KeyPart ==
    ASSUME NEW K, NEW key, NEW A, NEW D, KeyAgrees(K, key, A), D \subseteq A
    PROVE  KeyAgrees(K, key, D)
BY DEF KeyAgrees

LEMMA KeyOn ==
    ASSUME NEW new, NEW key, NEW old, NEW V \in SUBSET KeyFields, NEW D,
           KeyAgrees(key, old, V), KeyKept(new, key, D), V \cap D = {}
    PROVE  KeyAgrees(new, old, V)
BY DEF KeyAgrees, KeyKept

LEMMA MemoryFacts ==
    ASSUME NEW w, StreamType(w)
    PROVE  /\ StreamType(Memory(w)) /\ Memory(w).inst = w.inst
           /\ Memory(w).key = EmptyKey /\ Memory(w).buffer = EmptyBuffer
           /\ BufferOK(EmptyBuffer)
<1>1. IsStream(w) /\ StreamParts(w)
  BY StreamFields
<1>2. /\ IsStream(Memory(w)) /\ Kept(Memory(w), w, {"key", "buffer"})
      /\ Memory(w).key = EmptyKey /\ Memory(w).buffer = EmptyBuffer
  BY <1>1 DEF Memory, IsStream, Kept, Fields
<1>3. EmptyKey \in Keys
  BY DEF EmptyKey, Keys
<1>4. StreamParts(Memory(w))
  BY <1>1, <1>2, <1>3 DEF StreamParts, Kept, Fields
<1>5. StreamType(Memory(w))
  BY <1>2, <1>4, FieldsStream
<1>6. BufferOK(EmptyBuffer)
  BY DEF BufferOK, EmptyBuffer
<1>. QED  BY <1>2, <1>5, <1>6 DEF Kept, Fields

\* A reader in lockstep has the memory of the writer.
LEMMA ReadsMemory ==
    ASSUME NEW r, NEW w, NEW K \in Keys, NEW F, StreamType(w), Reads(r, w, K, F)
    PROVE  StreamType(r) /\ Memory(r) = Memory(w) /\ r.inst = w.inst
<1>1. IsStream(w) /\ StreamParts(w)
  BY StreamFields
<1>2. IsStream(r) /\ Kept(r, w, {"key", "buffer"}) /\ r.key = K
  BY DEF Reads
<1>3. StreamParts(r)
  BY <1>1, <1>2 DEF StreamParts, Kept, Fields
<1>4. StreamType(r)
  BY <1>2, <1>3, FieldsStream
<1>5. IsStream(Memory(r)) /\ IsStream(Memory(w)) /\ Kept(Memory(r), Memory(w), {})
  BY <1>1, <1>2 DEF Memory, IsStream, Kept, Fields
<1>6. Memory(r) = Memory(w)
  <2>. DEFINE a == Memory(r)  b == Memory(w)
  <2>1. a = [f \in Fields |-> a[f]] /\ b = [f \in Fields |-> b[f]]
        /\ \A f \in Fields : a[f] = b[f]
    BY <1>5 DEF IsStream, Kept
  <2>. HIDE DEF a, b
  <2>2. a = b
    BY <2>1
  <2>. QED  BY <2>2 DEF a, b
<1>. QED  BY <1>2, <1>4, <1>6 DEF Kept, Fields

LEMMA StartsReading ==
    ASSUME NEW d, NEW w, StreamType(d), Memory(d) = Memory(w), NEW K, NEW F, NEW B,
           B = [tail |-> 2 - F.shift, values |-> F.values]
    PROVE  Reads([Memory(d) EXCEPT !.key = K, !.buffer = B], Memory(w), K, F)
<1>. DEFINE m == Memory(w)
            r == [m EXCEPT !.key = K, !.buffer = B]
<1>1. IsStream(m) /\ m.buffer = EmptyBuffer
  BY MemoryFacts, StreamFields
<1>. HIDE DEF m
<1>2. /\ IsStream(r) /\ Kept(r, m, {"key", "buffer"}) /\ r.key = K
      /\ r.buffer = B
  BY <1>1 DEF IsStream, Kept, Fields
<1>3. B = Shifted(m.buffer, F)
  BY <1>1 DEF EmptyBuffer, Shifted
<1>4. Reads(r, m, K, F)
  BY <1>2, <1>3 DEF Reads
<1>. QED  BY <1>4 DEF m

\* The bytes behind the key, all told: a description of 20 and seven values of up to
\* four.
Body(key) ==
    TypeBytes(key.first.dst_val) + TypeBytes(key.first.vaddr1)
        + IfRead(key.first.src2_val, 4) + IfRead(key.first.static_info, 20)
        + IfRead(key.second.instruction_addr, 4) + TypeBytes(key.second.branch_target)
        + IfRead(key.second.src1_val, 4) + IfRead(key.second.vaddr2, 4)

LEMMA BodyNeeded ==
    ASSUME NEW key \in Keys
    PROVE  /\ Body(key) \in 0..48
           /\ FirstNeeded(key.first) \in Nat /\ SecondNeeded(key.second) \in Nat
           /\ IfRead(key.first.two_byte_key, 1)
                = IF key.first.two_byte_key THEN 1 ELSE 0
           /\ FirstNeeded(key.first) >= IfRead(key.first.two_byte_key, 1)
           /\ FirstNeeded(key.first) + SecondNeeded(key.second)
                = IfRead(key.first.two_byte_key, 1) + Body(key)
<1>. DEFINE two == IfRead(key.first.two_byte_key, 1)
            a == TypeBytes(key.first.dst_val)
            b == TypeBytes(key.first.vaddr1)
            c == IfRead(key.first.src2_val, 4)
            d == IfRead(key.first.static_info, 20)
            e == IfRead(key.second.instruction_addr, 4)
            f == TypeBytes(key.second.branch_target)
            g == IfRead(key.second.src1_val, 4)
            h == IfRead(key.second.vaddr2, 4)
<1>1. \A type \in 0..3 : TypeBytes(type) \in 0..4
  BY DEF TypeBytes
<1>2. /\ \A flag \in BOOLEAN : IfRead(flag, 4) \in 0..4 /\ IfRead(flag, 20) \in 0..20
      /\ \A flag \in BOOLEAN : IfRead(flag, 1) \in 0..1
  BY DEF IfRead
<1>3. /\ a \in 0..4 /\ b \in 0..4 /\ c \in 0..4 /\ d \in 0..20
      /\ e \in 0..4 /\ f \in 0..4 /\ g \in 0..4 /\ h \in 0..4
      /\ two \in 0..1
  BY <1>1, <1>2 DEF Keys
<1>4. two = IF key.first.two_byte_key THEN 1 ELSE 0
  BY DEF IfRead
<1>5. /\ Body(key) = a + b + c + d + e + f + g + h
      /\ FirstNeeded(key.first) = two + a + b + c + d
      /\ SecondNeeded(key.second) = e + f + g + h
  BY DEF Body, FirstNeeded, SecondNeeded
<1>. HIDE DEF two, a, b, c, d, e, f, g, h
<1>6. /\ a + b + c + d + e + f + g + h \in 0..48
      /\ two + a + b + c + d \in Nat /\ e + f + g + h \in Nat
      /\ two + a + b + c + d >= two
      /\ (two + a + b + c + d) + (e + f + g + h) = two + (a + b + c + d + e + f + g + h)
  BY <1>3
<1>. QED  BY <1>4, <1>5, <1>6 DEF two

\* The key and the buffer of x are a record ready to be output.
HasRecord(x) ==
    /\ x.key \in Keys
    /\ x.key.first.two_byte_key = (x.key.second # EmptyKey.second)
    /\ BufferOK(x.buffer) /\ x.buffer.tail = 2 + Body(x.key)

\* write() leaves in the buffer as many bytes as its key tells, and a stream with the
\* same memory that has fetched that key and these bytes gets the instruction back
\* and the same memory.
LEMMA WriteRead ==
    ASSUME NEW w, StreamType(w), NEW out \in Instructions, Legal(out)
    PROVE  /\ StreamType(write(w, out)) /\ write(w, out).inst = out
           /\ HasRecord(write(w, out))
           /\ write(w, out).ret_pred = RingAfter(w.ret_pred, out)
           /\ out.op.is_return /\ out.branch_target = FsTop(w.ret_pred)
              => write(w, out).key.second.branch_target = 0
           /\ \A d, bytes, F :
                 /\ StreamType(d) /\ Memory(d) = Memory(w)
                 /\ KeyOf(bytes) = write(w, out).key
                 /\ Carries(F, write(w, out).buffer)
                 /\ Fetched(bytes) = [tail |-> 2 - F.shift, values |-> F.values]
                 => Reads(read(d, bytes), write(w, out), write(w, out).key, F)
<1>. DEFINE op == out.op
            w0 == Memory(w)
            w1 == put_instruction_addr(w0, out)
            w2 == put_static_info(w1, out)
            w3 == put_src1_val(w2, out)
            w4 == put_src2_val(w3, out)
            w5 == put_dst_val(w4, out)
            w6 == put_src_vaddr(w5, out)
            w7 == put_dst_vaddr(w6, out)
            w8 == put_taken(w7, out)
            w9 == put_branch_target(w8, out)
            W == [w9 EXCEPT !.key.first.two_byte_key = w9.key.second # EmptyKey.second]
            K == W.key
            C8 == {} \cup {"branch_target"}
            C7 == C8 \cup {"taken"}
            C6 == C7 \cup DstKey(op)
            C5 == C6 \cup SrcKey(op)
            C4 == C5 \cup {"dst_val"}
            C3 == C4 \cup {"src2_val"}
            C2 == C3 \cup {"src1_val"}
            C1 == C2 \cup {"static_info"}
            V == {"vaddr1", "vaddr2"} \ (SrcKey(op) \cup DstKey(op))
<1>0. write(w, out) = W
  BY DEF write
<1>w. /\ w1 = put_instruction_addr(w0, out)
      /\ w2 = put_static_info(w1, out)
      /\ w3 = put_src1_val(w2, out)
      /\ w4 = put_src2_val(w3, out)
      /\ w5 = put_dst_val(w4, out)
      /\ w6 = put_src_vaddr(w5, out)
      /\ w7 = put_dst_vaddr(w6, out)
      /\ w8 = put_taken(w7, out)
      /\ w9 = put_branch_target(w8, out)
  OBVIOUS
<1>k. /\ W = [w9 EXCEPT !.key.first.two_byte_key = w9.key.second # EmptyKey.second]
      /\ K = W.key
  OBVIOUS
<1>m. StreamType(w0) /\ BufferOK(w0.buffer) /\ w0.key = EmptyKey /\ w0.buffer.tail = 2
  BY MemoryFacts DEF EmptyBuffer
<1>. HIDE DEF op, w0, w1, w2, w3, w4, w5, w6, w7, w8, w9, W, K
<1>1. /\ StreamType(w1) /\ KeyKept(w1.key, w0.key, {"instruction_addr"})
      /\ Appended(w0.buffer, w1.buffer, IfRead(w1.key.second.instruction_addr, 4)) /\ BufferOK(w1.buffer)
      /\ w1.inst.instruction_addr = out.instruction_addr
  BY <1>w, <1>m, AddrStep DEF Appended, InstSet, InstFields
<1>2. /\ StreamType(w2) /\ KeyKept(w2.key, w1.key, {"static_info"})
      /\ Appended(w1.buffer, w2.buffer, IfRead(w2.key.first.static_info, 20)) /\ BufferOK(w2.buffer)
      /\ Holds(w2.inst, out, Told(out)) /\ w2.inst.op = op
  <2>1. w1.inst \in Instructions
    BY <1>1, StreamFields DEF StreamParts
  <2>2. Holds(w2.inst, out, Told(out))
    BY <1>w, <1>1, <2>1, StaticStep, FilledTells
  <2>3. w2.inst.op = op
    BY <2>2 DEF Holds, Told, op
  <2>. QED  BY <1>w, <1>1, <2>2, <2>3, StaticStep DEF Appended
<1>3. /\ StreamType(w3) /\ KeyKept(w3.key, w2.key, {"src1_val"})
      /\ Appended(w2.buffer, w3.buffer, IfRead(w3.key.second.src1_val, 4)) /\ BufferOK(w3.buffer)
      /\ Holds(w3.inst, out, Told(out) \cup {"src1_val"})
      /\ w3.inst.op = op
  <2>1. Told(out) \in SUBSET InstFields /\ "op" \in Told(out)
    BY DEF Told, InstFields
  <2>3. /\ StreamType(w3) /\ InstSet(w3.inst, w2.inst, out, {"src1_val"})
        /\ KeyKept(w3.key, w2.key, {"src1_val"})
        /\ Appended(w2.buffer, w3.buffer, IfRead(w3.key.second.src1_val, 4))
    BY <1>w, <1>2, Src1Step
  <2>4. Holds(w3.inst, out, Told(out) \cup {"src1_val"})
    <3>. {"src1_val"} \in SUBSET InstFields
      BY DEF InstFields
    <3>. QED  BY <1>2, <2>1, <2>3, HoldsSet
  <2>5. w3.inst.op = op
    BY <2>1, <2>4 DEF Holds, op
  <2>. QED  BY <2>3, <2>4, <2>5 DEF Appended
<1>4. /\ StreamType(w4) /\ KeyKept(w4.key, w3.key, {"src2_val"})
      /\ Appended(w3.buffer, w4.buffer, IfRead(w4.key.first.src2_val, 4)) /\ BufferOK(w4.buffer)
      /\ Holds(w4.inst, out, Told(out) \cup {"src1_val"} \cup {"src2_val"})
      /\ w4.inst.op = op
  <2>1. /\ Told(out) \in SUBSET InstFields /\ "op" \in Told(out)
        /\ Told(out) \cup {"src1_val"} \in SUBSET InstFields
    BY DEF Told, InstFields
  <2>3. /\ StreamType(w4) /\ InstSet(w4.inst, w3.inst, out, {"src2_val"})
        /\ KeyKept(w4.key, w3.key, {"src2_val"})
        /\ Appended(w3.buffer, w4.buffer, IfRead(w4.key.first.src2_val, 4))
    BY <1>w, <1>3, Src2Step
  <2>4. Holds(w4.inst, out, Told(out) \cup {"src1_val"} \cup {"src2_val"})
    <3>. {"src2_val"} \in SUBSET InstFields
      BY DEF InstFields
    <3>. QED  BY <1>3, <2>1, <2>3, HoldsSet
  <2>5. w4.inst.op = op
    BY <2>1, <2>4 DEF Holds, op
  <2>. QED  BY <2>3, <2>4, <2>5 DEF Appended
<1>5. /\ StreamType(w5) /\ KeyKept(w5.key, w4.key, {"dst_val"})
      /\ Appended(w4.buffer, w5.buffer, TypeBytes(w5.key.first.dst_val)) /\ BufferOK(w5.buffer)
      /\ Holds(w5.inst, out, Told(out) \cup {"src1_val"} \cup {"src2_val"} \cup {"dst_val"})
      /\ w5.inst.op = op
  <2>1. /\ Told(out) \in SUBSET InstFields /\ "op" \in Told(out)
        /\ Told(out) \cup {"src1_val"} \cup {"src2_val"} \in SUBSET InstFields
    BY DEF Told, InstFields
  <2>3. /\ StreamType(w5) /\ InstSet(w5.inst, w4.inst, out, {"dst_val"})
        /\ KeyKept(w5.key, w4.key, {"dst_val"})
        /\ Appended(w4.buffer, w5.buffer, TypeBytes(w5.key.first.dst_val))
    BY <1>w, <1>4, DstStep
  <2>4. Holds(w5.inst, out, Told(out) \cup {"src1_val"} \cup {"src2_val"} \cup {"dst_val"})
    <3>. {"dst_val"} \in SUBSET InstFields
      BY DEF InstFields
    <3>. QED  BY <1>4, <2>1, <2>3, HoldsSet
  <2>5. w5.inst.op = op
    BY <2>1, <2>4 DEF Holds, op
  <2>. QED  BY <2>3, <2>4, <2>5 DEF Appended
<1>6. /\ StreamType(w6) /\ KeyKept(w6.key, w5.key, SrcKey(op))
      /\ Appended(w5.buffer, w6.buffer, SrcBytes(op, w6.key)) /\ BufferOK(w6.buffer)
      /\ Holds(w6.inst, out, Told(out) \cup {"src1_val"} \cup {"src2_val"} \cup {"dst_val"} \cup {"src_vaddr"})
      /\ w6.inst.op = op
  <2>1. /\ Told(out) \in SUBSET InstFields /\ "op" \in Told(out)
        /\ Told(out) \cup {"src1_val"} \cup {"src2_val"} \cup {"dst_val"} \in SUBSET InstFields
    BY DEF Told, InstFields
  <2>2. ~w5.inst.op.has_mem_src => out.src_vaddr = 0
    BY <1>5 DEF Legal, op
  <2>3. /\ StreamType(w6) /\ InstSet(w6.inst, w5.inst, out, {"src_vaddr"})
        /\ KeyKept(w6.key, w5.key, SrcKey(op))
        /\ Appended(w5.buffer, w6.buffer, SrcBytes(op, w6.key))
    BY <1>w, <1>5, <2>2, SrcVaddrStep
  <2>4. Holds(w6.inst, out, Told(out) \cup {"src1_val"} \cup {"src2_val"} \cup {"dst_val"} \cup {"src_vaddr"})
    <3>. {"src_vaddr"} \in SUBSET InstFields
      BY DEF InstFields
    <3>. QED  BY <1>5, <2>1, <2>3, HoldsSet
  <2>5. w6.inst.op = op
    BY <2>1, <2>4 DEF Holds, op
  <2>. QED  BY <2>3, <2>4, <2>5 DEF Appended
<1>7. /\ StreamType(w7) /\ KeyKept(w7.key, w6.key, DstKey(op))
      /\ Appended(w6.buffer, w7.buffer, DstBytes(op, w7.key)) /\ BufferOK(w7.buffer)
      /\ Holds(w7.inst, out, Told(out) \cup {"src1_val"} \cup {"src2_val"} \cup {"dst_val"} \cup {"src_vaddr"} \cup {"dst_vaddr"})
      /\ w7.inst.op = op
  <2>1. /\ Told(out) \in SUBSET InstFields /\ "op" \in Told(out)
        /\ Told(out) \cup {"src1_val"} \cup {"src2_val"} \cup {"dst_val"} \cup {"src_vaddr"} \in SUBSET InstFields
    BY DEF Told, InstFields
  <2>2. ~w6.inst.op.has_mem_dst => out.dst_vaddr = 0
    BY <1>6 DEF Legal, op
  <2>3. /\ StreamType(w7) /\ InstSet(w7.inst, w6.inst, out, {"dst_vaddr"})
        /\ KeyKept(w7.key, w6.key, DstKey(op))
        /\ Appended(w6.buffer, w7.buffer, DstBytes(op, w7.key))
    BY <1>w, <1>6, <2>2, DstVaddrStep
  <2>4. Holds(w7.inst, out, Told(out) \cup {"src1_val"} \cup {"src2_val"} \cup {"dst_val"} \cup {"src_vaddr"} \cup {"dst_vaddr"})
    <3>. {"dst_vaddr"} \in SUBSET InstFields
      BY DEF InstFields
    <3>. QED  BY <1>6, <2>1, <2>3, HoldsSet
  <2>5. w7.inst.op = op
    BY <2>1, <2>4 DEF Holds, op
  <2>. QED  BY <2>3, <2>4, <2>5 DEF Appended
<1>8. /\ StreamType(w8) /\ KeyKept(w8.key, w7.key, {"taken"})
      /\ Appended(w7.buffer, w8.buffer, 0) /\ BufferOK(w8.buffer)
      /\ Holds(w8.inst, out, Told(out) \cup {"src1_val"} \cup {"src2_val"} \cup {"dst_val"} \cup {"src_vaddr"} \cup {"dst_vaddr"} \cup {"taken"})
      /\ w8.inst.op = op
  <2>1. /\ Told(out) \in SUBSET InstFields /\ "op" \in Told(out)
        /\ Told(out) \cup {"src1_val"} \cup {"src2_val"} \cup {"dst_val"} \cup {"src_vaddr"} \cup {"dst_vaddr"} \in SUBSET InstFields
    BY DEF Told, InstFields
  <2>3. /\ StreamType(w8) /\ InstSet(w8.inst, w7.inst, out, {"taken"})
        /\ KeyKept(w8.key, w7.key, {"taken"})
        /\ Appended(w7.buffer, w8.buffer, 0)
    BY <1>w, <1>7, TakenStep
  <2>4. Holds(w8.inst, out, Told(out) \cup {"src1_val"} \cup {"src2_val"} \cup {"dst_val"} \cup {"src_vaddr"} \cup {"dst_vaddr"} \cup {"taken"})
    <3>. {"taken"} \in SUBSET InstFields
      BY DEF InstFields
    <3>. QED  BY <1>7, <2>1, <2>3, HoldsSet
  <2>5. w8.inst.op = op
    BY <2>1, <2>4 DEF Holds, op
  <2>. QED  BY <2>3, <2>4, <2>5 DEF Appended
<1>9. /\ StreamType(w9) /\ KeyKept(w9.key, w8.key, {"branch_target"})
      /\ Appended(w8.buffer, w9.buffer, TypeBytes(w9.key.second.branch_target)) /\ BufferOK(w9.buffer)
      /\ Holds(w9.inst, out, Told(out) \cup {"src1_val"} \cup {"src2_val"} \cup {"dst_val"} \cup {"src_vaddr"} \cup {"dst_vaddr"} \cup {"taken"} \cup {"branch_target"})
      /\ w9.inst.op = op
  <2>1. /\ Told(out) \in SUBSET InstFields /\ "op" \in Told(out)
        /\ Told(out) \cup {"src1_val"} \cup {"src2_val"} \cup {"dst_val"} \cup {"src_vaddr"} \cup {"dst_vaddr"} \cup {"taken"} \in SUBSET InstFields
    BY DEF Told, InstFields
  <2>2. ~w8.inst.op.is_indirect => w8.inst.branch_target = out.branch_target
    BY <1>8 DEF Holds, Told, op
  <2>3. /\ StreamType(w9) /\ InstSet(w9.inst, w8.inst, out, {"branch_target"})
        /\ KeyKept(w9.key, w8.key, {"branch_target"})
        /\ Appended(w8.buffer, w9.buffer, TypeBytes(w9.key.second.branch_target))
    BY <1>w, <1>8, <2>2, TargetStep
  <2>4. Holds(w9.inst, out, Told(out) \cup {"src1_val"} \cup {"src2_val"} \cup {"dst_val"} \cup {"src_vaddr"} \cup {"dst_vaddr"} \cup {"taken"} \cup {"branch_target"})
    <3>. {"branch_target"} \in SUBSET InstFields
      BY DEF InstFields
    <3>. QED  BY <1>8, <2>1, <2>3, HoldsSet
  <2>5. w9.inst.op = op
    BY <2>1, <2>4 DEF Holds, op
  <2>. QED  BY <2>3, <2>4, <2>5 DEF Appended
<1>10. w9.inst = out
  <2>1. InstFields = Told(out) \cup {"src1_val"} \cup {"src2_val"} \cup {"dst_val"} \cup {"src_vaddr"} \cup {"dst_vaddr"} \cup {"taken"} \cup {"branch_target"}
    BY DEF InstFields, Told
  <2>2. w9.inst \in Instructions
    BY <1>9, StreamFields DEF StreamParts
  <2>. QED  BY <1>9, <2>1, <2>2, HoldsAll
<1>f. /\ IsStream(W) /\ Kept(W, w9, {"key"}) /\ StreamType(W)
      /\ K \in Keys /\ KeyAgrees(K, w9.key, KeyFields)
      /\ K.first.two_byte_key = (K.second # EmptyKey.second)
      /\ K.second = w9.key.second
  <2>. DEFINE b == w9.key.second # EmptyKey.second
  <2>1. IsStream(w9) /\ StreamParts(w9) /\ b \in BOOLEAN /\ w9.key \in Keys
    BY <1>9, StreamFields DEF StreamParts
  <2>2. W = [w9 EXCEPT !.key.first.two_byte_key = b] /\ K = W.key
    BY <1>k
  <2>3. b = (w9.key.second # EmptyKey.second)
    OBVIOUS
  <2>. HIDE DEF b
  <2>4. IsStream(W) /\ Kept(W, w9, {"key"})
        /\ K = [w9.key EXCEPT !.first.two_byte_key = b]
    BY <2>1, <2>2 DEF IsStream, Kept, Fields
  <2>5. /\ K \in Keys /\ KeyAgrees(K, w9.key, KeyFields)
        /\ K.first.two_byte_key = b /\ K.second = w9.key.second
    BY <2>1, <2>4 DEF Keys, KeyAgrees, KeyFields, Flat
  <2>6. StreamType(W)
    <3>1. StreamParts(W)
      BY <2>1, <2>2, <2>4, <2>5 DEF StreamParts, Kept, Fields
    <3>. QED  BY <2>4, <3>1, FieldsStream
  <2>. QED  BY <2>3, <2>4, <2>5, <2>6
<1>11. /\ KeyAgrees(K, w9.key, KeyFields)
       /\ KeyAgrees(K, w8.key, KeyFields \ C8)
       /\ KeyAgrees(K, w7.key, KeyFields \ C7)
       /\ KeyAgrees(K, w6.key, KeyFields \ C6)
       /\ KeyAgrees(K, w5.key, KeyFields \ C5)
       /\ KeyAgrees(K, w4.key, KeyFields \ C4)
       /\ KeyAgrees(K, w3.key, KeyFields \ C3)
       /\ KeyAgrees(K, w2.key, KeyFields \ C2)
       /\ KeyAgrees(K, w1.key, KeyFields \ C1)
  <2>9. KeyAgrees(K, w9.key, KeyFields \ {})
    BY <1>f DEF KeyAgrees
  <2>8. KeyAgrees(K, w8.key, KeyFields \ C8)
    BY <1>9, <2>9, KeyBack
  <2>7. KeyAgrees(K, w7.key, KeyFields \ C7)
    BY <1>8, <2>8, KeyBack
  <2>6. KeyAgrees(K, w6.key, KeyFields \ C6)
    BY <1>7, <2>7, KeyBack
  <2>5. KeyAgrees(K, w5.key, KeyFields \ C5)
    BY <1>6, <2>6, KeyBack
  <2>4. KeyAgrees(K, w4.key, KeyFields \ C4)
    BY <1>5, <2>5, KeyBack
  <2>3. KeyAgrees(K, w3.key, KeyFields \ C3)
    BY <1>4, <2>4, KeyBack
  <2>2. KeyAgrees(K, w2.key, KeyFields \ C2)
    BY <1>3, <2>3, KeyBack
  <2>1. KeyAgrees(K, w1.key, KeyFields \ C1)
    BY <1>2, <2>2, KeyBack
  <2>. QED  BY <2>9, <2>8, <2>7, <2>6, <2>5, <2>4, <2>3, <2>2, <2>1
<1>12. /\ KeyAgrees(K, w1.key, {"instruction_addr"})
       /\ KeyAgrees(K, w2.key, {"static_info"})
       /\ KeyAgrees(K, w3.key, {"src1_val"})
       /\ KeyAgrees(K, w4.key, {"src2_val"})
       /\ KeyAgrees(K, w5.key, {"dst_val"})
       /\ KeyAgrees(K, w6.key, SrcKey(op))
       /\ KeyAgrees(K, w7.key, DstKey(op))
       /\ KeyAgrees(K, w8.key, {"taken"})
       /\ KeyAgrees(K, w9.key, {"branch_target"})
  <2>1. {"instruction_addr"} \subseteq KeyFields \ C1
    BY DEF KeyFields, SrcKey, DstKey
  <2>2. {"static_info"} \subseteq KeyFields \ C2
    BY DEF KeyFields, SrcKey, DstKey
  <2>3. {"src1_val"} \subseteq KeyFields \ C3
    BY DEF KeyFields, SrcKey, DstKey
  <2>4. {"src2_val"} \subseteq KeyFields \ C4
    BY DEF KeyFields, SrcKey, DstKey
  <2>5. {"dst_val"} \subseteq KeyFields \ C5
    BY DEF KeyFields, SrcKey, DstKey
  <2>6. SrcKey(op) \subseteq KeyFields \ C6
    BY DEF KeyFields, SrcKey, DstKey
  <2>7. DstKey(op) \subseteq KeyFields \ C7
    BY DEF KeyFields, SrcKey, DstKey
  <2>8. {"taken"} \subseteq KeyFields \ C8
    BY DEF KeyFields, SrcKey, DstKey
  <2>9. {"branch_target"} \subseteq KeyFields
    BY DEF KeyFields
  <2>. HIDE DEF C1, C2, C3, C4, C5, C6, C7, C8
  <2>11. KeyAgrees(K, w1.key, {"instruction_addr"})
    BY <1>11, <2>1, KeyPart
  <2>12. KeyAgrees(K, w2.key, {"static_info"})
    BY <1>11, <2>2, KeyPart
  <2>13. KeyAgrees(K, w3.key, {"src1_val"})
    BY <1>11, <2>3, KeyPart
  <2>14. KeyAgrees(K, w4.key, {"src2_val"})
    BY <1>11, <2>4, KeyPart
  <2>15. KeyAgrees(K, w5.key, {"dst_val"})
    BY <1>11, <2>5, KeyPart
  <2>16. KeyAgrees(K, w6.key, SrcKey(op))
    BY <1>11, <2>6, KeyPart
  <2>17. KeyAgrees(K, w7.key, DstKey(op))
    BY <1>11, <2>7, KeyPart
  <2>18. KeyAgrees(K, w8.key, {"taken"})
    BY <1>11, <2>8, KeyPart
  <2>19. KeyAgrees(K, w9.key, {"branch_target"})
    BY <1>11, <2>9, KeyPart
  <2>. QED  BY <2>11, <2>12, <2>13, <2>14, <2>15, <2>16, <2>17, <2>18, <2>19
<1>13. KeyAgrees(K, EmptyKey, V)
  <2>0. V \in SUBSET KeyFields /\ KeyAgrees(w0.key, EmptyKey, V)
    BY <1>m DEF KeyFields, KeyAgrees
  <2>1. KeyAgrees(w1.key, EmptyKey, V)
    <3>. V \cap {"instruction_addr"} = {}
      OBVIOUS
    <3>. HIDE DEF V
    <3>. QED  BY <1>1, <2>0, KeyOn
  <2>2. KeyAgrees(w2.key, EmptyKey, V)
    <3>. V \cap {"static_info"} = {}
      OBVIOUS
    <3>. HIDE DEF V
    <3>. QED  BY <1>2, <2>0, <2>1, KeyOn
  <2>3. KeyAgrees(w3.key, EmptyKey, V)
    <3>. V \cap {"src1_val"} = {}
      OBVIOUS
    <3>. HIDE DEF V
    <3>. QED  BY <1>3, <2>0, <2>2, KeyOn
  <2>4. KeyAgrees(w4.key, EmptyKey, V)
    <3>. V \cap {"src2_val"} = {}
      OBVIOUS
    <3>. HIDE DEF V
    <3>. QED  BY <1>4, <2>0, <2>3, KeyOn
  <2>5. KeyAgrees(w5.key, EmptyKey, V)
    <3>. V \cap {"dst_val"} = {}
      OBVIOUS
    <3>. HIDE DEF V
    <3>. QED  BY <1>5, <2>0, <2>4, KeyOn
  <2>6. KeyAgrees(w6.key, EmptyKey, V)
    <3>. V \cap SrcKey(op) = {}
      OBVIOUS
    <3>. HIDE DEF V
    <3>. QED  BY <1>6, <2>0, <2>5, KeyOn
  <2>7. KeyAgrees(w7.key, EmptyKey, V)
    <3>. V \cap DstKey(op) = {}
      OBVIOUS
    <3>. HIDE DEF V
    <3>. QED  BY <1>7, <2>0, <2>6, KeyOn
  <2>8. KeyAgrees(w8.key, EmptyKey, V)
    <3>. V \cap {"taken"} = {}
      OBVIOUS
    <3>. HIDE DEF V
    <3>. QED  BY <1>8, <2>0, <2>7, KeyOn
  <2>9. KeyAgrees(w9.key, EmptyKey, V)
    <3>. V \cap {"branch_target"} = {}
      OBVIOUS
    <3>. HIDE DEF V
    <3>. QED  BY <1>9, <2>0, <2>8, KeyOn
  <2>10. KeyAgrees(K, w9.key, KeyFields)
    BY <1>f
  <2>. QED  BY <2>0, <2>9, <2>10 DEF KeyAgrees
<1>14. w9.buffer.tail = 2 + Body(K)
  <2>1. K \in Keys
    BY <1>f
  <2>2. /\ K.second.instruction_addr = w1.key.second.instruction_addr
        /\ K.first.static_info = w2.key.first.static_info
        /\ K.second.src1_val = w3.key.second.src1_val
        /\ K.first.src2_val = w4.key.first.src2_val
        /\ K.first.dst_val = w5.key.first.dst_val
        /\ K.second.branch_target = w9.key.second.branch_target
    BY <1>12 DEF KeyAgrees, Flat
  <2>. DEFINE a == IfRead(K.second.instruction_addr, 4)
              b == IfRead(K.first.static_info, 20)
              c == IfRead(K.second.src1_val, 4)
              d == IfRead(K.first.src2_val, 4)
              e == TypeBytes(K.first.dst_val)
              f == SrcBytes(op, K) + DstBytes(op, K)
              g == TypeBytes(K.second.branch_target)
  <2>3. SrcBytes(op, w6.key) = SrcBytes(op, K) /\ DstBytes(op, w7.key) = DstBytes(op, K)
    BY <1>12 DEF KeyAgrees, Flat, SrcKey, DstKey, SrcBytes, DstBytes
  <2>4. f = TypeBytes(K.first.vaddr1) + IfRead(K.second.vaddr2, 4)
    <3>1. "vaddr1" \in V => K.first.vaddr1 = 0
      BY <1>13 DEF KeyAgrees, Flat, EmptyKey
    <3>2. "vaddr2" \in V => K.second.vaddr2 = FALSE
      BY <1>13 DEF KeyAgrees, Flat, EmptyKey
    <3>3. TypeBytes(K.first.vaddr1) \in Nat /\ IfRead(K.second.vaddr2, 4) \in Nat
      BY <2>1 DEF Keys, TypeBytes, IfRead
    <3>4. TypeBytes(0) = 0 /\ IfRead(FALSE, 4) = 0
      BY DEF TypeBytes, IfRead
    <3>5. CASE op.has_mem_src /\ op.has_mem_dst
      BY <3>3, <3>5 DEF SrcBytes, DstBytes
    <3>6. CASE op.has_mem_src /\ ~op.has_mem_dst
      BY <3>2, <3>3, <3>4, <3>6 DEF SrcBytes, DstBytes, SrcKey, DstKey
    <3>7. CASE ~op.has_mem_src /\ op.has_mem_dst
      <4>1. "vaddr2" \in V
        BY <3>7 DEF SrcKey, DstKey
      <4>2. IfRead(K.second.vaddr2, 4) = 0
        BY <3>2, <3>4, <4>1
      <4>3. SrcBytes(op, K) = 0 /\ DstBytes(op, K) = TypeBytes(K.first.vaddr1)
        BY <3>7 DEF SrcBytes, DstBytes
      <4>. QED  BY <3>3, <4>2, <4>3
    <3>8. CASE ~op.has_mem_src /\ ~op.has_mem_dst
      BY <3>1, <3>2, <3>3, <3>4, <3>8 DEF SrcBytes, DstBytes, SrcKey, DstKey
    <3>. QED  BY <3>5, <3>6, <3>7, <3>8
  <2>5. /\ a \in Nat /\ b \in Nat /\ c \in Nat /\ d \in Nat /\ e \in Nat /\ g \in Nat
        /\ SrcBytes(op, K) \in Nat /\ DstBytes(op, K) \in Nat
    BY <2>1 DEF Keys, TypeBytes, IfRead, SrcBytes, DstBytes
  <2>6. /\ w1.buffer.tail = 2 + a
        /\ w2.buffer.tail = w1.buffer.tail + b
        /\ w3.buffer.tail = w2.buffer.tail + c
        /\ w4.buffer.tail = w3.buffer.tail + d
        /\ w5.buffer.tail = w4.buffer.tail + e
        /\ w6.buffer.tail = w5.buffer.tail + SrcBytes(op, K)
        /\ w7.buffer.tail = w6.buffer.tail + DstBytes(op, K)
        /\ w8.buffer.tail = w7.buffer.tail + 0
        /\ w9.buffer.tail = w8.buffer.tail + g
    BY <1>m, <1>1, <1>2, <1>3, <1>4, <1>5, <1>6, <1>7, <1>8, <1>9, <2>2, <2>3 DEF Appended
  <2>. HIDE DEF a, b, c, d, e, g
  <2>7. w9.buffer.tail = 2 + (a + b + c + d + e + f + g)
    BY <2>5, <2>6
  <2>8. Body(K) = e + TypeBytes(K.first.vaddr1) + d + b + a + g + c
                          + IfRead(K.second.vaddr2, 4)
    BY DEF Body, a, b, c, d, e, g
  <2>9. TypeBytes(K.first.vaddr1) \in Nat /\ IfRead(K.second.vaddr2, 4) \in Nat
    BY <2>1 DEF Keys, TypeBytes, IfRead
  <2>. HIDE DEF f
  <2>. QED  BY <2>4, <2>5, <2>7, <2>8, <2>9
<1>15. ASSUME NEW dec0, NEW bytes, NEW F, StreamType(dec0), Memory(dec0) = w0,
              KeyOf(bytes) = K, Carries(F, w9.buffer),
              Fetched(bytes) = [tail |-> 2 - F.shift, values |-> F.values]
       PROVE  Reads(read(dec0, bytes), W, K, F)
  <2>. DEFINE r0 == [Memory(dec0) EXCEPT !.key = K, !.buffer = Fetched(bytes)]
              r1 == get_instruction_addr(r0)
              r2 == get_static_info(r1)
              r3 == get_src1_val(r2)
              r4 == get_src2_val(r3)
              r5 == get_dst_val(r4)
              r6 == get_src_vaddr(r5)
              r7 == get_dst_vaddr(r6)
              r8 == get_taken(r7)
              r9 == get_branch_target(r8)
  <2>r. read(dec0, bytes) = r9
    BY <1>15 DEF read
  <2>c. /\ Carries(F, w9.buffer)
        /\ Carries(F, w8.buffer)
        /\ Carries(F, w7.buffer)
        /\ Carries(F, w6.buffer)
        /\ Carries(F, w5.buffer)
        /\ Carries(F, w4.buffer)
        /\ Carries(F, w3.buffer)
        /\ Carries(F, w2.buffer)
        /\ Carries(F, w1.buffer)
    <3>9. Carries(F, w9.buffer)
      BY <1>15
    <3>8. Carries(F, w8.buffer)
      BY <1>9, <3>9, CarriesBack
    <3>7. Carries(F, w7.buffer)
      BY <1>8, <3>8, CarriesBack
    <3>6. Carries(F, w6.buffer)
      BY <1>7, <3>7, CarriesBack
    <3>5. Carries(F, w5.buffer)
      BY <1>6, <3>6, CarriesBack
    <3>4. Carries(F, w4.buffer)
      BY <1>5, <3>5, CarriesBack
    <3>3. Carries(F, w3.buffer)
      BY <1>4, <3>4, CarriesBack
    <3>2. Carries(F, w2.buffer)
      BY <1>3, <3>3, CarriesBack
    <3>1. Carries(F, w1.buffer)
      BY <1>2, <3>2, CarriesBack
    <3>. QED  BY <3>9, <3>8, <3>7, <3>6, <3>5, <3>4, <3>3, <3>2, <3>1
  <2>0. Reads(r0, w0, K, F)
    BY <1>15, StartsReading DEF w0
  <2>. HIDE DEF r0
  <2>1. Reads(r1, w1, K, F)
    BY <1>w, <1>m, <1>12, <2>0, <2>c, AddrStep
  <2>. HIDE DEF r1
  <2>2. Reads(r2, w2, K, F)
    BY <1>w, <1>1, <1>12, <2>1, <2>c, StaticStep
  <2>. HIDE DEF r2
  <2>3. Reads(r3, w3, K, F)
    BY <1>w, <1>2, <1>12, <2>2, <2>c, Src1Step
  <2>. HIDE DEF r3
  <2>4. Reads(r4, w4, K, F)
    BY <1>w, <1>3, <1>12, <2>3, <2>c, Src2Step
  <2>. HIDE DEF r4
  <2>5. Reads(r5, w5, K, F)
    BY <1>w, <1>4, <1>12, <2>4, <2>c, DstStep
  <2>. HIDE DEF r5
  <2>6. Reads(r6, w6, K, F)
    <3>1. ~w5.inst.op.has_mem_src => out.src_vaddr = 0
      BY <1>5 DEF Legal, op
    <3>. QED  BY <1>w, <1>5, <1>12, <2>5, <2>c, <3>1, SrcVaddrStep
  <2>. HIDE DEF r6
  <2>7. Reads(r7, w7, K, F)
    <3>1. ~w6.inst.op.has_mem_dst => out.dst_vaddr = 0
      BY <1>6 DEF Legal, op
    <3>. QED  BY <1>w, <1>6, <1>12, <2>6, <2>c, <3>1, DstVaddrStep
  <2>. HIDE DEF r7
  <2>8. Reads(r8, w8, K, F)
    BY <1>w, <1>7, <1>12, <2>7, <2>c, TakenStep
  <2>. HIDE DEF r8
  <2>9. Reads(r9, w9, K, F)
    <3>1. ~w8.inst.op.is_indirect => w8.inst.branch_target = out.branch_target
      BY <1>8 DEF Holds, Told, op
    <3>. QED  BY <1>w, <1>8, <1>12, <2>8, <2>c, <3>1, TargetStep
  <2>. QED  BY <1>f, <2>r, <2>9 DEF Reads, Kept, Fields
<1>16. w8.ret_pred = w.ret_pred
  <2>1. w0.ret_pred = w.ret_pred
    <3>1. IsStream(w)
      BY StreamFields
    <3>. QED  BY <3>1 DEF IsStream, Fields, Memory, w0
  <2>2. w4.ret_pred = w.ret_pred
    BY <1>w, <1>m, <1>1, <1>2, <1>3, <2>1, RingKept
  <2>. QED  BY <1>w, <1>4, <1>5, <1>6, <1>7, <2>2, RingKept
<1>17. w8.inst.op = op /\ w8.inst.instruction_next_addr = out.instruction_next_addr
  BY <1>8 DEF Holds, Told
<1>18. op.is_return => op.is_indirect /\ op.is_branch
  BY DEF Legal, op
<1>19. /\ w9.ret_pred = IF op.is_branch THEN ReturnStack(w8) ELSE w8.ret_pred
       /\ op.is_return /\ out.branch_target = FsTop(w8.ret_pred)
          => w9.key.second.branch_target = 0
  <2>1. ~w8.inst.op.is_indirect => w8.inst.branch_target = out.branch_target
    BY <1>8 DEF Holds, Told, op
  <2>. QED  BY <1>w, <1>8, <1>17, <1>18, <2>1, TargetStep
<1>20. w9.ret_pred = RingAfter(w.ret_pred, out)
  <2>1. ~op.is_branch => ~op.is_call /\ ~op.is_return
    BY DEF Legal, op
  <2>. QED  BY <1>16, <1>17, <1>19, <2>1 DEF ReturnStack, RingAfter, op
<1>21. /\ W.inst = w9.inst /\ W.buffer = w9.buffer /\ W.ret_pred = w9.ret_pred
       /\ W.key = K
  BY <1>f, <1>k DEF Kept, Fields
<1>22. HasRecord(W)
  BY <1>f, <1>9, <1>14, <1>21 DEF HasRecord
<1>23. op.is_return /\ out.branch_target = FsTop(w.ret_pred)
         => K.second.branch_target = 0
  BY <1>f, <1>16, <1>19
<1>. QED  BY <1>0, <1>f, <1>10, <1>15, <1>20, <1>21, <1>22, <1>23 DEF w0, op


--------------------------------------------------------------------------------
(* A new stream *)

LEMMA NewStreamType == StreamType(NewStream)
<1>. DEFINE w == NewStream
<1>1. IsStream(w)
  BY DEF NewStream, IsStream, Fields
<1>2. w.inst \in Instructions
  BY OpAssumption, WordFacts DEF NewStream, EmptyInst, Instructions
<1>3. w.static_info \in 0..(Sizes.static_info - 1)
  BY SizesAssumption DEF NewStream
<1>4. w.static_info_cache \in [0..(Sizes.static_info - 1) -> StaticInfos]
  <2>1. EmptyStatic \in StaticInfos
    BY OpAssumption, WordFacts DEF EmptyStatic, StaticInfos
  <2>. QED  BY <2>1 DEF NewStream
<1>5. w.register_file \in [Registers -> Word]
  BY WordFacts DEF NewStream
<1>6. \A size : NewStridePred(size) \in StridePreds(size)
  BY WordFacts DEF NewStridePred, StridePreds
<1>7. ASSUME NEW sets, NEW page \in Nat \ {0}
      PROVE  NewValueCache(sets, page) \in ValueCaches(sets, page)
  <2>1. 0 % page = 0
    OBVIOUS
  <2>. QED  BY <2>1, WordFacts DEF NewValueCache, ValueCaches
<1>8. w.taken_pred \in CondPreds(Sizes.cond_bits)
  <2>. DEFINE full == 2^Sizes.cond_bits
  <2>1. full \in Nat \ {0}
    BY SizesAssumption
  <2>. HIDE DEF full
  <2>2. 0 \in 0..(full - 1) /\ 2 \in 0..3
    BY <2>1
  <2>3. w.taken_pred = [bits |-> Sizes.cond_bits, history |-> 0,
                        table |-> [n \in 0..(full - 1) |-> 2]]
    BY DEF NewStream, NewCondPred, full
  <2>4. CondPreds(Sizes.cond_bits)
          = [bits : {Sizes.cond_bits}, history : 0..(full - 1), table : [0..(full - 1) -> 0..3]]
    BY DEF CondPreds, full
  <2>. QED  BY <2>2, <2>3, <2>4
<1>9. w.ret_pred \in FiniteStacks(Sizes.stack)
  BY SizesAssumption, WordFacts DEF NewStream, NewFiniteStack, FiniteStacks
<1>10. w.ind_pred \in IndirectPreds(Sizes.ind_bits, Sizes.element)
  <2>1. <<0, 0, 0, 0>> \in Histories(Sizes.element)
    BY SizesAssumption DEF Histories, Elements
  <2>. DEFINE entry == [history_tag |-> 0, history |-> <<0, 0, 0, 0>>, address |-> 0]
  <2>2. entry \in [history_tag : Word, history : Histories(Sizes.element), address : Word]
    BY <2>1, WordFacts
  <2>. HIDE DEF entry
  <2>3. w.ind_pred = [bits |-> Sizes.ind_bits, elements |-> Sizes.element,
                      table |-> [n \in 0..(2^Sizes.ind_bits - 1) |-> entry]]
    BY DEF NewStream, NewIndirectPred, entry
  <2>. QED  BY <2>2, <2>3 DEF IndirectPreds
<1>11. w.key \in Keys
  BY DEF NewStream, EmptyKey, Keys
<1>12. /\ w.dst_stride = NewStridePred(Sizes.stride)
       /\ w.vaddr1_stride = NewStridePred(Sizes.stride)
       /\ w.dst_l0 = NewValueCache(Sizes.l0, 1) /\ w.dst_l1 = NewValueCache(Sizes.l1, 1)
       /\ w.vaddr1_l0 = NewValueCache(Sizes.vaddr1_l0, Sizes.page0)
       /\ w.vaddr1_l1 = NewValueCache(Sizes.vaddr1_l1, Sizes.page1)
       /\ w.target_l0 = NewValueCache(Sizes.l0, 1) /\ w.target_l1 = NewValueCache(Sizes.l1, 1)
  BY DEF NewStream
<1>13. Sizes.page0 \in Nat \ {0} /\ Sizes.page1 \in Nat \ {0} /\ 1 \in Nat \ {0}
  BY SizesAssumption
<1>. HIDE DEF w
<1>14. StreamParts(w)
  BY <1>2, <1>3, <1>4, <1>5, <1>6, <1>7, <1>8, <1>9, <1>10, <1>11, <1>12, <1>13 DEF StreamParts
<1>. QED  BY <1>1, <1>14, FieldsStream DEF w

--------------------------------------------------------------------------------
(* The record as a run of bytes *)

\* Output(x) is a sequence, of the cells it consists of.
Cells(x) == {Output(x)[n] : n \in 1..(x.buffer.tail - buffer_head(x))}

LEMMA OutputCells ==
    ASSUME NEW x, HasRecord(x)
    PROVE  /\ Output(x) \in Seq(Cells(x))
           /\ Len(Output(x)) = 1 + IfRead(x.key.first.two_byte_key, 1) + Body(x.key)
           /\ Len(Output(x)) = x.buffer.tail - buffer_head(x)
           /\ Output(x)[1] = <<x.key.first>>
           /\ x.key.first.two_byte_key => Output(x)[2] = <<x.key.second>>
           /\ \A o \in DOMAIN x.buffer.values :
                 /\ o - buffer_head(x) \in 1..(Len(Output(x)) - 1)
                 /\ Output(x)[o - buffer_head(x) + 1] = <<x.buffer.values[o]>>
<1>. DEFINE head == buffer_head(x)
            size == x.buffer.tail - head
            cell(n) == IF n = 1 THEN <<x.key.first>>
                       ELSE IF head + n - 1 = 1 THEN <<x.key.second>>
                       ELSE IF head + n - 1 \in DOMAIN x.buffer.values
                            THEN <<x.buffer.values[head + n - 1]>>
                       ELSE << >>
<1>1. /\ head = IF x.key.first.two_byte_key THEN 0 ELSE 1
      /\ head \in {0, 1} /\ head = 1 - IfRead(x.key.first.two_byte_key, 1)
      /\ Body(x.key) \in 0..48 /\ x.buffer.tail = 2 + Body(x.key)
      /\ \A o \in DOMAIN x.buffer.values : o \in Nat /\ 2 <= o /\ o < x.buffer.tail
  <2>1. /\ Body(x.key) \in 0..48 /\ x.buffer.tail = 2 + Body(x.key)
        /\ IfRead(x.key.first.two_byte_key, 1) = IF x.key.first.two_byte_key THEN 1 ELSE 0
    BY BodyNeeded DEF HasRecord
  <2>. QED  BY <2>1 DEF HasRecord, BufferOK, buffer_head
<1>2. Output(x) = [n \in 1..size |-> cell(n)]
  BY DEF Output
<1>3. Cells(x) = {Output(x)[n] : n \in 1..size}
  BY DEF Cells
<1>. HIDE DEF head
<1>4. size \in Nat /\ size >= 1
      /\ size = 1 + IfRead(x.key.first.two_byte_key, 1) + Body(x.key)
  <2>. DEFINE two == IfRead(x.key.first.two_byte_key, 1)
  <2>1. two \in {0, 1} /\ head = 1 - two
    BY <1>1 DEF IfRead
  <2>. HIDE DEF two
  <2>2. /\ (2 + Body(x.key)) - (1 - two) \in Nat /\ (2 + Body(x.key)) - (1 - two) >= 1
        /\ (2 + Body(x.key)) - (1 - two) = 1 + two + Body(x.key)
    BY <1>1, <2>1
  <2>. QED  BY <1>1, <2>1, <2>2 DEF two
<1>5. /\ cell(1) = <<x.key.first>>
      /\ x.key.first.two_byte_key => cell(2) = <<x.key.second>> /\ 2 \in 1..size
  <2>1. ASSUME x.key.first.two_byte_key PROVE head = 0 /\ 0 + 2 - 1 = 1 /\ size >= 2
    BY <1>1, <2>1
  <2>2. x.key.first.two_byte_key => cell(2) = <<x.key.second>>
    BY <2>1
  <2>. HIDE DEF cell
  <2>3. x.key.first.two_byte_key => 2 \in 1..size
    BY <1>4, <2>1
  <2>4. cell(1) = <<x.key.first>>
    BY DEF cell
  <2>. QED  BY <2>2, <2>3, <2>4
<1>6. ASSUME NEW o \in DOMAIN x.buffer.values
      PROVE  /\ o - head \in 1..(size - 1) /\ o - head + 1 \in 1..size
             /\ cell(o - head + 1) = <<x.buffer.values[o]>>
  <2>1. o \in Nat /\ 2 <= o /\ o < x.buffer.tail /\ head \in {0, 1}
    BY <1>1
  <2>2. head + (o - head + 1) - 1 = o /\ o - head + 1 # 1 /\ o # 1
    BY <2>1
  <2>3. cell(o - head + 1) = <<x.buffer.values[o]>>
    BY <2>2
  <2>4. o - head \in 1..(size - 1) /\ o - head + 1 \in 1..size
    <3>. HIDE DEF cell
    <3>. QED  BY <1>1, <2>1
  <2>. QED  BY <2>3, <2>4
<1>. HIDE DEF cell, size
<1>7. /\ \A n \in 1..size : Output(x)[n] = cell(n)
      /\ \A n \in 1..size : Output(x)[n] \in Cells(x)
      /\ DOMAIN Output(x) = 1..size /\ Output(x) = [n \in 1..size |-> Output(x)[n]]
  BY <1>2, <1>3
<1>8. Output(x) \in Seq(Cells(x)) /\ Len(Output(x)) = size
  <2>1. Output(x) \in [1..size -> Cells(x)]
    BY <1>7
  <2>. HIDE DEF Output
  <2>. QED  BY <1>4, <2>1
<1>9. 1 \in 1..size
  BY <1>4
<1>10. Output(x)[1] = <<x.key.first>>
       /\ (x.key.first.two_byte_key => Output(x)[2] = <<x.key.second>>)
  BY <1>5, <1>7, <1>9
<1>11. ASSUME NEW o \in DOMAIN x.buffer.values
       PROVE  Output(x)[o - head + 1] = <<x.buffer.values[o]>>
  BY <1>6, <1>7
<1>. QED  BY <1>4, <1>6, <1>8, <1>10, <1>11 DEF size, head

\* The length is one byte and what the key calls for, in its two parts.
LEMMA LengthOfOutput ==
    ASSUME NEW x, HasRecord(x)
    PROVE  /\ Len(Output(x)) = 1 + FirstNeeded(x.key.first) + SecondNeeded(x.key.second)
           /\ FirstNeeded(x.key.first) \in Nat /\ SecondNeeded(x.key.second) \in Nat
           /\ Len(Output(x)) \in Nat
           /\ 1 + FirstNeeded(x.key.first) <= Len(Output(x))
           /\ x.key.first.two_byte_key => Len(Output(x)) >= 2
<1>. DEFINE two == IfRead(x.key.first.two_byte_key, 1)
<1>1. /\ FirstNeeded(x.key.first) \in Nat /\ SecondNeeded(x.key.second) \in Nat
      /\ FirstNeeded(x.key.first) + SecondNeeded(x.key.second) = two + Body(x.key)
      /\ Body(x.key) \in 0..48 /\ two \in {0, 1}
      /\ x.key.first.two_byte_key => two = 1
  BY BodyNeeded DEF HasRecord
<1>2. Len(Output(x)) = 1 + two + Body(x.key)
  BY OutputCells
<1>. DEFINE a == FirstNeeded(x.key.first)
            b == SecondNeeded(x.key.second)
            l == Len(Output(x))
<1>3. /\ a \in Nat /\ b \in Nat /\ Body(x.key) \in 0..48 /\ two \in {0, 1}
      /\ a + b = two + Body(x.key) /\ l = 1 + two + Body(x.key)
  BY <1>1, <1>2
<1>. HIDE DEF two, a, b, l
<1>4. l = 1 + a + b /\ l \in Nat /\ 1 + a <= l /\ (two = 1 => l >= 2)
  BY <1>3
<1>. QED  BY <1>1, <1>3, <1>4 DEF a, b, l

\* Bytes that begin like the record of x, up to the second byte of the key if they
\* reach that far: the key and the number of bytes that follow from them.
LEMMA BeginsLike ==
    ASSUME NEW x, HasRecord(x), NEW bytes, Len(bytes) \in Nat, Len(bytes) >= 1,
           bytes[1] = Output(x)[1],
           x.key.first.two_byte_key /\ Len(bytes) >= 2 => bytes[2] = Output(x)[2]
    PROVE  /\ FirstFetch(bytes) = 1 + FirstNeeded(x.key.first)
           /\ FirstFetch(bytes) \in Nat
           /\ x.key.first.two_byte_key => FirstFetch(bytes) >= 2
           /\ Len(bytes) >= FirstFetch(bytes)
              => KeyOf(bytes) = x.key /\ RecordLength(bytes) = Len(Output(x))
<1>1. x.key \in Keys
  BY DEF HasRecord
<1>2. bytes[1][1] = x.key.first
  BY OutputCells
<1>3. /\ FirstFetch(bytes) = 1 + FirstNeeded(x.key.first) /\ FirstFetch(bytes) \in Nat
      /\ x.key.first.two_byte_key => FirstFetch(bytes) >= 2
      /\ FirstNeeded(x.key.first) \in Nat
  BY <1>1, <1>2, BodyNeeded DEF FirstFetch
<1>4. ASSUME Len(bytes) >= FirstFetch(bytes)
      PROVE  KeyOf(bytes) = x.key /\ RecordLength(bytes) = Len(Output(x))
  <2>1. x.key = [first |-> x.key.first, second |-> x.key.second]
    BY <1>1 DEF Keys
  <2>2. CASE x.key.first.two_byte_key
    <3>1. bytes[2] = <<x.key.second>>
      BY <1>3, <1>4, <2>2, OutputCells
    <3>2. KeyOf(bytes) = x.key
      BY <1>2, <2>1, <2>2, <3>1 DEF KeyOf
    <3>3. RecordLength(bytes) = 1 + FirstNeeded(x.key.first) + SecondNeeded(x.key.second)
      BY <1>3, <2>2, <3>2 DEF RecordLength
    <3>. QED  BY <1>1, <1>3, <3>2, <3>3, LengthOfOutput
  <2>3. CASE ~x.key.first.two_byte_key
    <3>1. x.key.second = EmptyKey.second
      BY <1>1, <2>3 DEF HasRecord
    <3>2. KeyOf(bytes) = x.key
      BY <1>2, <2>1, <2>3, <3>1 DEF KeyOf
    <3>3. SecondNeeded(x.key.second) = 0
      BY <3>1 DEF EmptyKey, SecondNeeded, IfRead, TypeBytes
    <3>4. RecordLength(bytes) = FirstFetch(bytes) + 0
      BY <2>3, <3>2 DEF RecordLength
    <3>5. RecordLength(bytes) = 1 + FirstNeeded(x.key.first) + SecondNeeded(x.key.second)
      BY <1>3, <3>3, <3>4
    <3>. QED  BY <1>1, <3>2, <3>5, LengthOfOutput
  <2>. QED  BY <2>2, <2>3
<1>. QED  BY <1>3, <1>4

\* What a concatenation is, and what is behind its first part.
LEMMA ConcatSeqs ==
    ASSUME NEW S, NEW s \in Seq(S), NEW t \in Seq(S), NEW u, u = s \o t
    PROVE  /\ u \in Seq(S) /\ Len(u) = Len(s) + Len(t) /\ Len(t) \in Nat
           /\ \A i \in 1..Len(s) : u[i] = s[i]
           /\ \A i \in 1..Len(t) : u[Len(s) + i] = t[i]
           /\ SubSeq(u, Len(s) + 1, Len(u)) = t
<1>1. /\ u \in Seq(S) /\ Len(u) = Len(s) + Len(t) /\ Len(t) \in Nat /\ Len(s) \in Nat
      /\ \A i \in 1..Len(s) : u[i] = s[i]
      /\ \A i \in 1..Len(t) : u[Len(s) + i] = t[i]
  OBVIOUS
<1>2. CASE t = << >>
  BY <1>1, <1>2, SubSeqEmpty
<1>3. CASE t # << >>
  <2>1. Len(t) >= 1
    BY <1>1, <1>3, EmptySeq
  <2>2. /\ Len(s) + 1 \in Len(s) + 1 .. Len(s) + Len(t)
        /\ Len(s) + Len(t) \in Len(s) + 1 .. Len(s) + Len(t)
        /\ (Len(s) + 1) - Len(s) = 1 /\ (Len(s) + Len(t)) - Len(s) = Len(t)
    BY <1>1, <2>1
  <2>3. SubSeq(s \o t, Len(s) + 1, Len(s) + Len(t))
          = SubSeq(t, (Len(s) + 1) - Len(s), (Len(s) + Len(t)) - Len(s))
    BY <2>2, SubSeqOfConcat2
  <2>4. SubSeq(t, 1, Len(t)) = t
    BY SubSeqFull
  <2>. QED  BY <1>1, <2>2, <2>3, <2>4
<1>. QED  BY <1>1, <1>2, <1>3

\* The values F fetched from the bytes are those in the buffer of x.
FetchedFor(x, bytes, F) ==
    /\ Carries(F, x.buffer) /\ F.shift = buffer_head(x)
    /\ Fetched(bytes) = [tail |-> 2 - F.shift, values |-> F.values]

\* In front of any further bytes a record is found whole, and fetched.
LEMMA FetchesRecord ==
    ASSUME NEW x, HasRecord(x), NEW S, Output(x) \in Seq(S), NEW behind \in Seq(S),
           NEW bytes, bytes = Output(x) \o behind
    PROVE  /\ Whole(bytes) /\ KeyOf(bytes) = x.key
           /\ RecordLength(bytes) = Len(Output(x))
           /\ SubSeq(bytes, RecordLength(bytes) + 1, Len(bytes)) = behind
           /\ \E F : FetchedFor(x, bytes, F)
<1>. DEFINE size == Len(Output(x))
<1>1. /\ size \in Nat /\ size >= 1
      /\ x.key.first.two_byte_key => size >= 2
      /\ 1 + FirstNeeded(x.key.first) <= size /\ FirstNeeded(x.key.first) \in Nat
  <2>. HIDE DEF size
  <2>1. /\ size \in Nat /\ 1 + FirstNeeded(x.key.first) <= size
        /\ FirstNeeded(x.key.first) \in Nat
        /\ x.key.first.two_byte_key => size >= 2
    BY LengthOfOutput DEF size
  <2>. QED  BY <2>1
<1>2. /\ bytes \in Seq(S) /\ Len(bytes) = size + Len(behind) /\ Len(behind) \in Nat
      /\ \A i \in 1..size : bytes[i] = Output(x)[i]
      /\ \A i \in 1..Len(behind) : bytes[size + i] = behind[i]
  BY <1>1, ConcatSeqs
<1>. HIDE DEF size
<1>3. /\ bytes[1] = Output(x)[1] /\ Len(bytes) \in Nat /\ Len(bytes) >= 1
      /\ Len(bytes) >= size
  BY <1>1, <1>2
<1>4. FirstFetch(bytes) \in Nat /\ FirstFetch(bytes) <= size
      /\ KeyOf(bytes) = x.key /\ RecordLength(bytes) = size
  <2>3. x.key.first.two_byte_key => bytes[2] = Output(x)[2]
    BY <1>1, <1>2
  <2>4. FirstFetch(bytes) = 1 + FirstNeeded(x.key.first) /\ FirstFetch(bytes) \in Nat
    BY <1>3, <2>3, BeginsLike
  <2>5. Len(bytes) >= FirstFetch(bytes)
    BY <1>1, <1>3, <2>4
  <2>6. KeyOf(bytes) = x.key /\ RecordLength(bytes) = size
    BY <1>3, <2>3, <2>5, BeginsLike DEF size
  <2>. QED  BY <1>1, <2>4, <2>6
<1>5. Whole(bytes)
  BY <1>1, <1>3, <1>4 DEF Whole
<1>6. SubSeq(bytes, size + 1, Len(bytes)) = behind
  <2>1. /\ Output(x) \in Seq(S) /\ behind \in Seq(S) /\ bytes = Output(x) \o behind
        /\ Len(Output(x)) = size /\ Len(bytes) = size + Len(behind)
    BY <1>2 DEF size
  <2>. QED  BY <2>1, ConcatSeqs
<1>7. \E F : FetchedFor(x, bytes, F)
  <2>. DEFINE D == {o \in 0..(size - 1) : Len(bytes[o + 1]) = 1}
              V == [o \in D |-> bytes[o + 1][1]]
              head == buffer_head(x)
              F == [shift |-> head, values |-> V]
  <2>1. head = (IF x.key.first.two_byte_key THEN 0 ELSE 1) /\ head \in {0, 1}
    BY DEF buffer_head
  <2>2. Fetched(bytes) = [tail |-> 2 - head, values |-> V]
    <3>1. (IF KeyOf(bytes).first.two_byte_key THEN 2 ELSE 1) = 2 - head
      BY <1>4, <2>1
    <3>. QED  BY <1>4, <3>1 DEF Fetched
  <2>3. ASSUME NEW o \in DOMAIN x.buffer.values PROVE V[o - head] = x.buffer.values[o]
    <3>1. /\ o - head \in 1..(size - 1)
          /\ Output(x)[o - head + 1] = <<x.buffer.values[o]>>
      BY OutputCells DEF size
    <3>2. o - head \in 0..(size - 1) /\ o - head + 1 \in 1..size
      BY <1>1, <3>1
    <3>3. bytes[o - head + 1] = <<x.buffer.values[o]>>
      BY <1>2, <3>1, <3>2
    <3>4. Len(bytes[o - head + 1]) = 1 /\ bytes[o - head + 1][1] = x.buffer.values[o]
      BY <3>3
    <3>5. o - head \in D
      BY <3>2, <3>4
    <3>. HIDE DEF D
    <3>. QED  BY <3>4, <3>5
  <2>. HIDE DEF V, head
  <2>4. Carries(F, x.buffer)
    BY <2>1, <2>3 DEF Carries
  <2>5. FetchedFor(x, bytes, F)
    BY <2>2, <2>4 DEF head, FetchedFor
  <2>. QED  BY <2>5
<1>. QED  BY <1>4, <1>5, <1>6, <1>7 DEF size

\* The head of a record that was cut short is not a whole one.
LEMMA CutRecord ==
    ASSUME NEW x, HasRecord(x), NEW sent \in Nat, sent < Len(Output(x))
    PROVE  ~Whole(SubSeq(Output(x), 1, sent))
<1>. DEFINE p == SubSeq(Output(x), 1, sent)
<1>1. Len(Output(x)) \in Nat /\ Output(x) \in Seq(Cells(x))
  BY OutputCells
<1>. HIDE DEF Output
<1>2. Len(p) = sent /\ \A i \in 1..sent : p[i] = Output(x)[i]
  BY <1>1
<1>. HIDE DEF p
<1>3. SUFFICES ASSUME Whole(p) PROVE FALSE
  BY DEF p
<1>4. Len(p) >= 1 /\ Len(p) >= FirstFetch(p) /\ Len(p) >= RecordLength(p)
  BY <1>3 DEF Whole
<1>5. p[1] = Output(x)[1] /\ (Len(p) >= 2 => p[2] = Output(x)[2])
  BY <1>2, <1>4
<1>6. RecordLength(p) = Len(Output(x))
  BY <1>2, <1>4, <1>5, BeginsLike
<1>. QED  BY <1>1, <1>2, <1>4, <1>6

--------------------------------------------------------------------------------
(* The trace *)

LEMMA MemoryMemory ==
    ASSUME NEW w, StreamType(w)
    PROVE  Memory(Memory(w)) = Memory(w) /\ \A inst : write(w, inst) = write(Memory(w), inst)
<1>1. IsStream(w)
  BY StreamFields
<1>2. Memory(Memory(w)) = Memory(w)
  BY <1>1 DEF Memory, IsStream, Fields
<1>. QED  BY <1>2 DEF write

\* The memories the reader goes through, and what is left of the file behind each
\* record: from its own memory and the whole file, one instruction after the other,
\* to the writer's memory and nothing, unless the writer has failed.
Chained(mems, rest, S, log) ==
    /\ \A k \in 0..Len(log) : StreamType(mems[k]) /\ rest[k] \in Seq(S)
    /\ \A k \in 1..Len(log) :
          \A x : x = write(mems[k - 1], log[k].inst) =>
              /\ Output(x) \in Seq(S)
              /\ rest[k - 1] = Output(x) \o rest[k]
              /\ log[k].size = Len(Output(x))
              /\ mems[k] = Memory(x)

Ends(failed, mem, left, memory) ==
    IF failed THEN ~Whole(left) ELSE left = << >> /\ mem = memory

Through(mems, rest, S) ==
    /\ mems[0] = Memory(dec) /\ rest[0] = file
    /\ Chained(mems, rest, S, unread)
    /\ Ends(writer = "failed", mems[Len(unread)], rest[Len(unread)], Memory(enc))

Records == [inst : Insts, size : Nat]

TraceInv ==
    /\ StreamType(enc) /\ BufferHolds
    /\ StreamType(dec)
    /\ got.read = got.written
    /\ unread \in Seq(Records)
    /\ \E mems, rest, S : Through(mems, rest, S)

\* Two new streams and an empty file.
LEMMA InitInv == Init => TraceInv
<1>. SUFFICES ASSUME Init PROVE TraceInv
  OBVIOUS
<1>1. StreamType(enc) /\ StreamType(dec)
  BY NewStreamType DEF Init
<1>2. BufferHolds
  BY DEF Init, BufferHolds, BUFFER_SIZE, NewStream, EmptyBuffer
<1>3. Through([k \in {0} |-> Memory(dec)], [k \in {0} |-> << >>], {})
  BY <1>1, MemoryFacts DEF Init, Through, Chained, Ends
<1>4. unread \in Seq(Records) /\ got.read = got.written
  BY DEF Init
<1>. QED  BY <1>1, <1>2, <1>3, <1>4 DEF TraceInv

\* The writer goes on.
LEMMA Writes ==
    ASSUME TraceInv, NEW inst \in Insts, enc' = write(enc, inst)
    PROVE  /\ StreamType(enc') /\ BufferHolds'
           /\ HasRecord(enc') /\ enc' = write(Memory(enc), inst)
<1>1. inst \in Instructions /\ Legal(inst)
  BY TraceAssumption
<1>2. StreamType(enc)
  BY DEF TraceInv
<1>3. StreamType(enc') /\ HasRecord(enc')
  BY <1>1, <1>2, WriteRead
<1>4. enc' = write(Memory(enc), inst)
  BY <1>2, MemoryMemory
<1>5. enc'.buffer.tail <= 50
  <2>1. enc'.buffer.tail = 2 + Body(enc'.key) /\ Body(enc'.key) \in 0..48
    BY <1>3, BodyNeeded DEF HasRecord
  <2>. QED  BY <2>1
<1>. QED  BY <1>3, <1>4, <1>5 DEF BufferHolds, BUFFER_SIZE

LEMMA WriteInv == ASSUME TraceInv, NEW inst \in Insts, Write(inst) PROVE TraceInv'
<1>1. PICK mems, rest, S : Through(mems, rest, S)
  BY DEF TraceInv
<1>2. /\ StreamType(enc') /\ BufferHolds' /\ HasRecord(enc')
      /\ enc' = write(Memory(enc), inst)
  BY Writes DEF Write
<1>. DEFINE n == Len(unread)
            out == Output(enc')
            rec == [inst |-> inst, size |-> Len(out)]
<1>3. /\ unread \in Seq(Records) /\ n \in Nat
      /\ mems[n] = Memory(enc) /\ rest[n] = << >>
      /\ out \in Seq(Cells(enc')) /\ rec \in Records
  <2>1. out \in Seq(Cells(enc'))
    BY <1>2, OutputCells
  <2>. HIDE DEF out
  <2>2. rec \in Records
    BY <2>1 DEF Records
  <2>. QED  BY <1>1, <2>1, <2>2 DEF TraceInv, Through, Chained, Ends, Write
<1>4. /\ unread' = Append(unread, rec) /\ file' = file \o out
  BY DEF Write
<1>. HIDE DEF out, rec
<1>5. /\ Len(unread') = n + 1 /\ unread' \in Seq(Records) /\ unread'[n + 1] = rec
      /\ \A k \in 1..n : unread'[k] = unread[k]
  BY <1>3, <1>4
<1>t. PICK T : T = S \cup Cells(enc')
  OBVIOUS
<1>6. PICK new : new = [k \in 0..(n + 1) |-> IF k <= n THEN mems[k] ELSE Memory(enc')]
  OBVIOUS
<1>7. PICK left : left = [k \in 0..(n + 1) |-> IF k <= n THEN rest[k] \o out ELSE << >>]
  OBVIOUS
<1>8. /\ 0 \in 0..n /\ n \in 0..n /\ n + 1 \in 0..(n + 1) /\ ~(n + 1 <= n)
      /\ \A k \in 0..n : k \in 0..(n + 1) /\ k <= n
      /\ \A k \in 1..n : k \in 0..n /\ k - 1 \in 0..n
      /\ \A k \in 0..(n + 1) : k \in 0..n \/ k = n + 1
      /\ \A k \in 1..(n + 1) : k \in 1..n \/ k = n + 1
  BY <1>3
<1>9. /\ \A k \in 0..n : new[k] = mems[k] /\ left[k] = rest[k] \o out
      /\ new[n + 1] = Memory(enc') /\ left[n + 1] = << >>
  BY <1>6, <1>7, <1>8
<1>10. /\ out \in Seq(T) /\ << >> \in Seq(T)
       /\ \A k \in 0..n : rest[k] \in Seq(S)
       /\ \A k \in 0..n : rest[k] \in Seq(T)
  <2>1. out \in Seq(T)
    BY <1>3, <1>t, SeqMonotonic
  <2>2. \A k \in 0..n : rest[k] \in Seq(S)
    BY <1>1 DEF Through, Chained, Ends
  <2>3. \A k \in 0..n : rest[k] \in Seq(T)
    <3>1. Seq(S) \subseteq Seq(T)
      BY <1>t, SeqMonotonic
    <3>. QED  BY <2>2, <3>1
  <2>. QED  BY <2>1, <2>2, <2>3
<1>11. StreamType(Memory(enc'))
  BY <1>2, MemoryFacts
<1>12. Through(new, left, T)'
  <2>1. new[0] = Memory(dec)' /\ left[0] = file'
    BY <1>1, <1>4, <1>8, <1>9 DEF Through, Chained, Ends, Write
  <2>2. ASSUME NEW k \in 0..(n + 1) PROVE StreamType(new[k]) /\ left[k] \in Seq(T)
    <3>1. CASE k \in 0..n
      <4>1. StreamType(new[k])
        BY <1>1, <1>9, <3>1 DEF Through, Chained, Ends
      <4>2. left[k] = rest[k] \o out /\ rest[k] \in Seq(T) /\ out \in Seq(T)
        BY <1>9, <1>10, <3>1
      <4>. QED  BY <4>1, <4>2, ConcatProperties
    <3>2. CASE k = n + 1
      BY <1>9, <1>10, <1>11, <3>2
    <3>. QED  BY <1>8, <3>1, <3>2
  <2>3. ASSUME NEW k \in 1..(n + 1), NEW x, x = write(new[k - 1], unread'[k].inst)
        PROVE  /\ Output(x) \in Seq(T)
               /\ left[k - 1] = Output(x) \o left[k]
               /\ unread'[k].size = Len(Output(x))
               /\ new[k] = Memory(x)
    <3>1. CASE k \in 1..n
      <4>1. /\ x = write(mems[k - 1], unread[k].inst) /\ unread'[k] = unread[k]
            /\ new[k] = mems[k]
            /\ left[k - 1] = rest[k - 1] \o out /\ left[k] = rest[k] \o out
            /\ rest[k] \in Seq(T)
        BY <1>5, <1>8, <1>9, <1>10, <2>3, <3>1
      <4>2. /\ Output(x) \in Seq(S) /\ rest[k - 1] = Output(x) \o rest[k]
            /\ unread[k].size = Len(Output(x)) /\ mems[k] = Memory(x)
        BY <1>1, <3>1, <4>1 DEF Through, Chained, Ends
      <4>3. Output(x) \in Seq(T)
        BY <1>t, <4>2, SeqMonotonic
      <4>4. left[k - 1] = Output(x) \o left[k]
        <5>1. Output(x) \in Seq(T) /\ rest[k] \in Seq(T) /\ out \in Seq(T)
          BY <1>10, <4>1, <4>3
        <5>2. (Output(x) \o rest[k]) \o out = Output(x) \o (rest[k] \o out)
          <6>1. PICK a, b, c : a = Output(x) /\ b = rest[k] /\ c = out
            OBVIOUS
          <6>2. a \in Seq(T) /\ b \in Seq(T) /\ c \in Seq(T)
            BY <5>1, <6>1
          <6>3. (a \o b) \o c = a \o (b \o c)
            BY <6>2, ConcatAssociative
          <6>. QED  BY <6>1, <6>3, Zenon
        <5>3. /\ left[k - 1] = rest[k - 1] \o out /\ left[k] = rest[k] \o out
              /\ rest[k - 1] = Output(x) \o rest[k]
          BY <4>1, <4>2
        <5>. QED  BY <5>2, <5>3, Zenon
      <4>. QED  BY <4>1, <4>2, <4>3, <4>4
    <3>2. CASE k = n + 1
      <4>1. k - 1 = n /\ unread'[k] = rec
        BY <1>3, <1>5, <3>2
      <4>2. x = enc' /\ new[k] = Memory(x)
        BY <1>2, <1>3, <1>8, <1>9, <2>3, <3>2, <4>1 DEF rec
      <4>3. left[k - 1] = << >> \o out /\ left[k] = << >>
        BY <1>3, <1>8, <1>9, <3>2, <4>1
      <4>4. Output(x) = out /\ unread'[k].size = Len(out)
        BY <4>1, <4>2 DEF rec, out
      <4>5. << >> \o out = out \o << >>
        BY <1>10, ConcatEmptySeq
      <4>. QED  BY <1>10, <4>2, <4>3, <4>4, <4>5
    <3>. QED  BY <1>8, <3>1, <3>2
  <2>4. writer' # "failed"
    BY DEF Write
  <2>5. \A k \in 0..Len(unread') : StreamType(new[k]) /\ left[k] \in Seq(T)
    BY <1>5, <2>2
  <2>6. \A k \in 1..Len(unread') :
          \A x : x = write(new[k - 1], unread'[k].inst) =>
          /\ Output(x) \in Seq(T)
          /\ left[k - 1] = Output(x) \o left[k]
          /\ unread'[k].size = Len(Output(x))
          /\ new[k] = Memory(x)
    BY <1>5, <2>3
  <2>7. left[Len(unread')] = << >> /\ new[Len(unread')] = Memory(enc')
    BY <1>5, <1>9
  <2>8. Ends((writer = "failed")', new[Len(unread')], left[Len(unread')], Memory(enc'))
    BY <2>4, <2>7 DEF Ends
  <2>9. Chained(new, left, T, unread')
    BY <2>5, <2>6 DEF Chained
  <2>. QED  BY <2>1, <2>8, <2>9 DEF Through
<1>13. (StreamType(enc) /\ StreamType(dec) /\ got.read = got.written)'
  BY <1>2 DEF TraceInv, Write, StreamType
<1>. QED  BY <1>2, <1>5, <1>12, <1>13 DEF TraceInv

\* The writer fails: it has learnt what its last record does not carry whole.
LEMMA FailInv == ASSUME TraceInv, NEW inst \in Insts, WriteFails(inst) PROVE TraceInv'
<1>1. PICK mems, rest, S : Through(mems, rest, S)
  BY DEF TraceInv
<1>2. StreamType(enc') /\ BufferHolds' /\ HasRecord(enc')
  BY Writes DEF WriteFails
<1>3. PICK sent \in Cuts : /\ sent < Len(Output(enc'))
                           /\ file' = file \o SubSeq(Output(enc'), 1, sent)
  BY DEF WriteFails
<1>. DEFINE n == Len(unread)
            part == SubSeq(Output(enc'), 1, sent)
<1>4. /\ unread' = unread /\ unread \in Seq(Records) /\ n \in Nat
      /\ writer # "failed" /\ writer' = "failed" /\ rest[n] = << >>
  BY <1>1 DEF TraceInv, Through, Chained, Ends, WriteFails
<1>5. sent \in Nat
  BY <1>3, TraceAssumption
<1>6. part \in Seq(Cells(enc')) /\ ~Whole(part)
  <2>1. Output(enc') \in Seq(Cells(enc')) /\ Len(Output(enc')) \in Nat
    BY <1>2, OutputCells
  <2>2. ~Whole(part)
    BY <1>2, <1>3, <1>5, CutRecord
  <2>. HIDE DEF Output
  <2>3. \A i \in 1..sent : Output(enc')[i] \in Cells(enc')
    BY <1>3, <1>5, <2>1
  <2>4. part \in Seq(Cells(enc'))
    BY <1>5, <2>3, SubSeqProperties
  <2>. QED  BY <2>2, <2>4
<1>. HIDE DEF part
<1>t. PICK T : T = S \cup Cells(enc')
  OBVIOUS
<1>7. PICK left : left = [k \in 0..n |-> rest[k] \o part]
  OBVIOUS
<1>8. /\ part \in Seq(T)
      /\ \A k \in 0..n : rest[k] \in Seq(S)
      /\ \A k \in 0..n : rest[k] \in Seq(T)
  <2>1. part \in Seq(T)
    BY <1>6, <1>t, SeqMonotonic
  <2>2. \A k \in 0..n : rest[k] \in Seq(S)
    BY <1>1 DEF Through, Chained, Ends
  <2>3. \A k \in 0..n : rest[k] \in Seq(T)
    <3>1. Seq(S) \subseteq Seq(T)
      BY <1>t, SeqMonotonic
    <3>. QED  BY <2>2, <3>1
  <2>. QED  BY <2>1, <2>2, <2>3
<1>9. /\ 0 \in 0..n /\ n \in 0..n
      /\ \A k \in 1..n : k \in 0..n /\ k - 1 \in 0..n
  BY <1>4
<1>10. Through(mems, left, T)'
  <2>1. mems[0] = Memory(dec)' /\ left[0] = file'
    BY <1>1, <1>3, <1>7, <1>9 DEF Through, Chained, Ends, WriteFails, part
  <2>2. ASSUME NEW k \in 0..n PROVE StreamType(mems[k]) /\ left[k] \in Seq(T)
    <3>1. left[k] = rest[k] \o part /\ rest[k] \in Seq(T) /\ part \in Seq(T)
      BY <1>7, <1>8
    <3>. QED  BY <1>1, <3>1, ConcatProperties DEF Through, Chained, Ends
  <2>3. ASSUME NEW k \in 1..n, NEW x, x = write(mems[k - 1], unread[k].inst)
        PROVE  /\ Output(x) \in Seq(T)
               /\ left[k - 1] = Output(x) \o left[k]
               /\ unread[k].size = Len(Output(x))
               /\ mems[k] = Memory(x)
    <3>1. /\ left[k - 1] = rest[k - 1] \o part /\ left[k] = rest[k] \o part
          /\ rest[k] \in Seq(T)
      BY <1>7, <1>8, <1>9
    <3>2. /\ Output(x) \in Seq(S) /\ rest[k - 1] = Output(x) \o rest[k]
          /\ unread[k].size = Len(Output(x)) /\ mems[k] = Memory(x)
      BY <1>1, <2>3 DEF Through, Chained, Ends
    <3>3. Output(x) \in Seq(T)
      BY <1>t, <3>2, SeqMonotonic
    <3>4. left[k - 1] = Output(x) \o left[k]
      <4>1. Output(x) \in Seq(T) /\ rest[k] \in Seq(T) /\ part \in Seq(T)
        BY <1>8, <3>1, <3>3
      <4>2. (Output(x) \o rest[k]) \o part = Output(x) \o (rest[k] \o part)
        <5>1. PICK a, b, c : a = Output(x) /\ b = rest[k] /\ c = part
          OBVIOUS
        <5>2. a \in Seq(T) /\ b \in Seq(T) /\ c \in Seq(T)
          BY <4>1, <5>1
        <5>3. (a \o b) \o c = a \o (b \o c)
          BY <5>2, ConcatAssociative
        <5>. QED  BY <5>1, <5>3, Zenon
      <4>3. /\ left[k - 1] = rest[k - 1] \o part /\ left[k] = rest[k] \o part
            /\ rest[k - 1] = Output(x) \o rest[k]
        BY <3>1, <3>2
      <4>. QED  BY <4>2, <4>3, Zenon
    <3>. QED  BY <3>2, <3>3, <3>4
  <2>4. ~Whole(left[n])
    <3>1. left[n] = << >> \o part
      BY <1>4, <1>7, <1>9
    <3>2. << >> \o part = part
      BY <1>6, ConcatEmptySeq
    <3>. QED  BY <1>6, <3>1, <3>2
  <2>5. \A k \in 1..Len(unread') :
          \A x : x = write(mems[k - 1], unread'[k].inst) =>
          /\ Output(x) \in Seq(T)
          /\ left[k - 1] = Output(x) \o left[k]
          /\ unread'[k].size = Len(Output(x))
          /\ mems[k] = Memory(x)
    BY <1>4, <2>3
  <2>6. \A k \in 0..Len(unread') : StreamType(mems[k]) /\ left[k] \in Seq(T)
    BY <1>4, <2>2
  <2>7. ~Whole(left[Len(unread')]) /\ writer' = "failed"
    BY <1>4, <2>4
  <2>8. Ends((writer = "failed")', mems[Len(unread')], left[Len(unread')], Memory(enc'))
    BY <2>7 DEF Ends
  <2>9. Chained(mems, left, T, unread')
    BY <2>5, <2>6 DEF Chained
  <2>. QED  BY <2>1, <2>8, <2>9 DEF Through
<1>11. (StreamType(enc) /\ StreamType(dec) /\ got.read = got.written)'
  BY <1>2 DEF TraceInv, WriteFails, StreamType
<1>. QED  BY <1>2, <1>4, <1>10, <1>11 DEF TraceInv

\* The file begins with the record of the first instruction that is unread.
LEMMA FirstRecord ==
    ASSUME TraceInv, NEW mems, NEW rest, NEW S, Through(mems, rest, S), unread # << >>,
           NEW inst, inst = unread[1].inst, NEW x, x = write(mems[0], inst)
    PROVE  /\ inst \in Instructions /\ Legal(inst) /\ Head(unread) = unread[1]
           /\ Len(unread) \in Nat \ {0}
           /\ unread[1] = [inst |-> inst, size |-> Len(Output(x))]
           /\ StreamType(x) /\ HasRecord(x) /\ x.inst = inst /\ mems[1] = Memory(x)
           /\ Whole(file) /\ KeyOf(file) = x.key
           /\ RecordLength(file) = Len(Output(x))
           /\ SubSeq(file, RecordLength(file) + 1, Len(file)) = rest[1]
           /\ \E F : FetchedFor(x, file, F)
<1>1. /\ Len(unread) \in Nat \ {0} /\ Head(unread) = unread[1] /\ unread[1] \in Records
  BY DEF TraceInv
<1>2. 0 \in 0..Len(unread) /\ 1 \in 0..Len(unread) /\ 1 \in 1..Len(unread) /\ 1 - 1 = 0
  BY <1>1
<1>3. /\ StreamType(mems[0]) /\ rest[1] \in Seq(S) /\ Output(x) \in Seq(S)
      /\ file = Output(x) \o rest[1] /\ unread[1].size = Len(Output(x))
      /\ mems[1] = Memory(x)
  BY <1>2 DEF Through, Chained, Ends
<1>4. inst \in Instructions /\ Legal(inst)
  BY <1>1, TraceAssumption DEF Records
<1>5. unread[1] = [inst |-> inst, size |-> Len(Output(x))]
  BY <1>1, <1>3 DEF Records
<1>6. StreamType(x) /\ HasRecord(x) /\ x.inst = inst
  BY <1>3, <1>4, WriteRead
<1>7. /\ Whole(file) /\ KeyOf(file) = x.key
      /\ RecordLength(file) = Len(Output(x))
      /\ SubSeq(file, RecordLength(file) + 1, Len(file)) = rest[1]
      /\ \E F : FetchedFor(x, file, F)
  <2>1. /\ HasRecord(x) /\ Output(x) \in Seq(S) /\ rest[1] \in Seq(S)
        /\ file = Output(x) \o rest[1]
    BY <1>3, <1>6
  <2>. QED  BY <2>1, FetchesRecord
<1>. QED  BY <1>1, <1>3, <1>4, <1>5, <1>6, <1>7

\* Behind the last of them there is no whole record.
LEMMA NoRecord ==
    ASSUME TraceInv, unread = << >>
    PROVE  ~Whole(file) /\ (writer # "failed" => Memory(dec) = Memory(enc))
<1>1. PICK mems, rest, S : Through(mems, rest, S)
  BY DEF TraceInv
<1>2. Len(unread) = 0
  OBVIOUS
<1>3. ~Whole(<< >>)
  BY DEF Whole
<1>. QED  BY <1>1, <1>2, <1>3 DEF Through, Chained, Ends

\* The reader takes the first record, and goes on where the first instruction ends.
LEMMA ReadInv == ASSUME TraceInv, Read PROVE TraceInv'
<1>1. PICK mems, rest, S : Through(mems, rest, S)
  BY DEF TraceInv
<1>2. unread # << >>
  BY NoRecord DEF Read
<1>. DEFINE n == Len(unread)
            inst == unread[1].inst
            x == write(mems[0], inst)
<1>3. PICK F : /\ Carries(F, x.buffer) /\ F.shift = buffer_head(x)
               /\ Fetched(file) = [tail |-> 2 - F.shift, values |-> F.values]
  BY <1>1, <1>2, FirstRecord DEF FetchedFor
<1>4. /\ inst \in Instructions /\ Legal(inst) /\ Head(unread) = unread[1]
      /\ n \in Nat \ {0}
      /\ unread[1] = [inst |-> inst, size |-> Len(Output(x))]
      /\ StreamType(x) /\ HasRecord(x) /\ x.inst = inst /\ mems[1] = Memory(x)
      /\ KeyOf(file) = x.key
      /\ SubSeq(file, RecordLength(file) + 1, Len(file)) = rest[1]
  BY <1>1, <1>2, FirstRecord
<1>5. Reads(dec', x, x.key, F)
  <2>1. dec' = read(dec, file)
    BY DEF Read
  <2>2. StreamType(mems[0]) /\ StreamType(dec) /\ mems[0] = Memory(dec)
    BY <1>1, <1>4 DEF Through, Chained, Ends, TraceInv
  <2>3. Memory(dec) = Memory(mems[0])
    BY <2>2, MemoryMemory
  <2>. HIDE DEF inst
  <2>4. \A d, bytes, G :
           /\ StreamType(d) /\ Memory(d) = Memory(mems[0])
           /\ KeyOf(bytes) = x.key /\ Carries(G, x.buffer)
           /\ Fetched(bytes) = [tail |-> 2 - G.shift, values |-> G.values]
           => Reads(read(d, bytes), x, x.key, G)
    BY <1>4, <2>2, WriteRead
  <2>. HIDE DEF x
  <2>. QED  BY <1>3, <1>4, <2>1, <2>2, <2>3, <2>4
<1>. HIDE DEF x
<1>6. /\ StreamType(dec') /\ Memory(dec') = mems[1] /\ dec'.inst = inst
      /\ dec'.buffer.tail = Len(Output(x))
  <2>1. x.key \in Keys
    BY <1>4 DEF HasRecord
  <2>2. StreamType(dec') /\ Memory(dec') = Memory(x) /\ dec'.inst = inst
    BY <1>4, <1>5, <2>1, ReadsMemory
  <2>3. dec'.buffer.tail = x.buffer.tail - buffer_head(x)
    BY <1>3, <1>5 DEF Reads, Shifted
  <2>. QED  BY <1>4, <2>2, <2>3, OutputCells
<1>7. /\ unread' = Tail(unread) /\ unread' \in Seq(Records) /\ Len(unread') = n - 1
      /\ \A k \in 1..(n - 1) : unread'[k] = unread[k + 1]
  BY <1>4 DEF Read, TraceInv
<1>8. PICK new : new = [k \in 0..(n - 1) |-> mems[k + 1]]
  OBVIOUS
<1>9. PICK left : left = [k \in 0..(n - 1) |-> rest[k + 1]]
  OBVIOUS
<1>10. Through(new, left, S)'
  <2>0. /\ 0 \in 0..(n - 1) /\ 0 + 1 = 1 /\ n - 1 \in 0..(n - 1) /\ (n - 1) + 1 = n
        /\ \A k \in 0..(n - 1) : k + 1 \in 0..n
        /\ \A k \in 1..(n - 1) : /\ k \in 0..(n - 1) /\ k - 1 \in 0..(n - 1)
                                 /\ k + 1 \in 1..n
                                 /\ (k - 1) + 1 = k /\ (k + 1) - 1 = k
    BY <1>4
  <2>1. new[0] = Memory(dec)' /\ left[0] = file'
    BY <1>4, <1>6, <1>8, <1>9, <2>0 DEF Read
  <2>2. \A k \in 0..(n - 1) : StreamType(new[k]) /\ left[k] \in Seq(S)
    BY <1>1, <1>8, <1>9, <2>0 DEF Through, Chained, Ends
  <2>3. ASSUME NEW k \in 1..(n - 1), NEW y, y = write(new[k - 1], unread'[k].inst)
        PROVE  /\ Output(y) \in Seq(S)
               /\ left[k - 1] = Output(y) \o left[k]
               /\ unread'[k].size = Len(Output(y))
               /\ new[k] = Memory(y)
    <3>1. /\ new[k - 1] = mems[k] /\ new[k] = mems[k + 1] /\ unread'[k] = unread[k + 1]
          /\ left[k - 1] = rest[k] /\ left[k] = rest[k + 1]
      BY <1>7, <1>8, <1>9, <2>0
    <3>2. y = write(mems[(k + 1) - 1], unread[k + 1].inst)
      BY <2>0, <2>3, <3>1
    <3>3. /\ Output(y) \in Seq(S)
          /\ rest[(k + 1) - 1] = Output(y) \o rest[k + 1]
          /\ unread[k + 1].size = Len(Output(y))
          /\ mems[k + 1] = Memory(y)
      BY <1>1, <2>0, <3>2 DEF Through, Chained, Ends
    <3>. QED  BY <2>0, <3>1, <3>3
  <2>4. IF writer' = "failed" THEN ~Whole(left[n - 1])
        ELSE left[n - 1] = << >> /\ new[n - 1] = Memory(enc')
    <3>1. left[n - 1] = rest[n] /\ new[n - 1] = mems[n] /\ writer' = writer /\ enc' = enc
      BY <1>8, <1>9, <2>0 DEF Read
    <3>. QED  BY <1>1, <3>1 DEF Through, Chained, Ends
  <2>5. \A k \in 0..Len(unread') : StreamType(new[k]) /\ left[k] \in Seq(S)
    BY <1>7, <2>2
  <2>6. \A k \in 1..Len(unread') :
          \A y : y = write(new[k - 1], unread'[k].inst) =>
          /\ Output(y) \in Seq(S)
          /\ left[k - 1] = Output(y) \o left[k]
          /\ unread'[k].size = Len(Output(y))
          /\ new[k] = Memory(y)
    BY <1>7, <2>3
  <2>7. Ends((writer = "failed")', new[Len(unread')], left[Len(unread')], Memory(enc'))
    BY <1>7, <2>4 DEF Ends
  <2>8. Chained(new, left, S, unread')
    BY <2>5, <2>6 DEF Chained
  <2>. QED  BY <2>1, <2>7, <2>8 DEF Through
<1>11. (got.read = got.written)'
  BY <1>4, <1>6 DEF Read
<1>12. (StreamType(enc) /\ BufferHolds /\ StreamType(dec))'
  BY <1>6 DEF TraceInv, Read, StreamType, BufferHolds
<1>. QED  BY <1>7, <1>10, <1>11, <1>12 DEF TraceInv

\* A read that fails finds no record, and takes what is left; closing takes nothing.
LEMMA CloseInv == ASSUME TraceInv, Close \/ ReadFails \/ UNCHANGED vars PROVE TraceInv'
<1>1. PICK mems, rest, S : Through(mems, rest, S)
  BY DEF TraceInv
<1>2. /\ enc' = enc /\ dec' = dec /\ unread' = unread /\ got' = got
  BY DEF Close, ReadFails, vars
<1>3. \E left : Through(mems, left, S)'
  <2>1. CASE ReadFails
    <3>1. unread = << >>
      BY <1>1, <2>1, FirstRecord DEF ReadFails
    <3>2. Len(unread) = 0 /\ 0 \in 0..Len(unread)
      BY <3>1
    <3>3. /\ mems[0] = Memory(dec) /\ StreamType(mems[0]) /\ << >> \in Seq(S)
          /\ writer # "failed" => mems[0] = Memory(enc)
      BY <1>1, <3>2 DEF Through, Chained, Ends
    <3>4. PICK left : left = [k \in {0} |-> << >>]
      OBVIOUS
    <3>5. ~Whole(<< >>)
      BY DEF Whole
    <3>6. Through(mems, left, S)'
      BY <1>2, <2>1, <3>2, <3>3, <3>4, <3>5 DEF Through, Chained, Ends, StreamType, ReadFails
    <3>. QED  BY <3>6
  <2>2. CASE Close \/ UNCHANGED vars
    <3>1. file' = file /\ (writer' = "failed") = (writer = "failed")
      BY <2>2 DEF Close, vars
    <3>2. Through(mems, rest, S)'
      BY <1>1, <1>2, <3>1 DEF Through, Chained, Ends, StreamType
    <3>. QED  BY <3>2
  <2>. QED  BY <2>1, <2>2
<1>4. (StreamType(enc) /\ BufferHolds /\ StreamType(dec))'
  BY <1>2 DEF TraceInv, StreamType, BufferHolds
<1>. QED  BY <1>2, <1>3, <1>4 DEF TraceInv

--------------------------------------------------------------------------------
(* The ring of return addresses *)

\* The entry of a ring of n that is j below the top.
Below(n, top, j) == (top - j) % n

\* The open calls are on the ring, the newest on top.
OnRing(calls, fs) ==
    /\ calls \in Seq(Word) /\ Len(calls) <= Sizes.stack
    /\ \A j \in 0..(Len(calls) - 1) :
          calls[Len(calls) - j] = fs.stack[Below(Sizes.stack, fs.top_ptr, j)]

LEMMA RingIndex ==
    ASSUME NEW n \in Nat \ {0}, NEW top \in 0..(n - 1)
    PROVE  /\ \A j \in 0..(n - 1) :
                 (top - j) % n = IF j <= top THEN top - j ELSE top - j + n
           /\ (top + 1) % n = IF top = n - 1 THEN 0 ELSE top + 1
           /\ (top - 1) % n = IF top = 0 THEN n - 1 ELSE top - 1
<1>1. ASSUME NEW x \in Int, NEW y \in 0..(n - 1), x = y \/ x = y - n \/ x = y + n
      PROVE  x % n = y
  <2>1. CASE x = y
    BY <2>1
  <2>2. CASE x = y - n
    BY <2>2
  <2>3. CASE x = y + n
    BY <2>3
  <2>. QED  BY <1>1, <2>1, <2>2, <2>3
<1>2. ASSUME NEW j \in 0..(n - 1)
      PROVE  (top - j) % n = IF j <= top THEN top - j ELSE top - j + n
  BY <1>1
<1>3. (top + 1) % n = IF top = n - 1 THEN 0 ELSE top + 1
  BY <1>1
<1>4. (top - 1) % n = IF top = 0 THEN n - 1 ELSE top - 1
  BY <1>1
<1>. QED  BY <1>2, <1>3, <1>4

\* One entry up, and one down: the entry j calls back is the same one.
LEMMA RingUp ==
    ASSUME NEW n \in Nat \ {0}, NEW top \in 0..(n - 1), NEW up, up = (top + 1) % n
    PROVE  /\ up \in 0..(n - 1) /\ up % n = up
           /\ up = IF top = n - 1 THEN 0 ELSE top + 1
<1>1. up = IF top = n - 1 THEN 0 ELSE top + 1
  BY RingIndex
<1>2. up \in 0..(n - 1)
  BY <1>1
<1>3. up % n = up
  BY <1>2
<1>. QED  BY <1>1, <1>2, <1>3

LEMMA RingUpBack ==
    ASSUME NEW n \in Nat \ {0}, NEW top \in 0..(n - 1), NEW up, up = (top + 1) % n
    PROVE  \A j \in 1..(n - 1) : Below(n, up, j) = Below(n, top, j - 1)
<1>1. up = IF top = n - 1 THEN 0 ELSE top + 1
  BY RingUp
<1>2. ASSUME NEW j \in 1..(n - 1)
      PROVE  Below(n, up, j) = Below(n, top, j - 1)
  <2>1. j \in 0..(n - 1) /\ j - 1 \in 0..(n - 1)
    OBVIOUS
  <2>2. (up - j) % n = IF j <= up THEN up - j ELSE up - j + n
    BY <2>1, RingUp, RingIndex
  <2>3. (top - (j - 1)) % n = IF j - 1 <= top THEN top - (j - 1) ELSE top - (j - 1) + n
    BY <2>1, RingIndex
  <2>. QED  BY <1>1, <2>1, <2>2, <2>3 DEF Below
<1>. QED  BY <1>2

\* The other entries.
LEMMA RingOthers ==
    ASSUME NEW n \in Nat \ {0}, NEW top \in 0..(n - 1)
    PROVE  \A j \in 1..(n - 1) : Below(n, top, j) \in 0..(n - 1) /\ Below(n, top, j) # top
<1>1. ASSUME NEW j \in 1..(n - 1)
      PROVE  Below(n, top, j) \in 0..(n - 1) /\ Below(n, top, j) # top
  <2>1. j \in 0..(n - 1)
    OBVIOUS
  <2>2. (top - j) % n = IF j <= top THEN top - j ELSE top - j + n
    BY <2>1, RingIndex
  <2>. QED  BY <2>1, <2>2 DEF Below
<1>. QED  BY <1>1

LEMMA RingDown ==
    ASSUME NEW n \in Nat \ {0}, NEW top \in 0..(n - 1), NEW down, down = (top - 1) % n
    PROVE  \A j \in 0..(n - 2) : Below(n, down, j) = Below(n, top, j + 1)
<1>1. down = IF top = 0 THEN n - 1 ELSE top - 1
  BY RingIndex
<1>2. down \in 0..(n - 1)
  BY <1>1
<1>3. ASSUME NEW j \in 0..(n - 2) PROVE Below(n, down, j) = Below(n, top, j + 1)
  <2>1. j \in 0..(n - 1) /\ j + 1 \in 0..(n - 1)
    OBVIOUS
  <2>2. (down - j) % n = IF j <= down THEN down - j ELSE down - j + n
    BY <1>2, <2>1, RingIndex
  <2>3. (top - (j + 1)) % n
          = IF j + 1 <= top THEN top - (j + 1) ELSE top - (j + 1) + n
    BY <2>1, RingIndex
  <2>. QED  BY <1>1, <1>2, <2>1, <2>2, <2>3 DEF Below
<1>. QED  BY <1>3

\* A push beyond the size of the ring overwrites the oldest call.
LEMMA RingPushed ==
    ASSUME NEW fs \in FiniteStacks(Sizes.stack), NEW calls, OnRing(calls, fs), NEW v \in Word
    PROVE  OnRing(Newest(Sizes.stack, Append(calls, v)), FsPushed(fs, v))
<1>. DEFINE n == Sizes.stack
            len == Len(calls)
            new == Newest(n, Append(calls, v))
            top == fs.top_ptr
            up == (top + 1) % n
<1>1. /\ n \in Nat \ {0} /\ len \in 0..n /\ calls \in Seq(Word)
      /\ top \in 0..(n - 1) /\ fs.size = n /\ fs.stack \in [0..(n - 1) -> Word]
  BY SizesAssumption DEF OnRing, FiniteStacks
<1>2. /\ Append(calls, v) \in Seq(Word) /\ Len(Append(calls, v)) = len + 1
      /\ Append(calls, v)[len + 1] = v
      /\ \A i \in 1..len : Append(calls, v)[i] = calls[i]
  BY <1>1
<1>3. /\ new \in Seq(Word) /\ Len(new) <= n /\ Len(new) \in Nat \ {0}
      /\ Len(new) <= len + 1
      /\ new[Len(new)] = v
      /\ \A j \in 1..(Len(new) - 1) : new[Len(new) - j] = calls[len - (j - 1)]
  <2>1. CASE len < n
    BY <1>1, <1>2, <2>1 DEF Newest
  <2>2. CASE len = n
    <3>. DEFINE a == Append(calls, v)
    <3>1. new = SubSeq(a, 2, n + 1)
      <4>1. Len(a) = n + 1 /\ (n + 1) - n + 1 = 2 /\ n + 1 > n
        BY <1>1, <1>2, <2>2
      <4>. QED  BY <4>1 DEF Newest
    <3>. HIDE DEF a, new
    <3>2. new \in Seq(Word) /\ Len(new) = n /\ \A i \in 1..n : new[i] = a[i + 1]
      BY <1>1, <1>2, <2>2, <3>1 DEF a
    <3>3. new[Len(new)] = v
      BY <1>1, <1>2, <2>2, <3>2 DEF a
    <3>4. ASSUME NEW j \in 1..(Len(new) - 1) PROVE new[Len(new) - j] = calls[len - (j - 1)]
      <4>1. n - j \in 1..n /\ (n - j) + 1 = n - (j - 1) /\ n - (j - 1) \in 1..n
        BY <1>1, <3>2
      <4>. QED  BY <1>2, <2>2, <3>2, <4>1 DEF a
    <3>. QED  BY <1>1, <2>2, <3>2, <3>3, <3>4
  <2>. QED  BY <1>1, <2>1, <2>2
<1>4. up \in 0..(n - 1) /\ FsPushed(fs, v).top_ptr = up
      /\ FsPushed(fs, v).stack = [fs.stack EXCEPT ![up] = v]
  BY <1>1 DEF FsPushed, FiniteStacks
<1>. HIDE DEF new
<1>5. ASSUME NEW j \in 0..(Len(new) - 1)
      PROVE  new[Len(new) - j] = FsPushed(fs, v).stack[Below(n, up, j)]
  <2>1. CASE j = 0
    <3>1. Below(n, up, j) = up
      <4>1. n \in Nat \ {0} /\ top \in 0..(n - 1) /\ up = (top + 1) % n
        BY <1>1
      <4>. HIDE DEF n, top, up
      <4>2. up \in 0..(n - 1) /\ up % n = up
        BY <4>1, RingUp
      <4>. QED  BY <2>1, <4>1, <4>2 DEF Below
    <3>2. new[Len(new) - j] = v
      BY <1>3, <2>1
    <3>. QED  BY <1>1, <1>4, <3>1, <3>2
  <2>2. CASE j # 0
    <3>1. j \in 1..(Len(new) - 1) /\ j \in 1..(n - 1) /\ j - 1 \in 0..(len - 1)
          /\ j - 1 \in 0..(n - 1)
      BY <1>1, <1>3, <1>5, <2>2
    <3>2. /\ Below(n, up, j) = Below(n, top, j - 1)
          /\ Below(n, up, j) \in 0..(n - 1) /\ Below(n, up, j) # up
      <4>1. n \in Nat \ {0} /\ top \in 0..(n - 1) /\ up = (top + 1) % n
        BY <1>1
      <4>. HIDE DEF n, top, up
      <4>2. Below(n, up, j) = Below(n, top, j - 1)
        BY <3>1, <4>1, RingUpBack
      <4>3. up \in 0..(n - 1)
        BY <4>1, RingUp
      <4>4. Below(n, up, j) \in 0..(n - 1) /\ Below(n, up, j) # up
        BY <3>1, <4>1, <4>3, RingOthers
      <4>. QED  BY <4>2, <4>4
    <3>3. calls[len - (j - 1)] = fs.stack[Below(n, top, j - 1)]
      BY <3>1 DEF OnRing
    <3>. QED  BY <1>1, <1>3, <1>4, <3>1, <3>2, <3>3
  <2>. QED  BY <2>1, <2>2
<1>. QED  BY <1>3, <1>4, <1>5 DEF OnRing, new

\* A pop uncovers the call before.
LEMMA RingPopped ==
    ASSUME NEW fs \in FiniteStacks(Sizes.stack), NEW calls, OnRing(calls, fs)
    PROVE  OnRing(IF calls # << >> THEN SubSeq(calls, 1, Len(calls) - 1) ELSE calls,
                  FsPopped(fs))
<1>. DEFINE n == Sizes.stack
            len == Len(calls)
            new == SubSeq(calls, 1, len - 1)
            top == fs.top_ptr
            down == (top - 1) % n
<1>1. /\ n \in Nat \ {0} /\ len \in 0..n /\ calls \in Seq(Word)
      /\ top \in 0..(n - 1) /\ fs.size = n /\ fs.stack \in [0..(n - 1) -> Word]
  BY SizesAssumption DEF OnRing, FiniteStacks
<1>2. /\ down \in 0..(n - 1) /\ FsPopped(fs).top_ptr = down
      /\ FsPopped(fs).stack = fs.stack
  BY <1>1 DEF FsPopped, FiniteStacks
<1>3. CASE calls = << >>
  BY <1>1, <1>3 DEF OnRing
<1>4. CASE calls # << >>
  <2>1. /\ len \in 1..n /\ new \in Seq(Word) /\ Len(new) = len - 1
        /\ \A i \in 1..(len - 1) : new[i] = calls[i]
    <3>1. len \in 1..n /\ \A i \in 1..len : calls[i] \in Word
      BY <1>1, <1>4
    <3>2. len - 1 \in Nat /\ \A i \in 1..(len - 1) : i \in 1..len
      BY <1>1, <3>1
    <3>3. \A i \in 1..(len - 1) : calls[i] \in Word
      BY <3>1, <3>2
    <3>4. new = [i \in 1..(len - 1) |-> calls[i]]
      BY <1>1, <3>2
    <3>. HIDE DEF new
    <3>5. new \in Seq(Word) /\ Len(new) = len - 1
      BY <3>2, <3>3, <3>4
    <3>. QED  BY <3>1, <3>4, <3>5
  <2>. HIDE DEF new
  <2>2. ASSUME NEW j \in 0..(Len(new) - 1)
        PROVE  new[Len(new) - j] = fs.stack[Below(n, down, j)]
    <3>1. /\ j + 1 \in 0..(len - 1) /\ j + 1 \in 0..(n - 1) /\ j \in 0..(n - 1)
          /\ Len(new) - j \in 1..(len - 1) /\ Len(new) - j = len - (j + 1)
      BY <1>1, <2>1
    <3>2. Below(n, down, j) = Below(n, top, j + 1)
      <4>. HIDE DEF n, top
      <4>1. j \in 0..(n - 2)
        BY <1>1, <3>1
      <4>. QED  BY <1>1, <4>1, RingDown
    <3>3. calls[len - (j + 1)] = fs.stack[Below(n, top, j + 1)]
      BY <3>1 DEF OnRing
    <3>. QED  BY <2>1, <3>1, <3>2, <3>3
  <2>3. OnRing(new, FsPopped(fs))
    BY <1>1, <1>2, <2>1, <2>2 DEF OnRing
  <2>. QED  BY <1>4, <2>3 DEF new
<1>. QED  BY <1>3, <1>4

\* As long as the writer has not failed, its ring has the newest open calls.
FramesInv == writer = "open" => OnRing(frames, enc.ret_pred)

LEMMA InitFrames == Init => FramesInv
BY SizesAssumption DEF Init, FramesInv, OnRing

LEMMA NextFrames == ASSUME TraceInv, FramesInv, [Next]_vars PROVE FramesInv'
<1>1. ASSUME NEW inst \in Insts, Write(inst) PROVE FramesInv'
  <2>1. /\ inst \in Instructions /\ Legal(inst) /\ inst.instruction_next_addr \in Word
        /\ enc.ret_pred \in FiniteStacks(Sizes.stack) /\ Sizes.stack \in Nat \ {0}
    <3>1. StreamParts(enc)
      BY StreamFields DEF TraceInv
    <3>2. inst \in Instructions /\ Legal(inst)
      BY TraceAssumption
    <3>3. inst.instruction_next_addr \in Word
      BY <3>2 DEF Instructions
    <3>. QED  BY <3>1, <3>2, <3>3, SizesAssumption DEF StreamParts
  <2>2. enc'.ret_pred = RingAfter(enc.ret_pred, inst)
    BY <1>1, <2>1, WriteRead DEF TraceInv, Write
  <2>. DEFINE pushed == IF inst.op.is_call
                        THEN FsPushed(enc.ret_pred, inst.instruction_next_addr)
                        ELSE enc.ret_pred
  <2>3. OnRing(Called(inst), pushed) /\ pushed \in FiniteStacks(Sizes.stack)
    BY <1>1, <2>1, RingPushed, StackType DEF Called, FramesInv, Write
  <2>4. RingAfter(enc.ret_pred, inst) = IF inst.op.is_return THEN FsPopped(pushed) ELSE pushed
    BY DEF RingAfter
  <2>. HIDE DEF pushed
  <2>5. OnRing(Returned(inst, Called(inst)), RingAfter(enc.ret_pred, inst))
    BY <2>3, <2>4, RingPopped DEF Returned
  <2>. QED  BY <1>1, <2>2, <2>5 DEF FramesInv, Write
<1>2. ASSUME ~\E inst \in Insts : Write(inst) PROVE FramesInv'
  BY <1>2 DEF FramesInv, OnRing, Next, WriteFails, Close, Read, ReadFails, vars
<1>. QED  BY <1>1, <1>2

--------------------------------------------------------------------------------
(* The theorems *)

\* Between the calls of write() and read(), in any order the two programs make them,
\* the records in the file are those of a stream that starts where the reader is.
THEOREM TraceInvariant == Spec => []TraceInv
<1>1. ASSUME TraceInv, [Next]_vars PROVE TraceInv'
  BY <1>1, WriteInv, FailInv, ReadInv, CloseInv DEF Next
<1>. QED  BY InitInv, <1>1, PTL DEF Spec

\* The predictors and caches of both CBP_INST_STREAMs keep their shape: no index that
\* update_* or the constructors compute leaves its table.
THEOREM StreamTypes == Spec => []TypeOK
<1>1. TraceInv => TypeOK
  BY DEF TraceInv, TypeOK
<1>. QED  BY TraceInvariant, <1>1, PTL

\* cbp_inst_read returns, member by member, the instruction cbp_inst_write was given,
\* whatever the two sides have learnt: the get functions undo the put functions.
THEOREM ReadGivesBackWritten == Spec => []RoundTrip
<1>1. TraceInv => RoundTrip
  BY DEF TraceInv, RoundTrip
<1>. QED  BY TraceInvariant, <1>1, PTL

\* A reader that has caught up has the predictors, caches, registers and static
\* descriptions of the writer.
THEOREM ReaderMirrorsWriter == Spec => []Mirror
<1>1. TraceInv => Mirror
  BY NoRecord DEF Mirror
<1>. QED  BY TraceInvariant, <1>1, PTL

\* Of a stream of bytes that only the keys divide, read() takes in its two or three
\* steps the bytes write() put out for one instruction, whatever one- and two-byte
\* keys the instructions before it had; the get functions use them up; and the head
\* of a record that a failed fwrite left is never taken for one.
THEOREM RecordsAreFramed == Spec => []Framing
<1>1. TraceInv => Framing
  <2>. SUFFICES ASSUME TraceInv PROVE Framing
    OBVIOUS
  <2>1. PICK mems, rest, S : Through(mems, rest, S)
    BY DEF TraceInv
  <2>2. CASE unread # << >>
    <3>. DEFINE inst == unread[1].inst
                x == write(mems[0], inst)
    <3>1. /\ Head(unread) = unread[1]
          /\ unread[1] = [inst |-> inst, size |-> Len(Output(x))]
          /\ Whole(file) /\ RecordLength(file) = Len(Output(x))
      BY <2>1, <2>2, FirstRecord
    <3>2. Head(unread).size = Len(Output(x))
      BY <3>1
    <3>. HIDE DEF inst, x
    <3>. QED  BY <2>2, <3>1, <3>2 DEF Framing, TraceInv
  <2>3. CASE unread = << >>
    BY <2>3, NoRecord DEF Framing, TraceInv
  <2>. QED  BY <2>2, <2>3
<1>. QED  BY TraceInvariant, <1>1, PTL

\* No instruction makes the put functions run past the end of the BUFFER_SIZE bytes.
THEOREM NoBufferOverflow == Spec => []BufferHolds
<1>1. TraceInv => BufferHolds
  BY DEF TraceInv
<1>. QED  BY TraceInvariant, <1>1, PTL

\* put_branch_target codes the return to the newest call that is still open with no
\* bytes: FINITE_STACK holds the newest calls, in order, however often its ring has
\* been overrun or emptied.
THEOREM ReturnsCostNothing == Spec => ReturnsAreFree
<1>1. ASSUME TraceInv, FramesInv, NEW inst \in Insts, Write(inst), inst.op.is_return,
             frames # << >>, inst.branch_target = frames[Len(frames)]
      PROVE  enc'.key.second.branch_target = 0
  <2>1. /\ inst \in Instructions /\ Legal(inst)
        /\ enc.ret_pred \in FiniteStacks(Sizes.stack) /\ Sizes.stack \in Nat \ {0}
    <3>1. StreamParts(enc)
      BY <1>1, StreamFields DEF TraceInv
    <3>2. inst \in Instructions /\ Legal(inst)
      BY TraceAssumption
    <3>. QED  BY <3>1, <3>2, SizesAssumption DEF StreamParts
  <2>2. OnRing(frames, enc.ret_pred)
    BY <1>1 DEF FramesInv, Write
  <2>3. frames[Len(frames)] = enc.ret_pred.stack[Below(Sizes.stack, enc.ret_pred.top_ptr, 0)]
    <3>1. Len(frames) \in Nat \ {0} /\ Len(frames) - 0 = Len(frames)
          /\ 0 \in 0..(Len(frames) - 1)
      BY <1>1, <2>2 DEF OnRing
    <3>. QED  BY <2>2, <3>1 DEF OnRing
  <2>4. Below(Sizes.stack, enc.ret_pred.top_ptr, 0) = enc.ret_pred.top_ptr
    BY <2>1 DEF FiniteStacks, Below
  <2>5. inst.branch_target = FsTop(enc.ret_pred)
    BY <1>1, <2>3, <2>4 DEF FsTop
  <2>. QED  BY <1>1, <2>1, <2>5, WriteRead DEF TraceInv, Write
<1>2. TraceInv /\ FramesInv /\ [Next]_vars
        => [ \A inst \in Insts :
                 Write(inst) /\ inst.op.is_return /\ frames # << >>
                     /\ inst.branch_target = frames[Len(frames)]
                 => enc'.key.second.branch_target = 0 ]_vars
  BY <1>1
<1>3. Spec => []FramesInv
  <2>1. TraceInv /\ FramesInv /\ [Next]_vars => FramesInv'
    BY NextFrames
  <2>. QED  BY InitFrames, <2>1, TraceInvariant, PTL DEF Spec
<1>. QED  BY <1>2, <1>3, TraceInvariant, PTL DEF Spec, ReturnsAreFree
================================================================================
