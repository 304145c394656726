--------------------------- MODULE FuseFileProofs ---------------------------
(***************************************************************************)
(* Theorems about FuseFile, for every set of slots and of handles, every   *)
(* choice of requests, all sizes and all bounds.  A loop of the code is an *)
(* Iterate of FuseFile: Rounds unfolds one round of it, and Induction says *)
(* what then holds after all of them.                                      *)
(***************************************************************************)
EXTENDS FuseFile, TLAPS, FiniteSetTheorems, NaturalsInduction, WellFoundedInduction

-----------------------------------------------------------------------------
(* Numbers.                                                                  *)

LEMMA Sizes ==
    /\ ChunkSize \in Nat /\ ChunkSize >= 1 /\ MaxDirect \in Nat /\ MaxDirect >= 1
    /\ MaxIndex \in Nat /\ MaxIndex >= 1 /\ MaxCache \in Nat /\ MaxCache >= 1
    /\ WriteThrough \in Nat /\ IdsPerByte \in Nat /\ HeadRoom \in Nat
    /\ MaxSize \in Nat /\ MaxWrites \in Nat
    /\ WriteLengths \subseteq Nat /\ \A len \in WriteLengths : len >= 1
  BY SizesAssumption

LEMMA SlotNumbers == Slots \subseteq Nat /\ None \notin Slots /\ IsFiniteSet(Slots) /\ Cardinality(Slots) \in Nat
  BY SlotsArePositive, FS_CardinalityType DEF None

LEMMA MaxOfTwo ==
    ASSUME NEW a \in Int, NEW b \in Int
    PROVE  Max({a, b}) = IF a >= b THEN a ELSE b
  <1>1. CASE a >= b
    <2>1. a \in {a, b} /\ \A y \in {a, b} : a >= y
      BY <1>1
    <2>2. Max({a, b}) \in {a, b} /\ \A y \in {a, b} : Max({a, b}) >= y
      BY <2>1 DEF Max
    <2> QED
      BY <2>2, <1>1
  <1>2. CASE ~(a >= b)
    <2>1. b \in {a, b} /\ \A y \in {a, b} : b >= y
      BY <1>2
    <2>2. Max({a, b}) \in {a, b} /\ \A y \in {a, b} : Max({a, b}) >= y
      BY <2>1 DEF Max
    <2> QED
      BY <2>2, <1>2
  <1> QED
    BY <1>1, <1>2

LEMMA MinOfTwo ==
    ASSUME NEW a \in Int, NEW b \in Int
    PROVE  Min({a, b}) = IF a <= b THEN a ELSE b
  <1>1. CASE a <= b
    <2>1. a \in {a, b} /\ \A y \in {a, b} : a <= y
      BY <1>1
    <2>2. Min({a, b}) \in {a, b} /\ \A y \in {a, b} : Min({a, b}) <= y
      BY <2>1 DEF Min
    <2> QED
      BY <2>2, <1>1
  <1>2. CASE ~(a <= b)
    <2>1. b \in {a, b} /\ \A y \in {a, b} : b <= y
      BY <1>2
    <2>2. Min({a, b}) \in {a, b} /\ \A y \in {a, b} : Min({a, b}) <= y
      BY <2>1 DEF Min
    <2> QED
      BY <2>2, <1>2
  <1> QED
    BY <1>1, <1>2

(* A set of naturals that is not empty has a least member.                   *)
LEMMA LeastExists ==
    ASSUME NEW S \in SUBSET Nat, S # {}
    PROVE  Min(S) \in S /\ \A y \in S : Min(S) <= y
  <1>1. PICK m \in S : \A k \in S : ~(<<k, m>> \in OpToRel(<, Nat))
    BY WFMin, NatLessThanWellFounded
  <1>2. ASSUME NEW y \in S PROVE m <= y
    <2>1. ~(<<y, m>> \in OpToRel(<, Nat))
      BY <1>1
    <2>2. y \in Nat /\ m \in Nat
      OBVIOUS
    <2> QED
      BY <2>1, <2>2 DEF OpToRel
  <1> QED
    BY <1>2 DEF Min

LEMMA NextFreeFree ==
    ASSUME NEW st, HasSpace(st)
    PROVE  NextFree(st) \in Slots /\ st.free[NextFree(st)] > 0
  <1> DEFINE S == {s \in Slots : st.free[s] > 0}
  <1>1. S # {} /\ S \subseteq Nat
    BY SlotNumbers DEF HasSpace
  <1>2. Min(S) \in S
    BY <1>1, LeastExists
  <1> QED
    BY <1>2 DEF NextFree

LEMMA Division ==
    ASSUME NEW a \in Nat, NEW b \in Nat, b >= 1
    PROVE  /\ a \div b \in Nat
           /\ b * (a \div b) <= a
           /\ a < b * (a \div b) + b
           /\ (a \div b) * b = b * (a \div b)
  OBVIOUS

LEMMA Products ==
    ASSUME NEW a \in Nat, NEW b \in Nat, NEW c \in Nat, a < b
    PROVE  a * c + c <= b * c /\ a * c \in Nat /\ b * c \in Nat
  <1>1. PICK d \in Nat : b = a + 1 + d
    <2>1. b - a - 1 \in Nat /\ b = a + 1 + (b - a - 1)
      OBVIOUS
    <2> QED
      BY <2>1
  <1>2. b * c = a * c + c + d * c /\ d * c \in Nat
    BY <1>1
  <1>3. a * c \in Nat /\ b * c \in Nat
    OBVIOUS
  <1> QED
    BY <1>2, <1>3

(* Chunk ci starts before the end of a file just if it is one of its chunks. *)
LEMMA ChunksBound ==
    ASSUME NEW size \in Nat
    PROVE  /\ Chunks(size) \in Nat /\ Chunks(size) <= size
           /\ \A ci \in Nat : ci < Chunks(size) <=> ci * ChunkSize < size
           /\ size <= Chunks(size) * ChunkSize
           /\ (size = 0 <=> Chunks(size) = 0)
  <1> DEFINE q == Chunks(size)
  <1>1. size + ChunkSize - 1 \in Nat
    BY Sizes
  <1>2. /\ q \in Nat /\ q * ChunkSize <= size + ChunkSize - 1
        /\ size + ChunkSize - 1 < q * ChunkSize + ChunkSize
    BY <1>1, Sizes, Division DEF Chunks
  <1> HIDE DEF q
  <1>3. q * ChunkSize \in Nat
    BY <1>2, Sizes
  <1>4. size <= q * ChunkSize
    BY <1>2, <1>3, Sizes
  <1>5. ASSUME NEW ci \in Nat, ci < q PROVE ci * ChunkSize < size
    <2>1. ci * ChunkSize + ChunkSize <= q * ChunkSize /\ ci * ChunkSize \in Nat
      BY <1>5, <1>2, Products, Sizes
    <2> QED
      BY <2>1, <1>2, <1>3, Sizes
  <1>6. ASSUME NEW ci \in Nat, ~(ci < q) PROVE ~(ci * ChunkSize < size)
    <2>1. CASE ci = q
      BY <2>1, <1>4, <1>3
    <2>2. CASE q < ci
      <3>1. q * ChunkSize + ChunkSize <= ci * ChunkSize /\ ci * ChunkSize \in Nat
        BY <2>2, <1>2, Products, Sizes
      <3> QED
        BY <3>1, <1>4, <1>3, Sizes
    <2> QED
      BY <2>1, <2>2, <1>6, <1>2
  <1>7. q <= size
    <2>1. CASE q = 0
      BY <2>1
    <2>2. CASE q # 0
      <3>1. q - 1 \in Nat /\ q - 1 < q
        BY <2>2, <1>2
      <3>2. (q - 1) * ChunkSize < size
        BY <3>1, <1>5
      <3>3. (q - 1) * ChunkSize >= q - 1
        <4>1. CASE q - 1 = 0
          BY <4>1, Sizes
        <4>2. PICK e \in Nat : ChunkSize = e + 1
          <5>1. ChunkSize - 1 \in Nat /\ ChunkSize = (ChunkSize - 1) + 1
            BY Sizes
          <5> QED BY <5>1
        <4>3. (q - 1) * ChunkSize = (q - 1) * e + (q - 1) /\ (q - 1) * e \in Nat
          BY <4>2, <3>1
        <4> QED BY <4>3, <3>1
      <3> QED
        BY <3>1, <3>2, <3>3, <1>2, Sizes
    <2> QED
      BY <2>1, <2>2
  <1>8. size = 0 <=> q = 0
    <2>1. CASE size = 0
      BY <2>1, <1>7, <1>2
    <2>2. CASE size # 0
      <3>1. 0 * ChunkSize < size
        BY <2>2, Sizes
      <3>2. 0 < q
        BY <3>1, <1>6
      <3> QED
        BY <3>2, <2>2
    <2> QED
      BY <2>1, <2>2
  <1>9. \A ci \in Nat : ci < q <=> ci * ChunkSize < size
    BY <1>5, <1>6
  <1> QED
    BY <1>2, <1>4, <1>7, <1>8, <1>9 DEF q

-----------------------------------------------------------------------------
(* Loops.                                                                    *)

(* What holds of round 0 and is kept by every round holds of the last.       *)
LEMMA Induction ==
    ASSUME NEW n \in Nat, NEW P, 0 \in P, \A i \in 1..n : i - 1 \in P => i \in P
    PROVE  \A i \in 0..n : i \in P
  <1> DEFINE T == {i \in Nat : i \in 0..n /\ i \notin P}
  <1>1. SUFFICES ASSUME T # {} PROVE FALSE
    OBVIOUS
  <1>2. PICK m \in T : \A k \in T : ~(<<k, m>> \in OpToRel(<, Nat))
    BY <1>1, WFMin, NatLessThanWellFounded
  <1>3. m \in 1..n /\ m - 1 \in Nat /\ m - 1 < m
    BY DEF T
  <1>4. m - 1 \notin T
    BY <1>2, <1>3 DEF OpToRel
  <1> QED
    BY <1>3, <1>4

(* The functions that do what every round says; there is one.                *)
Rounds(n, S, start, step) ==
    {g \in [0..n -> S] : g[0] = start /\ \A i \in 1..n : g[i] = step[i][g[i - 1]]}

LEMMA Recursion ==
    ASSUME NEW n \in Nat, NEW S, NEW start \in S, NEW step \in [1..n -> [S -> S]]
    PROVE  Rounds(n, S, start, step) # {}
  <1> DEFINE Reached(k, g) == g[0] = start /\ \A i \in 1..k : g[i] = step[i][g[i - 1]]
             P == {k \in 0..n : \E g \in [0..k -> S] : Reached(k, g)}
  <1>1. 0 \in P
    <2> DEFINE g == [i \in 0..0 |-> start]
    <2>1. g \in [0..0 -> S] /\ g[0] = start
      OBVIOUS
    <2>2. Reached(0, g)
      BY <2>1
    <2> HIDE DEF g
    <2> QED
      BY <2>1, <2>2
  <1>2. ASSUME NEW k \in 1..n, k - 1 \in P PROVE k \in P
    <2>1. PICK g \in [0..(k - 1) -> S] : Reached(k - 1, g)
      BY <1>2
    <2> DEFINE h == [i \in 0..k |-> IF i = k THEN step[k][g[k - 1]] ELSE g[i]]
    <2>2. g[k - 1] \in S /\ step[k][g[k - 1]] \in S
      BY <2>1
    <2>3. h \in [0..k -> S]
      BY <2>1, <2>2
    <2>4. h[0] = start
      BY <2>1
    <2>5. ASSUME NEW i \in 1..k PROVE h[i] = step[i][h[i - 1]]
      <3>1. CASE i = k
        BY <3>1
      <3>2. CASE i \in 1..(k - 1)
        BY <2>1, <3>2
      <3> QED
        BY <3>1, <3>2
    <2> HIDE DEF h
    <2>6. Reached(k, h)
      BY <2>4, <2>5
    <2> QED
      BY <2>3, <2>6
  <1> HIDE DEF P
  <1>3. \A i \in 0..n : i \in P
    BY <1>1, <1>2, Induction
  <1>4. PICK g \in [0..n -> S] : Reached(n, g)
    BY <1>3 DEF P
  <1>5. g \in Rounds(n, S, start, step)
    BY <1>4 DEF Rounds
  <1> QED
    BY <1>5

-----------------------------------------------------------------------------
(* Types of what the operators are built from.                               *)

Caches == UNION {[D -> Chunk] : D \in SUBSET (0..MaxSize)}

Maps == {q \in Seq(Link) : Len(q) >= 1 /\ q[1] = None}

OpenFiles ==
    [head: Slots, total: 0..MaxSize, chain: Link, map: Maps, cache: Caches,
     dirty: SUBSET (0..MaxSize), metaDirty: BOOLEAN]

LEMMA CacheTyped ==
    ASSUME NEW cache
    PROVE  cache \in Caches <=> IsCache(cache)
  <1>1. ASSUME cache \in Caches PROVE IsCache(cache)
    <2>1. PICK D \in SUBSET (0..MaxSize) : cache \in [D -> Chunk]
      BY <1>1 DEF Caches
    <2> QED
      BY <2>1 DEF IsCache
  <1>2. ASSUME IsCache(cache) PROVE cache \in Caches
    <2>1. DOMAIN cache \in SUBSET (0..MaxSize) /\ cache \in [DOMAIN cache -> Chunk]
      BY <1>2 DEF IsCache
    <2> QED
      BY <2>1 DEF Caches
  <1> QED
    BY <1>1, <1>2

LEMMA OpenFileTyped ==
    ASSUME NEW of
    PROVE  of \in OpenFiles <=> IsOpenFile(of)
  <1>1. of.cache \in Caches <=> IsCache(of.cache)
    BY CacheTyped
  <1> QED
    BY <1>1 DEF IsOpenFile, OpenFiles, Maps

LEMMA CacheFields ==
    ASSUME NEW cache \in Caches
    PROVE  /\ DOMAIN cache \subseteq 0..MaxSize
           /\ \A ci \in DOMAIN cache : cache[ci] \in Chunk
           /\ cache = [ci \in DOMAIN cache |-> cache[ci]]
           /\ IsFiniteSet(DOMAIN cache) /\ Cardinality(DOMAIN cache) \in Nat
  <1>1. IsCache(cache)
    BY CacheTyped
  <1>2. IsFiniteSet(0..MaxSize)
    BY Sizes, FS_Interval
  <1>3. IsFiniteSet(DOMAIN cache)
    BY <1>1, <1>2, FS_Subset DEF IsCache
  <1> QED
    BY <1>1, <1>3, FS_CardinalityType DEF IsCache

LEMMA ChunkFields ==
    ASSUME NEW data \in Chunk
    PROVE  /\ data \in Seq(Byte) /\ Len(data) \in Nat /\ Len(data) <= ChunkSize
           /\ data # EIO
  <1>1. data # EIO
    <2>1. SUFFICES ASSUME data = EIO PROVE FALSE
      OBVIOUS
    <2>2. data[1] = -1 /\ Len(data) = 1
      BY <2>1 DEF EIO
    <2>3. data \in Seq(Byte)
      BY DEF Chunk
    <2>4. ASSUME NEW S, data \in Seq(S) PROVE data[1] \in S
      BY <2>2, <2>4
    <2> QED
      BY <2>2, <2>3, <2>4, Sizes DEF Byte
  <1> QED
    BY <1>1 DEF Chunk

LEMMA NodeFields ==
    ASSUME NEW node \in Nodes
    PROVE  /\ node.kind \in {"noise", "data", "index", "file"}
           /\ node.kind = "noise" <=> node = Noise
           /\ node.kind = "data" => node.data \in Chunk
           /\ node.kind = "index" =>
                 node.ids \in Seq(Slots) /\ Len(node.ids) <= MaxIndex /\ node.next \in Link
           /\ node.kind = "file" =>
                 /\ node.total \in 0..MaxSize /\ node.chain \in Link /\ node.data \in Chunk
                 /\ node.slots \in Seq(Slots) /\ Len(node.slots) <= MaxDirect
  BY DEF Nodes, Noise

LEMMA NodesMade ==
    /\ Noise \in Nodes
    /\ \A data \in Chunk : FileDataBlock(data) \in Nodes
    /\ \A ids \in Seq(Slots), next \in Link :
          Len(ids) <= MaxIndex => FileIndexBlock(ids, next) \in Nodes
    /\ \A total \in 0..MaxSize, slots \in Seq(Slots), chain \in Link, data \in Chunk :
          Len(slots) <= MaxDirect => FileBlock(total, slots, chain, data) \in Nodes
  BY DEF Nodes, FileDataBlock, FileIndexBlock, FileBlock

LEMMA StoreFields ==
    ASSUME NEW st \in Stores
    PROVE  /\ st.node \in [Slots -> Nodes] /\ st.free \in [Slots -> Nat]
           /\ \A s \in Slots : st.node[s] \in Nodes /\ st.free[s] \in Nat
  BY DEF Stores

LEMMA CountTyped ==
    ASSUME NEW ids \in Seq(Slots), NEW s
    PROVE  Cardinality({i \in DOMAIN ids : ids[i] = s}) \in Nat
  <1>1. IsFiniteSet(1..Len(ids)) /\ DOMAIN ids = 1..Len(ids)
    BY FS_Interval
  <1>2. IsFiniteSet({i \in DOMAIN ids : ids[i] = s})
    BY <1>1, FS_Subset
  <1> QED
    BY <1>2, FS_CardinalityType

LEMMA StoreTyped ==
    ASSUME NEW st \in Stores
    PROVE  /\ \A s \in Slots, node \in Nodes : Updated(st, s, node) \in Stores
           /\ \A s \in Slots : Freed(st, s) \in Stores
           /\ \A ids \in Seq(Slots) : FreedAll(st, ids) \in Stores
           /\ \A node \in Nodes : HasSpace(st) => Written(st, node) \in Stores
  <1>1. ASSUME NEW s \in Slots, NEW node \in Nodes PROVE Updated(st, s, node) \in Stores
    BY DEF Updated, Stores
  <1>2. ASSUME NEW s \in Slots PROVE Freed(st, s) \in Stores
    BY NodesMade DEF Freed, Stores
  <1>3. ASSUME NEW ids \in Seq(Slots) PROVE FreedAll(st, ids) \in Stores
    <2>1. ASSUME NEW s \in Slots
          PROVE  st.free[s] + Cardinality({i \in DOMAIN ids : ids[i] = s}) \in Nat
      <3>1. Cardinality({i \in DOMAIN ids : ids[i] = s}) \in Nat
        BY CountTyped
      <3> QED
        BY <3>1, StoreFields
    <2>2. \A s \in Slots : (IF s \in ToSet(ids) THEN Noise ELSE st.node[s]) \in Nodes
      BY NodesMade, StoreFields
    <2> QED
      BY <2>1, <2>2 DEF FreedAll, Stores
  <1>4. ASSUME NEW node \in Nodes, HasSpace(st) PROVE Written(st, node) \in Stores
    <2>1. NextFree(st) \in Slots /\ st.free[NextFree(st)] > 0
      BY <1>4, NextFreeFree
    <2>2. st.free[NextFree(st)] - 1 \in Nat
      BY <2>1, StoreFields
    <2> QED
      BY <2>1, <2>2, StoreFields DEF Written, Stores
  <1> QED
    BY <1>1, <1>2, <1>3, <1>4

LEMMA Fields ==
    ASSUME NEW of \in OpenFiles
    PROVE  /\ of.head \in Slots /\ of.total \in 0..MaxSize /\ of.chain \in Link
           /\ of.map \in Seq(Link) /\ Len(of.map) \in Nat /\ Len(of.map) >= 1 /\ of.map[1] = None
           /\ \A i \in 1..Len(of.map) : of.map[i] \in Link
           /\ of.cache \in Caches /\ of.dirty \subseteq 0..MaxSize /\ of.metaDirty \in BOOLEAN
           /\ of.map \in Maps
  BY DEF OpenFiles, Maps

LEMMA ContinuationFinite ==
    ASSUME NEW of, of.dirty \subseteq 0..MaxSize
    PROVE  /\ IsFiniteSet(Continuation(of)) /\ Cardinality(Continuation(of)) \in Nat
           /\ Continuation(of) \subseteq 1..MaxSize
  <1>1. IsFiniteSet(1..MaxSize)
    <2>1. MaxSize \in Int
      BY Sizes
    <2> QED
      BY <2>1, FS_Interval
  <1>2. Continuation(of) \subseteq 1..MaxSize
    BY Sizes DEF Continuation
  <1> QED
    BY <1>1, <1>2, FS_Subset, FS_CardinalityType

LEMMA CacheMade ==
    ASSUME NEW cache \in Caches
    PROVE  /\ \A ci \in 0..MaxSize, data \in Chunk : Caching(cache, ci, data) \in Caches
           /\ \A D \in SUBSET DOMAIN cache : Restrict(cache, D) \in Caches
  <1>1. IsCache(cache)
    BY CacheTyped
  <1>2. ASSUME NEW ci \in 0..MaxSize, NEW data \in Chunk PROVE IsCache(Caching(cache, ci, data))
    BY <1>1 DEF IsCache, Caching
  <1>3. ASSUME NEW D \in SUBSET DOMAIN cache PROVE IsCache(Restrict(cache, D))
    BY <1>1 DEF IsCache, Restrict
  <1> QED
    BY <1>2, <1>3, CacheTyped

-----------------------------------------------------------------------------
(* The loops: one round of each, and the rounds there are.                   *)

Follow(st, r) ==
    IF r.next = None \/ ~r.ok THEN r
    ELSE IF st.node[r.next].kind # "index"
    THEN [r EXCEPT !.ok = FALSE, !.blocks = @ \union {r.next}]
    ELSE [ok |-> TRUE, next |-> st.node[r.next].next,
          ids |-> r.ids \o st.node[r.next].ids, blocks |-> r.blocks \union {r.next}]

Walks == [ok: BOOLEAN, next: Link, ids: Seq(Slots), blocks: SUBSET Slots]

WalkStart(first) == [ok |-> TRUE, next |-> first, ids |-> <<>>, blocks |-> {}]

IndexWalk(st, first) ==
    Iterate(LAMBDA i, r : Follow(st, r), WalkStart(first), Cardinality(Slots))

(* The walk along an index chain. *)
LEMMA IndexWalked ==
    ASSUME NEW st \in Stores, NEW first \in Link
    PROVE  \E f \in [0..Cardinality(Slots) -> Walks] :
              /\ f[0] = WalkStart(first)
              /\ \A i \in 1..Cardinality(Slots) : f[i] = Follow(st, f[i - 1])
              /\ IndexWalk(st, first) = f[Cardinality(Slots)] /\ IndexWalk(st, first) \in Walks
  <1> DEFINE n == Cardinality(Slots)
             S == Walks
             start == WalkStart(first)
             Round(i, r) == Follow(st, r)
             g == CHOOSE g : g = [i \in 0..n |-> IF i = 0 THEN start ELSE Round(i, g[i - 1])]
             step == [i \in 1..n |-> [r \in S |-> Round(i, r)]]
  <1>1. IndexWalk(st, first) = g[n]
    BY DEF IndexWalk, Iterate
  <1>2. n \in Nat /\ start \in S
    BY SlotNumbers DEF WalkStart, Walks
  <1>3. ASSUME NEW i \in 1..n, NEW r \in S PROVE Round(i, r) \in S
    <2>1. CASE r.next = None \/ ~r.ok
      BY <2>1 DEF Follow
    <2>2. CASE ~(r.next = None \/ ~r.ok)
      <3>1. r.next \in Slots /\ st.node[r.next] \in Nodes
        BY <2>2, StoreFields DEF Walks, Link
      <3>2. st.node[r.next].kind = "index" =>
               st.node[r.next].ids \in Seq(Slots) /\ st.node[r.next].next \in Link
        BY <3>1, NodeFields
      <3>3. st.node[r.next].kind = "index" => r.ids \o st.node[r.next].ids \in Seq(Slots)
        BY <3>2 DEF Walks
      <3>4. r.blocks \union {r.next} \in SUBSET Slots
        BY <3>1 DEF Walks
      <3> QED
        BY <3>1, <3>2, <3>3, <3>4, <2>2 DEF Follow, Walks
    <2> QED
      BY <2>1, <2>2
  <1> HIDE DEF n, start, Round, S
  <1>4. step \in [1..n -> [S -> S]]
    BY <1>3
  <1>5. Rounds(n, S, start, step) # {}
    <2> HIDE DEF step
    <2> QED
      BY <1>2, <1>4, Recursion
  <1>6. PICK f \in Rounds(n, S, start, step) : TRUE
    BY <1>5
  <1>7. f \in [0..n -> S] /\ f[0] = start /\ \A i \in 1..n : f[i] = step[i][f[i - 1]]
    <2> HIDE DEF step
    <2> QED
      BY <1>6 DEF Rounds
  <1>8. ASSUME NEW i \in 1..n PROVE f[i] = Round(i, f[i - 1])
    <2>1. i - 1 \in 0..n /\ f[i - 1] \in S
      BY <1>2, <1>7
    <2> QED
      BY <1>7, <2>1
  <1>9. f = [i \in 0..n |-> IF i = 0 THEN start ELSE Round(i, f[i - 1])]
    <2>1. \A i \in 0..n : f[i] = IF i = 0 THEN start ELSE Round(i, f[i - 1])
      BY <1>2, <1>7, <1>8
    <2> QED
      BY <1>7, <2>1
  <1>10. g = [i \in 0..n |-> IF i = 0 THEN start ELSE Round(i, g[i - 1])]
    BY <1>9
  <1> HIDE DEF g, step
  <1>11. ASSUME NEW i \in 0..n PROVE g[i] = f[i]
    <2> DEFINE P == {k \in 0..n : g[k] = f[k]}
    <2>1. 0 \in P
      BY <1>2, <1>7, <1>10
    <2>2. \A k \in 1..n : k - 1 \in P => k \in P
      BY <1>2, <1>8, <1>10
    <2> HIDE DEF P
    <2>3. \A k \in 0..n : k \in P
      BY <1>2, <2>1, <2>2, Induction
    <2> QED
      BY <2>3 DEF P
  <1>12. IndexWalk(st, first) = f[n] /\ f[n] \in S
    BY <1>1, <1>2, <1>7, <1>11
  <1> QED
    BY <1>7, <1>8, <1>12 DEF n, start, Round, S


LEMMA IndexWalkIs ==
    ASSUME NEW st, NEW first
    PROVE  IndexChain(st, first) = [IndexWalk(st, first) EXCEPT !.ok = @ /\ IndexWalk(st, first).next = None]
  BY DEF IndexChain, IndexWalk, Iterate, Follow, WalkStart

LEMMA IndexChainTyped ==
    ASSUME NEW st \in Stores, NEW first \in Link
    PROVE  IndexChain(st, first) \in Walks
  <1>1. IndexWalk(st, first) \in Walks
    BY IndexWalked
  <1> QED
    BY <1>1, IndexWalkIs DEF Walks

-----------------------------------------------------------------------------
FreeNext(r) ==
    IF r.next = None THEN r
    ELSE [st |-> Freed(r.st, r.next),
          next |-> IF r.st.node[r.next].kind = "index" THEN r.st.node[r.next].next ELSE None]

Freeings == [st: Stores, next: Link]

FreeWalk(st, first) ==
    Iterate(LAMBDA i, r : FreeNext(r), [st |-> st, next |-> first], Cardinality(Slots) + 1)

(* The walk of free_index_chain. *)
LEMMA FreeWalked ==
    ASSUME NEW st \in Stores, NEW first \in Link
    PROVE  \E f \in [0..(Cardinality(Slots) + 1) -> Freeings] :
              /\ f[0] = [st |-> st, next |-> first]
              /\ \A i \in 1..(Cardinality(Slots) + 1) : f[i] = FreeNext(f[i - 1])
              /\ FreeWalk(st, first) = f[(Cardinality(Slots) + 1)] /\ FreeWalk(st, first) \in Freeings
  <1> DEFINE n == (Cardinality(Slots) + 1)
             S == Freeings
             start == [st |-> st, next |-> first]
             Round(i, r) == FreeNext(r)
             g == CHOOSE g : g = [i \in 0..n |-> IF i = 0 THEN start ELSE Round(i, g[i - 1])]
             step == [i \in 1..n |-> [r \in S |-> Round(i, r)]]
  <1>1. FreeWalk(st, first) = g[n]
    BY DEF FreeWalk, Iterate
  <1>2. n \in Nat /\ start \in S
    BY SlotNumbers DEF Freeings
  <1>3. ASSUME NEW i \in 1..n, NEW r \in S PROVE Round(i, r) \in S
    <2>1. CASE r.next = None
      BY <2>1 DEF FreeNext
    <2>2. CASE r.next # None
      <3>1. r.next \in Slots /\ r.st \in Stores /\ r.st.node[r.next] \in Nodes
        BY <2>2, StoreFields DEF Freeings, Link
      <3>2. r.st.node[r.next].kind = "index" => r.st.node[r.next].next \in Link
        BY <3>1, NodeFields
      <3>3. Freed(r.st, r.next) \in Stores /\ None \in Link
        BY <3>1, StoreTyped DEF Link
      <3> QED
        BY <3>1, <3>2, <3>3, <2>2 DEF FreeNext, Freeings
    <2> QED
      BY <2>1, <2>2
  <1> HIDE DEF n, start, Round, S
  <1>4. step \in [1..n -> [S -> S]]
    BY <1>3
  <1>5. Rounds(n, S, start, step) # {}
    <2> HIDE DEF step
    <2> QED
      BY <1>2, <1>4, Recursion
  <1>6. PICK f \in Rounds(n, S, start, step) : TRUE
    BY <1>5
  <1>7. f \in [0..n -> S] /\ f[0] = start /\ \A i \in 1..n : f[i] = step[i][f[i - 1]]
    <2> HIDE DEF step
    <2> QED
      BY <1>6 DEF Rounds
  <1>8. ASSUME NEW i \in 1..n PROVE f[i] = Round(i, f[i - 1])
    <2>1. i - 1 \in 0..n /\ f[i - 1] \in S
      BY <1>2, <1>7
    <2> QED
      BY <1>7, <2>1
  <1>9. f = [i \in 0..n |-> IF i = 0 THEN start ELSE Round(i, f[i - 1])]
    <2>1. \A i \in 0..n : f[i] = IF i = 0 THEN start ELSE Round(i, f[i - 1])
      BY <1>2, <1>7, <1>8
    <2> QED
      BY <1>7, <2>1
  <1>10. g = [i \in 0..n |-> IF i = 0 THEN start ELSE Round(i, g[i - 1])]
    BY <1>9
  <1> HIDE DEF g, step
  <1>11. ASSUME NEW i \in 0..n PROVE g[i] = f[i]
    <2> DEFINE P == {k \in 0..n : g[k] = f[k]}
    <2>1. 0 \in P
      BY <1>2, <1>7, <1>10
    <2>2. \A k \in 1..n : k - 1 \in P => k \in P
      BY <1>2, <1>8, <1>10
    <2> HIDE DEF P
    <2>3. \A k \in 0..n : k \in P
      BY <1>2, <2>1, <2>2, Induction
    <2> QED
      BY <2>3 DEF P
  <1>12. FreeWalk(st, first) = f[n] /\ f[n] \in S
    BY <1>1, <1>2, <1>7, <1>11
  <1> QED
    BY <1>7, <1>8, <1>12 DEF n, start, Round, S


LEMMA ChainFreedIs ==
    ASSUME NEW st, NEW first
    PROVE  ChainFreed(st, first) = FreeWalk(st, first).st
  BY DEF ChainFreed, FreeWalk, Iterate, FreeNext

LEMMA ChainFreedTyped ==
    ASSUME NEW st \in Stores, NEW first \in Link
    PROVE  ChainFreed(st, first) \in Stores
  <1>1. FreeWalk(st, first) \in Freeings
    BY FreeWalked
  <1> QED
    BY <1>1, ChainFreedIs DEF Freeings

-----------------------------------------------------------------------------
Rest(ids) == Max({0, Len(ids) - MaxIndex})

WriteBlock(r) ==
    IF r.ids = <<>> \/ ~r.ok THEN r
    ELSE IF ~HasSpace(r.st) THEN [r EXCEPT !.ok = FALSE]
    ELSE [ok |-> TRUE, ids |-> SubSeq(r.ids, 1, Rest(r.ids)), chain |-> NextFree(r.st),
          st |-> Written(r.st, FileIndexBlock(SubSeq(r.ids, Rest(r.ids) + 1, Len(r.ids)), r.chain))]

Writings == [ok: BOOLEAN, ids: Seq(Slots), chain: Link, st: Stores]

WriteStart(st, ids) == [ok |-> TRUE, st |-> st, ids |-> ids, chain |-> None]

LEMMA RestBounds ==
    ASSUME NEW S, NEW ids \in Seq(S), ids # <<>>
    PROVE  /\ Rest(ids) \in 0..(Len(ids) - 1)
           /\ SubSeq(ids, 1, Rest(ids)) \in Seq(S) /\ Len(SubSeq(ids, 1, Rest(ids))) = Rest(ids)
           /\ SubSeq(ids, Rest(ids) + 1, Len(ids)) \in Seq(S)
           /\ Len(SubSeq(ids, Rest(ids) + 1, Len(ids))) = Len(ids) - Rest(ids)
           /\ Len(ids) - Rest(ids) <= MaxIndex
  <1>1. Len(ids) \in Nat /\ Len(ids) >= 1
    OBVIOUS
  <1>2. Rest(ids) = IF 0 >= Len(ids) - MaxIndex THEN 0 ELSE Len(ids) - MaxIndex
    BY <1>1, Sizes, MaxOfTwo DEF Rest
  <1>3. Rest(ids) \in 0..(Len(ids) - 1) /\ Len(ids) - Rest(ids) <= MaxIndex
    BY <1>1, <1>2, Sizes
  <1> HIDE DEF Rest
  <1> QED
    BY <1>1, <1>3

(* The rounds of write_index_chain. *)
LEMMA ChainWrote ==
    ASSUME NEW st \in Stores, NEW ids \in Seq(Slots)
    PROVE  \E f \in [0..Len(ids) -> Writings] :
              /\ f[0] = WriteStart(st, ids)
              /\ \A i \in 1..Len(ids) : f[i] = WriteBlock(f[i - 1])
              /\ ChainWritten(st, ids) = f[Len(ids)] /\ ChainWritten(st, ids) \in Writings
  <1> DEFINE n == Len(ids)
             S == Writings
             start == WriteStart(st, ids)
             Round(i, r) == WriteBlock(r)
             g == CHOOSE g : g = [i \in 0..n |-> IF i = 0 THEN start ELSE Round(i, g[i - 1])]
             step == [i \in 1..n |-> [r \in S |-> Round(i, r)]]
  <1>1. ChainWritten(st, ids) = g[n]
    BY DEF ChainWritten, WriteStart, WriteBlock, Rest, Iterate
  <1>2. n \in Nat /\ start \in S
    BY DEF Writings, WriteStart, Link
  <1>3. ASSUME NEW i \in 1..n, NEW r \in S PROVE Round(i, r) \in S
    <2>1. CASE r.ids = <<>> \/ ~r.ok
      BY <2>1 DEF WriteBlock
    <2>2. CASE r.ids # <<>> /\ r.ok /\ ~HasSpace(r.st)
      BY <2>2 DEF WriteBlock, Writings
    <2>3. CASE r.ids # <<>> /\ r.ok /\ HasSpace(r.st)
      <3>1. r.ids \in Seq(Slots) /\ r.st \in Stores /\ r.chain \in Link
        BY DEF Writings
      <3>2. /\ SubSeq(r.ids, 1, Rest(r.ids)) \in Seq(Slots)
            /\ SubSeq(r.ids, Rest(r.ids) + 1, Len(r.ids)) \in Seq(Slots)
            /\ Len(SubSeq(r.ids, Rest(r.ids) + 1, Len(r.ids))) <= MaxIndex
        BY <2>3, <3>1, RestBounds
      <3>3. FileIndexBlock(SubSeq(r.ids, Rest(r.ids) + 1, Len(r.ids)), r.chain) \in Nodes
        BY <3>1, <3>2, NodesMade
      <3>4. Written(r.st, FileIndexBlock(SubSeq(r.ids, Rest(r.ids) + 1, Len(r.ids)), r.chain)) \in Stores
        BY <2>3, <3>1, <3>3, StoreTyped
      <3>5. NextFree(r.st) \in Link
        BY <2>3, NextFreeFree DEF Link
      <3> QED
        BY <2>3, <3>2, <3>4, <3>5 DEF WriteBlock, Writings
    <2> QED
      BY <2>1, <2>2, <2>3
  <1> HIDE DEF n, start, Round, S
  <1>4. step \in [1..n -> [S -> S]]
    BY <1>3
  <1>5. Rounds(n, S, start, step) # {}
    <2> HIDE DEF step
    <2> QED
      BY <1>2, <1>4, Recursion
  <1>6. PICK f \in Rounds(n, S, start, step) : TRUE
    BY <1>5
  <1>7. f \in [0..n -> S] /\ f[0] = start /\ \A i \in 1..n : f[i] = step[i][f[i - 1]]
    <2> HIDE DEF step
    <2> QED
      BY <1>6 DEF Rounds
  <1>8. ASSUME NEW i \in 1..n PROVE f[i] = Round(i, f[i - 1])
    <2>1. i - 1 \in 0..n /\ f[i - 1] \in S
      BY <1>2, <1>7
    <2> QED
      BY <1>7, <2>1
  <1>9. f = [i \in 0..n |-> IF i = 0 THEN start ELSE Round(i, f[i - 1])]
    <2>1. \A i \in 0..n : f[i] = IF i = 0 THEN start ELSE Round(i, f[i - 1])
      BY <1>2, <1>7, <1>8
    <2> QED
      BY <1>7, <2>1
  <1>10. g = [i \in 0..n |-> IF i = 0 THEN start ELSE Round(i, g[i - 1])]
    BY <1>9
  <1> HIDE DEF g, step
  <1>11. ASSUME NEW i \in 0..n PROVE g[i] = f[i]
    <2> DEFINE P == {k \in 0..n : g[k] = f[k]}
    <2>1. 0 \in P
      BY <1>2, <1>7, <1>10
    <2>2. \A k \in 1..n : k - 1 \in P => k \in P
      BY <1>2, <1>8, <1>10
    <2> HIDE DEF P
    <2>3. \A k \in 0..n : k \in P
      BY <1>2, <2>1, <2>2, Induction
    <2> QED
      BY <2>3 DEF P
  <1>12. ChainWritten(st, ids) = f[n] /\ f[n] \in S
    BY <1>1, <1>2, <1>7, <1>11
  <1> QED
    BY <1>7, <1>8, <1>12 DEF n, start, Round, S


LEMMA ChainWrittenTyped ==
    ASSUME NEW st \in Stores, NEW ids \in Seq(Slots)
    PROVE  ChainWritten(st, ids) \in Writings
  BY ChainWrote

-----------------------------------------------------------------------------
Keep(id, ids) == IF id = None THEN ids ELSE Append(ids, id)

(* The rounds of Present. *)
LEMMA PresentKept ==
    ASSUME NEW map \in Seq(Link)
    PROVE  \E f \in [0..Len(map) -> Seq(Slots)] :
              /\ f[0] = <<>>
              /\ \A i \in 1..Len(map) : f[i] = Keep(map[i], f[i - 1])
              /\ Present(map) = f[Len(map)] /\ Present(map) \in Seq(Slots)
  <1> DEFINE n == Len(map)
             S == Seq(Slots)
             start == <<>>
             Round(i, r) == Keep(map[i], r)
             g == CHOOSE g : g = [i \in 0..n |-> IF i = 0 THEN start ELSE Round(i, g[i - 1])]
             step == [i \in 1..n |-> [r \in S |-> Round(i, r)]]
  <1>1. Present(map) = g[n]
    BY DEF Present, Keep, Iterate
  <1>2. n \in Nat /\ start \in S
    OBVIOUS
  <1>3. ASSUME NEW i \in 1..n, NEW r \in S PROVE Round(i, r) \in S
    <2>1. map[i] \in Link
      OBVIOUS
    <2>2. map[i] # None => Append(r, map[i]) \in Seq(Slots)
      BY <2>1 DEF Link
    <2> QED
      BY <2>2 DEF Keep
  <1> HIDE DEF n, start, Round, S
  <1>4. step \in [1..n -> [S -> S]]
    BY <1>3
  <1>5. Rounds(n, S, start, step) # {}
    <2> HIDE DEF step
    <2> QED
      BY <1>2, <1>4, Recursion
  <1>6. PICK f \in Rounds(n, S, start, step) : TRUE
    BY <1>5
  <1>7. f \in [0..n -> S] /\ f[0] = start /\ \A i \in 1..n : f[i] = step[i][f[i - 1]]
    <2> HIDE DEF step
    <2> QED
      BY <1>6 DEF Rounds
  <1>8. ASSUME NEW i \in 1..n PROVE f[i] = Round(i, f[i - 1])
    <2>1. i - 1 \in 0..n /\ f[i - 1] \in S
      BY <1>2, <1>7
    <2> QED
      BY <1>7, <2>1
  <1>9. f = [i \in 0..n |-> IF i = 0 THEN start ELSE Round(i, f[i - 1])]
    <2>1. \A i \in 0..n : f[i] = IF i = 0 THEN start ELSE Round(i, f[i - 1])
      BY <1>2, <1>7, <1>8
    <2> QED
      BY <1>7, <2>1
  <1>10. g = [i \in 0..n |-> IF i = 0 THEN start ELSE Round(i, g[i - 1])]
    BY <1>9
  <1> HIDE DEF g, step
  <1>11. ASSUME NEW i \in 0..n PROVE g[i] = f[i]
    <2> DEFINE P == {k \in 0..n : g[k] = f[k]}
    <2>1. 0 \in P
      BY <1>2, <1>7, <1>10
    <2>2. \A k \in 1..n : k - 1 \in P => k \in P
      BY <1>2, <1>8, <1>10
    <2> HIDE DEF P
    <2>3. \A k \in 0..n : k \in P
      BY <1>2, <2>1, <2>2, Induction
    <2> QED
      BY <2>3 DEF P
  <1>12. Present(map) = f[n] /\ f[n] \in S
    BY <1>1, <1>2, <1>7, <1>11
  <1> QED
    BY <1>7, <1>8, <1>12 DEF n, start, Round, S


LEMMA PresentTyped ==
    ASSUME NEW map \in Seq(Link)
    PROVE  Present(map) \in Seq(Slots)
  BY PresentKept

-----------------------------------------------------------------------------
(* Types of what a request does to a handle and the store.                   *)

Reached == [ok: BOOLEAN, of: OpenFiles]

Results == [ok: BOOLEAN, st: Stores, of: OpenFiles]

LEMMA LoadedTyped ==
    ASSUME NEW st \in Stores, NEW of \in OpenFiles, NEW ci \in 0..MaxSize
    PROVE  Loaded(st, of, ci) = EIO \/ Loaded(st, of, ci) \in Chunk
  <1>1. CASE ci >= Len(of.map)
    BY <1>1 DEF Loaded
  <1>2. CASE ci < Len(of.map) /\ ci = 0
    <2>1. st.node[of.head] \in Nodes
      BY Fields, StoreFields
    <2>2. st.node[of.head].kind = "file" => st.node[of.head].data \in Chunk
      BY <2>1, NodeFields
    <2> QED
      BY <1>2, <2>2 DEF Loaded
  <1>3. CASE ci < Len(of.map) /\ ci # 0
    <2>1. of.map[ci + 1] \in Link /\ Len(of.map) \in Nat
      BY <1>3, Fields, Sizes
    <2>2. <<>> \in Chunk
      BY Sizes DEF Chunk
    <2>3. CASE of.map[ci + 1] = None
      BY <1>3, <2>1, <2>2, <2>3 DEF Loaded
    <2>4. CASE of.map[ci + 1] # None
      <3>1. st.node[of.map[ci + 1]] \in Nodes
        BY <2>1, <2>4, StoreFields DEF Link
      <3>2. st.node[of.map[ci + 1]].kind = "data" => st.node[of.map[ci + 1]].data \in Chunk
        BY <3>1, NodeFields
      <3> QED
        BY <1>3, <2>1, <2>4, <3>2 DEF Loaded
    <2> QED
      BY <2>3, <2>4
  <1> QED
    BY <1>1, <1>2, <1>3, Fields, Sizes

(* What a full cache may drop: one clean chunk, or none.                     *)
LEMMA EvictionsAre ==
    ASSUME NEW of \in OpenFiles, NEW c \in Evictions(of)
    PROVE  /\ \E D \in SUBSET DOMAIN of.cache :
                 /\ c = Restrict(of.cache, D) /\ of.dirty \intersect DOMAIN of.cache \subseteq D
           /\ c \in Caches
  <1>1. of.cache \in Caches
    BY Fields
  <1>2. of.cache = Restrict(of.cache, DOMAIN of.cache)
    BY <1>1, CacheFields DEF Restrict
  <1>3. \E D \in SUBSET DOMAIN of.cache :
           c = Restrict(of.cache, D) /\ of.dirty \intersect DOMAIN of.cache \subseteq D
    BY <1>2 DEF Evictions
  <1> QED
    BY <1>1, <1>3, CacheMade

LEMMA EnsureCachedTyped ==
    ASSUME NEW st \in Stores, NEW of \in OpenFiles, NEW ci \in 0..MaxSize
    PROVE  EnsureCached(st, of, ci) \subseteq Reached
  <1>1. CASE ci \in DOMAIN of.cache
    BY <1>1 DEF EnsureCached, Reached
  <1>2. CASE ci \notin DOMAIN of.cache /\ Loaded(st, of, ci) = EIO
    BY <1>2 DEF EnsureCached, Reached
  <1>3. CASE ci \notin DOMAIN of.cache /\ Loaded(st, of, ci) # EIO
    <2>1. ASSUME NEW c \in Evictions(of)
          PROVE  [of EXCEPT !.cache = Caching(c, ci, Loaded(st, of, ci))] \in OpenFiles
      <3>1. Caching(c, ci, Loaded(st, of, ci)) \in Caches
        BY <1>3, EvictionsAre, LoadedTyped, CacheMade
      <3> QED
        BY <3>1 DEF OpenFiles
    <2>2. ASSUME NEW r \in EnsureCached(st, of, ci) PROVE r \in Reached
      <3>1. PICK c \in Evictions(of) :
               r = [ok |-> TRUE, of |-> [of EXCEPT !.cache = Caching(c, ci, Loaded(st, of, ci))]]
        BY <1>3 DEF EnsureCached
      <3> QED
        BY <2>1, <3>1 DEF Reached
    <2> QED
      BY <2>2
  <1> QED
    BY <1>1, <1>2, <1>3

LEMMA MapExtendedIs ==
    ASSUME NEW of \in OpenFiles, NEW ci \in 0..MaxSize
    PROVE  /\ MapExtended(of, ci) \in OpenFiles
           /\ Len(MapExtended(of, ci).map) >= ci + 1
           /\ Len(MapExtended(of, ci).map) = IF ci < Len(of.map) THEN Len(of.map) ELSE ci + 1
           /\ \A i \in 1..Len(of.map) : MapExtended(of, ci).map[i] = of.map[i]
           /\ \A i \in (Len(of.map) + 1)..Len(MapExtended(of, ci).map) :
                 MapExtended(of, ci).map[i] = None
           /\ ci < Len(of.map) => MapExtended(of, ci) = of
           /\ ci >= Len(of.map) =>
                 MapExtended(of, ci) =
                    [of EXCEPT !.map = MapExtended(of, ci).map, !.metaDirty = TRUE]
  <1>1. CASE ci < Len(of.map)
    BY <1>1, Fields, Sizes DEF MapExtended
  <1>2. CASE ~(ci < Len(of.map))
    <2> DEFINE gap == [i \in 1..(ci + 1 - Len(of.map)) |-> None]
               map == of.map \o gap
    <2>1. /\ of.map \in Seq(Link) /\ Len(of.map) \in Nat /\ of.map[1] = None
          /\ Len(of.map) >= 1 /\ ci \in Nat
      BY Fields, Sizes
    <2>2. gap \in Seq(Link) /\ Len(gap) = ci + 1 - Len(of.map)
      <3>1. ci + 1 - Len(of.map) \in Nat
        BY <1>2, <2>1
      <3> QED
        BY <3>1 DEF Link
    <2>3. \A i \in 1..Len(gap) : gap[i] = None
      BY <2>1, <2>2
    <2> HIDE DEF gap
    <2>4. map \in Seq(Link) /\ Len(map) = ci + 1
      BY <2>1, <2>2
    <2>5. \A i \in 1..Len(of.map) : map[i] = of.map[i]
      BY <2>1, <2>2
    <2>6. ASSUME NEW i \in (Len(of.map) + 1)..(ci + 1) PROVE map[i] = None
      <3>1. i - Len(of.map) \in 1..Len(gap)
        BY <2>1, <2>2
      <3>2. map[i] = gap[i - Len(of.map)]
        BY <2>1, <2>2, <3>1
      <3> QED
        BY <3>1, <3>2, <2>3
    <2>7. map \in Maps
      <3> HIDE DEF map
      <3>1. map[1] = None
        BY <2>1, <2>5
      <3> QED
        BY <2>1, <2>4, <3>1 DEF Maps
    <2> HIDE DEF map
    <2>8. MapExtended(of, ci) = [of EXCEPT !.map = map, !.metaDirty = TRUE]
      BY <1>2 DEF MapExtended, map, gap
    <2>9. [of EXCEPT !.map = map, !.metaDirty = TRUE] \in OpenFiles
      BY <2>7 DEF OpenFiles
    <2>10. MapExtended(of, ci).map = map
      BY <2>8, <2>9 DEF OpenFiles
    <2> QED
      BY <1>2, <2>1, <2>4, <2>5, <2>6, <2>8, <2>9, <2>10
  <1> QED
    BY <1>1, <1>2

LEMMA ZerosTyped ==
    /\ Zeros(ChunkSize) \in Chunk /\ Len(Zeros(ChunkSize)) = ChunkSize
    /\ \A i \in 1..ChunkSize : Zeros(ChunkSize)[i] = 0
  <1>1. ChunkSize \in Nat /\ MaxWrites \in Nat
    BY Sizes
  <1>2. Zeros(ChunkSize) \in Seq(Byte) /\ Len(Zeros(ChunkSize)) = ChunkSize
    <2>1. 0 \in Byte
      BY <1>1 DEF Byte
    <2> QED
      BY <1>1, <2>1 DEF Zeros
  <1> QED
    BY <1>1, <1>2 DEF Chunk, Zeros

LEMMA OverlaidIs ==
    ASSUME NEW bytes \in Seq(Byte), NEW from \in Nat, NEW to \in Int, NEW tag \in Byte
    PROVE  /\ Overlaid(bytes, from, to, tag) \in Seq(Byte)
           /\ Len(Overlaid(bytes, from, to, tag)) = IF Len(bytes) >= to THEN Len(bytes) ELSE to
           /\ \A i \in 1..Len(Overlaid(bytes, from, to, tag)) :
                 Overlaid(bytes, from, to, tag)[i] =
                    IF i \in (from + 1)..to THEN tag ELSE IF i <= Len(bytes) THEN bytes[i] ELSE 0
  <1> DEFINE n == Max({Len(bytes), to})
  <1>1. Len(bytes) \in Nat /\ MaxWrites \in Nat
    BY Sizes
  <1>2. n = (IF Len(bytes) >= to THEN Len(bytes) ELSE to) /\ n \in Nat
    BY <1>1, MaxOfTwo
  <1> HIDE DEF n
  <1>3. \A i \in 1..n : (IF i \in (from + 1)..to THEN tag ELSE IF i <= Len(bytes) THEN bytes[i] ELSE 0)
                          \in Byte
    <2>1. 0 \in Byte
      BY <1>1 DEF Byte
    <2> QED
      BY <1>1, <1>2, <2>1
  <1>4. Overlaid(bytes, from, to, tag) =
           [i \in 1..n |-> IF i \in (from + 1)..to THEN tag
                           ELSE IF i <= Len(bytes) THEN bytes[i] ELSE 0]
    BY DEF Overlaid, n
  <1> QED
    BY <1>2, <1>3, <1>4

LEMMA OverlaidTyped ==
    ASSUME NEW data \in Chunk, NEW from \in Nat, NEW to \in Int, to <= ChunkSize,
           NEW tag \in Byte
    PROVE  Overlaid(data, from, to, tag) \in Chunk
  <1>1. data \in Seq(Byte) /\ Len(data) \in Nat /\ Len(data) <= ChunkSize
    BY ChunkFields
  <1>2. /\ Overlaid(data, from, to, tag) \in Seq(Byte)
        /\ Len(Overlaid(data, from, to, tag)) = IF Len(data) >= to THEN Len(data) ELSE to
    BY <1>1, OverlaidIs
  <1> QED
    BY <1>1, <1>2, Sizes DEF Chunk

LEMMA WriteReadyTyped ==
    ASSUME NEW st \in Stores, NEW of \in OpenFiles, NEW ci \in 0..MaxSize,
           NEW r \in WriteReady(st, of, ci)
    PROVE  r \in Reached /\ (r.ok => ci \in DOMAIN r.of.cache)
  <1>1. CASE ci # 0 /\ ci \notin DOMAIN of.cache /\ of.map[ci + 1] = None
    <2>1. of.cache \in Caches
      BY Fields
    <2>2. Caching(of.cache, ci, Zeros(ChunkSize)) \in Caches
      BY <2>1, ZerosTyped, CacheMade
    <2>3. r = [ok |-> TRUE, of |-> [of EXCEPT !.cache = Caching(@, ci, Zeros(ChunkSize))]]
      BY <1>1 DEF WriteReady
    <2>4. r.of \in OpenFiles /\ r.of.cache = Caching(of.cache, ci, Zeros(ChunkSize))
      BY <2>2, <2>3 DEF OpenFiles
    <2> QED
      BY <2>3, <2>4 DEF Reached, Caching
  <1>2. CASE ~(ci # 0 /\ ci \notin DOMAIN of.cache /\ of.map[ci + 1] = None)
    <2>1. r \in EnsureCached(st, of, ci)
      BY <1>2, Zenon DEF WriteReady
    <2>2. r \in Reached
      BY <2>1, EnsureCachedTyped
    <2>3. r.ok => ci \in DOMAIN r.of.cache
      <3>1. CASE ci \in DOMAIN of.cache
        BY <2>1, <3>1 DEF EnsureCached
      <3>2. CASE ci \notin DOMAIN of.cache /\ Loaded(st, of, ci) = EIO
        BY <2>1, <3>2 DEF EnsureCached
      <3>3. CASE ci \notin DOMAIN of.cache /\ Loaded(st, of, ci) # EIO
        <4>1. PICK c \in Evictions(of) :
                 r = [ok |-> TRUE, of |-> [of EXCEPT !.cache = Caching(c, ci, Loaded(st, of, ci))]]
          BY <2>1, <3>3 DEF EnsureCached
        <4>2. r.of.cache = Caching(c, ci, Loaded(st, of, ci))
          BY <4>1 DEF OpenFiles
        <4> QED
          BY <4>2 DEF Caching
      <3> QED
        BY <3>1, <3>2, <3>3
    <2> QED
      BY <2>2, <2>3
  <1> QED
    BY <1>1, <1>2

(* The part of a write that falls into chunk ci, once the chunk is cached.   *)
Low(ci, from) == Max({0, from - ci * ChunkSize})

High(ci, to) == Min({to - ci * ChunkSize, ChunkSize})

Overwritten(of, ci, from, to, tag) ==
    [of EXCEPT !.cache = Caching(@, ci, Overlaid(@[ci], Low(ci, from), High(ci, to), tag)),
               !.dirty = @ \union {ci},
               !.total = Max({@, to}),
               !.metaDirty = @ \/ to > of.total]

LEMMA LowHigh ==
    ASSUME NEW ci \in Nat, NEW from \in Nat, NEW to \in Nat
    PROVE  /\ ci * ChunkSize \in Nat
           /\ Low(ci, from) \in Nat
           /\ Low(ci, from) = IF 0 >= from - ci * ChunkSize THEN 0 ELSE from - ci * ChunkSize
           /\ High(ci, to) \in Int /\ High(ci, to) <= ChunkSize
           /\ High(ci, to) = IF to - ci * ChunkSize <= ChunkSize THEN to - ci * ChunkSize ELSE ChunkSize
  <1>1. ci * ChunkSize \in Nat /\ ChunkSize \in Nat
    BY Sizes
  <1>2. from - ci * ChunkSize \in Int /\ to - ci * ChunkSize \in Int
    BY <1>1
  <1>3. Low(ci, from) = IF 0 >= from - ci * ChunkSize THEN 0 ELSE from - ci * ChunkSize
    BY <1>2, MaxOfTwo DEF Low
  <1>4. High(ci, to) = IF to - ci * ChunkSize <= ChunkSize THEN to - ci * ChunkSize ELSE ChunkSize
    BY <1>1, <1>2, MinOfTwo DEF High
  <1> QED
    BY <1>1, <1>2, <1>3, <1>4

LEMMA OverwrittenIs ==
    ASSUME NEW of \in OpenFiles, NEW ci \in DOMAIN of.cache,
           NEW from \in 0..MaxSize, NEW to \in 0..MaxSize, NEW tag \in Byte
    PROVE  /\ Overwritten(of, ci, from, to, tag) \in OpenFiles
           /\ Overwritten(of, ci, from, to, tag).cache =
                 Caching(of.cache, ci, Overlaid(of.cache[ci], Low(ci, from), High(ci, to), tag))
           /\ Overlaid(of.cache[ci], Low(ci, from), High(ci, to), tag) \in Chunk
           /\ Overwritten(of, ci, from, to, tag).dirty = of.dirty \union {ci}
           /\ Overwritten(of, ci, from, to, tag).total = (IF of.total >= to THEN of.total ELSE to)
           /\ Overwritten(of, ci, from, to, tag).map = of.map
           /\ Overwritten(of, ci, from, to, tag).head = of.head
           /\ Overwritten(of, ci, from, to, tag).chain = of.chain
           /\ Overwritten(of, ci, from, to, tag).metaDirty = (of.metaDirty \/ to > of.total)
  <1>1. of.cache \in Caches /\ of.total \in 0..MaxSize /\ of.dirty \subseteq 0..MaxSize
    BY Fields
  <1>2. ci \in 0..MaxSize /\ of.cache[ci] \in Chunk /\ ci \in Nat /\ from \in Nat /\ to \in Nat
    BY <1>1, CacheFields, Sizes
  <1>3. Low(ci, from) \in Nat /\ High(ci, to) \in Int /\ High(ci, to) <= ChunkSize
    BY <1>2, LowHigh
  <1>4. Overlaid(of.cache[ci], Low(ci, from), High(ci, to), tag) \in Chunk
    BY <1>2, <1>3, OverlaidTyped
  <1>5. Caching(of.cache, ci, Overlaid(of.cache[ci], Low(ci, from), High(ci, to), tag)) \in Caches
    BY <1>1, <1>2, <1>4, CacheMade
  <1>6. Max({of.total, to}) = (IF of.total >= to THEN of.total ELSE to)
    BY <1>1, Sizes, MaxOfTwo
  <1>7. Max({of.total, to}) \in 0..MaxSize
    BY <1>1, <1>6
  <1>8. of.dirty \union {ci} \in SUBSET (0..MaxSize)
    BY <1>1, <1>2
  <1>9. (of.metaDirty \/ to > of.total) \in BOOLEAN
    BY DEF OpenFiles
  <1> QED
    BY <1>4, <1>5, <1>6, <1>7, <1>8, <1>9 DEF Overwritten, OpenFiles

LEMMA WriteChunkIs ==
    ASSUME NEW st \in Stores, NEW of \in OpenFiles, NEW ci \in 0..MaxSize,
           NEW from \in 0..MaxSize, NEW to \in 0..MaxSize, NEW tag \in Byte,
           NEW r \in WriteChunk(st, of, ci, from, to, tag)
    PROVE  /\ r \in Reached
           /\ \E e \in WriteReady(st, MapExtended(of, ci), ci) :
                 /\ e \in Reached
                 /\ e.ok => /\ ci \in DOMAIN e.of.cache
                            /\ r = [ok |-> TRUE, of |-> Overwritten(e.of, ci, from, to, tag)]
                 /\ ~e.ok => r = e
  <1>1. PICK e \in WriteReady(st, MapExtended(of, ci), ci) :
           r = IF e.ok
               THEN [e EXCEPT !.of.cache = Caching(@, ci, Overlaid(@[ci], Low(ci, from), High(ci, to), tag)),
                              !.of.dirty = @ \union {ci},
                              !.of.total = Max({@, to}),
                              !.of.metaDirty = @ \/ to > e.of.total]
               ELSE e
    BY DEF WriteChunk, Low, High
  <1>2. e \in Reached /\ (e.ok => ci \in DOMAIN e.of.cache)
    BY WriteReadyTyped, MapExtendedIs
  <1>3. e.of \in OpenFiles /\ e.ok \in BOOLEAN /\ e = [ok |-> e.ok, of |-> e.of]
    BY <1>2 DEF Reached
  <1>4. ASSUME e.ok
        PROVE  r = [ok |-> TRUE, of |-> Overwritten(e.of, ci, from, to, tag)]
    BY <1>1, <1>3, <1>4 DEF Overwritten, OpenFiles
  <1>5. e.ok => Overwritten(e.of, ci, from, to, tag) \in OpenFiles
    BY <1>2, <1>3, OverwrittenIs
  <1> QED
    BY <1>1, <1>2, <1>3, <1>4, <1>5 DEF Reached

WriteNext(st, first, from, to, tag, i, rs) ==
    UNION {IF r.ok THEN WriteChunk(st, r.of, first + i - 1, from, to, tag) ELSE {r} : r \in rs}

LEMMA WriteNextTyped ==
    ASSUME NEW st \in Stores, NEW from \in 0..MaxSize, NEW to \in 0..MaxSize, from < to,
           NEW tag \in Byte, NEW i \in 1..(Chunks(to) - from \div ChunkSize),
           NEW rs \in SUBSET Reached
    PROVE  /\ from \div ChunkSize + i - 1 \in 0..MaxSize
           /\ WriteNext(st, from \div ChunkSize, from, to, tag, i, rs) \in SUBSET Reached
  <1>1. from \in Nat /\ to \in Nat /\ ChunkSize \in Nat /\ ChunkSize >= 1 /\ MaxSize \in Nat
    BY Sizes
  <1>2. from \div ChunkSize \in Nat
    BY <1>1, Division
  <1>3. Chunks(to) \in Nat /\ Chunks(to) <= to
    BY <1>1, ChunksBound
  <1>4. from \div ChunkSize + i - 1 \in 0..MaxSize
    BY <1>1, <1>2, <1>3
  <1>5. ASSUME NEW r \in rs, r.ok
        PROVE  WriteChunk(st, r.of, from \div ChunkSize + i - 1, from, to, tag) \in SUBSET Reached
    <2>1. r.of \in OpenFiles
      BY DEF Reached
    <2> QED
      BY <2>1, <1>4, WriteChunkIs
  <1> QED
    BY <1>4, <1>5 DEF WriteNext

(* The rounds of the loop of op_write. *)
LEMMA ChunksWritten ==
    ASSUME NEW st \in Stores, NEW of \in OpenFiles, NEW from \in 0..MaxSize,
           NEW to \in 0..MaxSize, from < to, NEW tag \in Byte
    PROVE  \E f \in [0..(Chunks(to) - from \div ChunkSize) -> (SUBSET Reached)] :
              /\ f[0] = {[ok |-> TRUE, of |-> of]}
              /\ \A i \in 1..(Chunks(to) - from \div ChunkSize) : f[i] = WriteNext(st, from \div ChunkSize, from, to, tag, i, f[i - 1])
              /\ WriteChunks(st, of, from, to, tag) = f[(Chunks(to) - from \div ChunkSize)] /\ WriteChunks(st, of, from, to, tag) \in (SUBSET Reached)
  <1> DEFINE n == (Chunks(to) - from \div ChunkSize)
             S == (SUBSET Reached)
             start == {[ok |-> TRUE, of |-> of]}
             Round(i, r) == WriteNext(st, from \div ChunkSize, from, to, tag, i, r)
             g == CHOOSE g : g = [i \in 0..n |-> IF i = 0 THEN start ELSE Round(i, g[i - 1])]
             step == [i \in 1..n |-> [r \in S |-> Round(i, r)]]
  <1>1. WriteChunks(st, of, from, to, tag) = g[n]
    BY DEF WriteChunks, WriteNext, Iterate
  <1>2. n \in Nat /\ start \in S
    <2>1. from \in Nat /\ to \in Nat /\ ChunkSize \in Nat /\ ChunkSize >= 1 /\ MaxSize \in Nat
      BY Sizes
    <2>2. from \div ChunkSize \in Nat /\ (from \div ChunkSize) * ChunkSize <= from
      BY <2>1, Division
    <2>3. Chunks(to) \in Nat /\ (from \div ChunkSize < Chunks(to) <=> (from \div ChunkSize) * ChunkSize < to)
      BY <2>1, <2>2, ChunksBound
    <2>4. (from \div ChunkSize) * ChunkSize \in Nat
      BY <2>1, <2>2
    <2>5. Chunks(to) - from \div ChunkSize \in Nat
      BY <2>1, <2>2, <2>3, <2>4
    <2> QED
      BY <2>5 DEF Reached
  <1>3. ASSUME NEW i \in 1..n, NEW r \in S PROVE Round(i, r) \in S
    BY WriteNextTyped
  <1> HIDE DEF n, start, Round, S
  <1>4. step \in [1..n -> [S -> S]]
    BY <1>3
  <1>5. Rounds(n, S, start, step) # {}
    <2> HIDE DEF step
    <2> QED
      BY <1>2, <1>4, Recursion
  <1>6. PICK f \in Rounds(n, S, start, step) : TRUE
    BY <1>5
  <1>7. f \in [0..n -> S] /\ f[0] = start /\ \A i \in 1..n : f[i] = step[i][f[i - 1]]
    <2> HIDE DEF step
    <2> QED
      BY <1>6 DEF Rounds
  <1>8. ASSUME NEW i \in 1..n PROVE f[i] = Round(i, f[i - 1])
    <2>1. i - 1 \in 0..n /\ f[i - 1] \in S
      BY <1>2, <1>7
    <2> QED
      BY <1>7, <2>1
  <1>9. f = [i \in 0..n |-> IF i = 0 THEN start ELSE Round(i, f[i - 1])]
    <2>1. \A i \in 0..n : f[i] = IF i = 0 THEN start ELSE Round(i, f[i - 1])
      BY <1>2, <1>7, <1>8
    <2> QED
      BY <1>7, <2>1
  <1>10. g = [i \in 0..n |-> IF i = 0 THEN start ELSE Round(i, g[i - 1])]
    BY <1>9
  <1> HIDE DEF g, step
  <1>11. ASSUME NEW i \in 0..n PROVE g[i] = f[i]
    <2> DEFINE P == {k \in 0..n : g[k] = f[k]}
    <2>1. 0 \in P
      BY <1>2, <1>7, <1>10
    <2>2. \A k \in 1..n : k - 1 \in P => k \in P
      BY <1>2, <1>8, <1>10
    <2> HIDE DEF P
    <2>3. \A k \in 0..n : k \in P
      BY <1>2, <2>1, <2>2, Induction
    <2> QED
      BY <2>3 DEF P
  <1>12. WriteChunks(st, of, from, to, tag) = f[n] /\ f[n] \in S
    BY <1>1, <1>2, <1>7, <1>11
  <1> QED
    BY <1>7, <1>8, <1>12 DEF n, start, Round, S

(* The numbers of continuation chunks.                                       *)
Numbers == 1..MaxSize

LEMMA WriteBackTyped ==
    ASSUME NEW st \in Stores, NEW of \in OpenFiles, NEW ci \in 1..MaxSize
    PROVE  WriteBack(st, of, ci) \in Results
  <1>1. CASE ci \notin DOMAIN of.cache \/ ci >= Len(of.map)
    BY <1>1 DEF WriteBack, Results
  <1>2. CASE ci \in DOMAIN of.cache /\ ci < Len(of.map)
    <2>1. of.cache[ci] \in Chunk /\ FileDataBlock(of.cache[ci]) \in Nodes
      BY <1>2, Fields, CacheFields, NodesMade
    <2>2. of.map \in Seq(Link) /\ Len(of.map) \in Nat /\ of.map[ci + 1] \in Link /\ ci \in Nat
          /\ of.map[1] = None
      BY <1>2, Fields, Sizes
    <2>3. CASE of.map[ci + 1] # None
      <3>1. Updated(st, of.map[ci + 1], FileDataBlock(of.cache[ci])) \in Stores
        BY <2>1, <2>2, <2>3, StoreTyped DEF Link
      <3> QED
        BY <1>2, <2>2, <2>3, <3>1 DEF WriteBack, Results
    <2>4. CASE of.map[ci + 1] = None /\ HasSpace(st)
      <3>1. Written(st, FileDataBlock(of.cache[ci])) \in Stores /\ NextFree(st) \in Link
        BY <2>1, <2>4, StoreTyped, NextFreeFree DEF Link
      <3>2. [of.map EXCEPT ![ci + 1] = NextFree(st)] \in Maps
        BY <2>2, <3>1, Fields, <1>2 DEF Maps
      <3>3. [of EXCEPT !.map[ci + 1] = NextFree(st), !.metaDirty = TRUE] \in OpenFiles
        BY <3>2 DEF OpenFiles
      <3> QED
        BY <1>2, <2>2, <2>4, <3>1, <3>3 DEF WriteBack, Results
    <2>5. CASE of.map[ci + 1] = None /\ ~HasSpace(st)
      BY <1>2, <2>2, <2>5 DEF WriteBack, Results
    <2> QED
      BY <2>3, <2>4, <2>5
  <1> QED
    BY <1>1, <1>2, Fields, Sizes

LEMMA DroppedTyped ==
    ASSUME NEW of \in OpenFiles, NEW ci
    PROVE  Dropped(of, ci) \in OpenFiles
  <1>1. of.cache \in Caches
    BY Fields
  <1>2. Restrict(of.cache, DOMAIN of.cache \ {ci}) \in Caches
    BY <1>1, CacheMade
  <1> QED
    BY <1>2 DEF Dropped, OpenFiles

SpillNext(order, i, r) ==
    LET w == WriteBack(r.st, r.of, order[i])
    IN  IF ~r.ok THEN r
        ELSE IF ~w.ok THEN w ELSE [w EXCEPT !.of = Dropped(@, order[i])]

FlushNext(order, i, r) == IF r.ok THEN WriteBack(r.st, r.of, order[i]) ELSE r

RunStart(st, of) == [ok |-> TRUE, st |-> st, of |-> of]

SpillRun(order, st, of, n) == Iterate(LAMBDA i, r : SpillNext(order, i, r), RunStart(st, of), n)

FlushRun(order, st, of) ==
    Iterate(LAMBDA i, r : FlushNext(order, i, r), RunStart(st, of), Len(order))

(* An order of a finite set lists every member once.                         *)
LEMMA OrderIs ==
    ASSUME NEW S, IsFiniteSet(S), NEW order \in SetToSeqs(S)
    PROVE  /\ order \in Seq(S) /\ Len(order) = Cardinality(S) /\ Cardinality(S) \in Nat
           /\ DOMAIN order = 1..Cardinality(S)
           /\ \A i \in 1..Len(order) : order[i] \in S
           /\ \A i, j \in 1..Len(order) : order[i] = order[j] => i = j
           /\ \A x \in S : \E i \in 1..Len(order) : order[i] = x
  <1> DEFINE n == Cardinality(S)
  <1>1. n \in Nat
    BY FS_CardinalityType
  <1> HIDE DEF n
  <1>2. order \in [1..n -> S] /\ \A i, j \in 1..n : i # j => order[i] # order[j]
    BY DEF SetToSeqs, n
  <1>3. order \in Seq(S) /\ Len(order) = n /\ DOMAIN order = 1..n
    BY <1>1, <1>2
  <1>4. IsFiniteSet(1..n) /\ Cardinality(1..n) = n
    BY <1>1, FS_Interval
  <1>5. order \in Injection(1..n, S)
    BY <1>2 DEF Injection, IsInjective
  <1>6. order \in Surjection(1..n, S)
    <2>1. Cardinality(1..n) = Cardinality(S)
      BY <1>4 DEF n
    <2> QED
      BY <1>4, <1>5, <2>1, FS_Injection
  <1>7. \A x \in S : \E i \in 1..n : order[i] = x
    BY <1>6 DEF Surjection
  <1> QED
    BY <1>1, <1>2, <1>3, <1>7 DEF n

LEMMA SpillOrders ==
    ASSUME NEW st, NEW of, NEW n, NEW r \in WriteThroughFlush(st, of, n)
    PROVE  \E order \in SetToSeqs(Continuation(of)) :
              /\ \A i \in 2..Len(order) : order[i - 1] < order[i]
              /\ r = SpillRun(order, st, of, n)
  <1>1. WriteThroughFlush(st, of, n) =
           {SpillRun(order, st, of, n) :
              order \in {q \in SetToSeqs(Continuation(of)) : \A i \in 2..Len(q) : q[i - 1] < q[i]}}
    BY DEF WriteThroughFlush, SpillRun, SpillNext, RunStart, Iterate
  <1> QED
    BY <1>1

LEMMA FlushOrders ==
    ASSUME NEW st, NEW of, NEW r \in FlushChunks(st, of)
    PROVE  \E order \in SetToSeqs(Continuation(of)) : r = FlushRun(order, st, of)
  <1>1. FlushChunks(st, of) = {FlushRun(order, st, of) : order \in SetToSeqs(Continuation(of))}
    BY DEF FlushChunks, FlushRun, FlushNext, RunStart, Iterate
  <1> QED
    BY <1>1

(* The rounds of write_through_flush. *)
LEMMA Spilled ==
    ASSUME NEW st \in Stores, NEW of \in OpenFiles,
           NEW order \in Seq(Numbers), NEW k \in 0..Len(order)
    PROVE  \E f \in [0..k -> Results] :
              /\ f[0] = RunStart(st, of)
              /\ \A i \in 1..k : f[i] = SpillNext(order, i, f[i - 1])
              /\ SpillRun(order, st, of, k) = f[k] /\ SpillRun(order, st, of, k) \in Results
  <1> DEFINE n == k
             S == Results
             start == RunStart(st, of)
             Round(i, r) == SpillNext(order, i, r)
             g == CHOOSE g : g = [i \in 0..n |-> IF i = 0 THEN start ELSE Round(i, g[i - 1])]
             step == [i \in 1..n |-> [r \in S |-> Round(i, r)]]
  <1>1. SpillRun(order, st, of, k) = g[n]
    BY DEF SpillRun, SpillNext, Iterate
  <1>2. n \in Nat /\ start \in S
    BY DEF RunStart, Results
  <1>3. ASSUME NEW i \in 1..n, NEW r \in S PROVE Round(i, r) \in S
    <2>1. r.st \in Stores /\ r.of \in OpenFiles
      BY DEF Results
    <2>2. order[i] \in Numbers
      OBVIOUS
    <2>3. WriteBack(r.st, r.of, order[i]) \in Results
      BY <2>1, <2>2, WriteBackTyped DEF Numbers
    <2>4. Dropped(WriteBack(r.st, r.of, order[i]).of, order[i]) \in OpenFiles
      BY <2>3, DroppedTyped DEF Results
    <2> QED
      BY <2>3, <2>4 DEF SpillNext, Results
  <1> HIDE DEF n, start, Round, S
  <1>4. step \in [1..n -> [S -> S]]
    BY <1>3
  <1>5. Rounds(n, S, start, step) # {}
    <2> HIDE DEF step
    <2> QED
      BY <1>2, <1>4, Recursion
  <1>6. PICK f \in Rounds(n, S, start, step) : TRUE
    BY <1>5
  <1>7. f \in [0..n -> S] /\ f[0] = start /\ \A i \in 1..n : f[i] = step[i][f[i - 1]]
    <2> HIDE DEF step
    <2> QED
      BY <1>6 DEF Rounds
  <1>8. ASSUME NEW i \in 1..n PROVE f[i] = Round(i, f[i - 1])
    <2>1. i - 1 \in 0..n /\ f[i - 1] \in S
      BY <1>2, <1>7
    <2> QED
      BY <1>7, <2>1
  <1>9. f = [i \in 0..n |-> IF i = 0 THEN start ELSE Round(i, f[i - 1])]
    <2>1. \A i \in 0..n : f[i] = IF i = 0 THEN start ELSE Round(i, f[i - 1])
      BY <1>2, <1>7, <1>8
    <2> QED
      BY <1>7, <2>1
  <1>10. g = [i \in 0..n |-> IF i = 0 THEN start ELSE Round(i, g[i - 1])]
    BY <1>9
  <1> HIDE DEF g, step
  <1>11. ASSUME NEW i \in 0..n PROVE g[i] = f[i]
    <2> DEFINE P == {m \in 0..n : g[m] = f[m]}
    <2>1. 0 \in P
      BY <1>2, <1>7, <1>10
    <2>2. \A m \in 1..n : m - 1 \in P => m \in P
      BY <1>2, <1>8, <1>10
    <2> HIDE DEF P
    <2>3. \A m \in 0..n : m \in P
      BY <1>2, <2>1, <2>2, Induction
    <2> QED
      BY <2>3 DEF P
  <1>12. SpillRun(order, st, of, k) = f[n] /\ f[n] \in S
    BY <1>1, <1>2, <1>7, <1>11
  <1> QED
    BY <1>7, <1>8, <1>12 DEF n, start, Round, S

(* The rounds of step 1 of flush_fh. *)
LEMMA FlushedChunks ==
    ASSUME NEW st \in Stores, NEW of \in OpenFiles, NEW order \in Seq(Numbers)
    PROVE  \E f \in [0..Len(order) -> Results] :
              /\ f[0] = RunStart(st, of)
              /\ \A i \in 1..Len(order) : f[i] = FlushNext(order, i, f[i - 1])
              /\ FlushRun(order, st, of) = f[Len(order)] /\ FlushRun(order, st, of) \in Results
  <1> DEFINE n == Len(order)
             S == Results
             start == RunStart(st, of)
             Round(i, r) == FlushNext(order, i, r)
             g == CHOOSE g : g = [i \in 0..n |-> IF i = 0 THEN start ELSE Round(i, g[i - 1])]
             step == [i \in 1..n |-> [r \in S |-> Round(i, r)]]
  <1>1. FlushRun(order, st, of) = g[n]
    BY DEF FlushRun, FlushNext, Iterate
  <1>2. n \in Nat /\ start \in S
    BY DEF RunStart, Results
  <1>3. ASSUME NEW i \in 1..n, NEW r \in S PROVE Round(i, r) \in S
    <2>1. r.st \in Stores /\ r.of \in OpenFiles
      BY DEF Results
    <2>2. order[i] \in Numbers
      OBVIOUS
    <2>3. WriteBack(r.st, r.of, order[i]) \in Results
      BY <2>1, <2>2, WriteBackTyped DEF Numbers
    <2> QED
      BY <2>3 DEF FlushNext
  <1> HIDE DEF n, start, Round, S
  <1>4. step \in [1..n -> [S -> S]]
    BY <1>3
  <1>5. Rounds(n, S, start, step) # {}
    <2> HIDE DEF step
    <2> QED
      BY <1>2, <1>4, Recursion
  <1>6. PICK f \in Rounds(n, S, start, step) : TRUE
    BY <1>5
  <1>7. f \in [0..n -> S] /\ f[0] = start /\ \A i \in 1..n : f[i] = step[i][f[i - 1]]
    <2> HIDE DEF step
    <2> QED
      BY <1>6 DEF Rounds
  <1>8. ASSUME NEW i \in 1..n PROVE f[i] = Round(i, f[i - 1])
    <2>1. i - 1 \in 0..n /\ f[i - 1] \in S
      BY <1>2, <1>7
    <2> QED
      BY <1>7, <2>1
  <1>9. f = [i \in 0..n |-> IF i = 0 THEN start ELSE Round(i, f[i - 1])]
    <2>1. \A i \in 0..n : f[i] = IF i = 0 THEN start ELSE Round(i, f[i - 1])
      BY <1>2, <1>7, <1>8
    <2> QED
      BY <1>7, <2>1
  <1>10. g = [i \in 0..n |-> IF i = 0 THEN start ELSE Round(i, g[i - 1])]
    BY <1>9
  <1> HIDE DEF g, step
  <1>11. ASSUME NEW i \in 0..n PROVE g[i] = f[i]
    <2> DEFINE P == {k \in 0..n : g[k] = f[k]}
    <2>1. 0 \in P
      BY <1>2, <1>7, <1>10
    <2>2. \A k \in 1..n : k - 1 \in P => k \in P
      BY <1>2, <1>8, <1>10
    <2> HIDE DEF P
    <2>3. \A k \in 0..n : k \in P
      BY <1>2, <2>1, <2>2, Induction
    <2> QED
      BY <2>3 DEF P
  <1>12. FlushRun(order, st, of) = f[n] /\ f[n] \in S
    BY <1>1, <1>2, <1>7, <1>11
  <1> QED
    BY <1>7, <1>8, <1>12 DEF n, start, Round, S


LEMMA WriteThroughBounds ==
    ASSUME NEW n \in Nat, n > WriteThrough
    PROVE  n - WriteThrough \div 2 \in 0..n /\ WriteThrough \div 2 <= WriteThrough
           /\ WriteThrough \div 2 \in Nat
  BY Sizes

LEMMA WriteRequestTyped ==
    ASSUME NEW st \in Stores, NEW of \in OpenFiles, NEW from \in 0..MaxSize,
           NEW to \in 0..MaxSize, from < to, NEW tag \in Byte
    PROVE  WriteRequest(st, of, from, to, tag) \subseteq Results
  <1>1. WriteChunks(st, of, from, to, tag) \in SUBSET Reached
    BY ChunksWritten
  <1>2. ASSUME NEW q \in OpenFiles, NEW r \in WrittenThrough(st, q) PROVE r \in Results
    <2> DEFINE n == Cardinality(Continuation(q))
    <2>1. n \in Nat /\ IsFiniteSet(Continuation(q)) /\ Continuation(q) \subseteq 1..MaxSize
      BY Fields, ContinuationFinite
    <2>2. CASE n > WriteThrough
      <3>1. r \in WriteThroughFlush(st, q, n - WriteThrough \div 2)
        BY <1>2, <2>2 DEF WrittenThrough
      <3>2. PICK order \in SetToSeqs(Continuation(q)) :
               r = SpillRun(order, st, q, n - WriteThrough \div 2)
        BY <3>1, SpillOrders
      <3>3. order \in Seq(Numbers) /\ Len(order) = n
        <4>1. order \in Seq(Continuation(q)) /\ Len(order) = n
          BY <2>1, OrderIs
        <4>2. Continuation(q) \subseteq Numbers
          BY <2>1 DEF Numbers
        <4>3. \A i \in 1..Len(order) : order[i] \in Numbers
          BY <4>1, <4>2
        <4> QED
          BY <4>1, <4>3
      <3>4. n - WriteThrough \div 2 \in 0..Len(order)
        BY <2>1, <2>2, <3>3, WriteThroughBounds
      <3> QED
        BY <3>2, <3>3, <3>4, Spilled
    <2>3. CASE ~(n > WriteThrough)
      <3>1. r = [ok |-> TRUE, st |-> st, of |-> q]
        BY <1>2, <2>3 DEF WrittenThrough
      <3> QED
        BY <3>1 DEF Results
    <2> QED
      BY <2>2, <2>3
  <1>3. ASSUME NEW r \in WriteRequest(st, of, from, to, tag) PROVE r \in Results
    <2>1. PICK w \in WriteChunks(st, of, from, to, tag) :
             r \in IF w.ok THEN WrittenThrough(st, w.of)
                   ELSE {[ok |-> FALSE, st |-> st, of |-> w.of]}
      BY <1>3 DEF WriteRequest
    <2>2. w.of \in OpenFiles
      BY <1>1 DEF Reached
    <2>3. CASE w.ok
      BY <1>2, <2>1, <2>2, <2>3
    <2>4. CASE ~w.ok
      <3>1. r = [ok |-> FALSE, st |-> st, of |-> w.of]
        BY <2>1, <2>4
      <3> QED
        BY <2>2, <3>1 DEF Results
    <2> QED
      BY <2>3, <2>4
  <1> QED
    BY <1>3

-----------------------------------------------------------------------------
LEMMA MapCut ==
    ASSUME NEW map \in Maps, NEW k \in Nat, k >= 1, k <= Len(map)
    PROVE  /\ SubSeq(map, 1, k) \in Maps /\ Len(SubSeq(map, 1, k)) = k
           /\ \A i \in 1..k : SubSeq(map, 1, k)[i] = map[i]
           /\ SubSeq(map, k + 1, Len(map)) \in Seq(Link)
           /\ Len(SubSeq(map, k + 1, Len(map))) = Len(map) - k
           /\ \A i \in 1..(Len(map) - k) : SubSeq(map, k + 1, Len(map))[i] = map[k + i]
  <1>1. map \in Seq(Link) /\ map[1] = None /\ Len(map) \in Nat
    BY DEF Maps
  <1>2. /\ SubSeq(map, 1, k) \in Seq(Link) /\ Len(SubSeq(map, 1, k)) = k
        /\ \A i \in 1..k : SubSeq(map, 1, k)[i] = map[i]
    BY <1>1
  <1>3. /\ SubSeq(map, k + 1, Len(map)) \in Seq(Link)
        /\ Len(SubSeq(map, k + 1, Len(map))) = Len(map) - k
        /\ \A i \in 1..(Len(map) - k) : SubSeq(map, k + 1, Len(map))[i] = map[k + i]
    BY <1>1
  <1>4. SubSeq(map, 1, k) \in Maps
    <2>1. SubSeq(map, 1, k)[1] = None
      BY <1>1, <1>2
    <2> QED
      BY <1>1, <1>2, <2>1 DEF Maps
  <1> QED
    BY <1>2, <1>3, <1>4

(* The number of chunks step 2 of flush_fh keeps.                            *)
Kept(size) == Max({Chunks(size), 1})

LEMMA KeptIs ==
    ASSUME NEW size \in Nat
    PROVE  Kept(size) \in Nat /\ Kept(size) >= 1 /\ Kept(size) = IF Chunks(size) >= 1 THEN Chunks(size) ELSE 1
  <1>1. Chunks(size) \in Nat
    BY ChunksBound
  <1> QED
    BY <1>1, MaxOfTwo DEF Kept

LEMMA FlushExcessIs ==
    ASSUME NEW st \in Stores, NEW of \in OpenFiles
    PROVE  /\ FlushExcess(st, of).st \in Stores /\ FlushExcess(st, of).of \in OpenFiles
           /\ Len(of.map) <= Kept(of.total) =>
                 FlushExcess(st, of).st = st /\ FlushExcess(st, of).of = of
           /\ Len(of.map) > Kept(of.total) =>
                 /\ FlushExcess(st, of).st =
                       FreedAll(st, Present(SubSeq(of.map, Kept(of.total) + 1, Len(of.map))))
                 /\ FlushExcess(st, of).of =
                       [of EXCEPT !.map = SubSeq(@, 1, Kept(of.total)), !.metaDirty = TRUE]
                 /\ Present(SubSeq(of.map, Kept(of.total) + 1, Len(of.map))) \in Seq(Slots)
  <1>1. of.total \in Nat /\ of.map \in Maps /\ Len(of.map) \in Nat
    BY Fields, Sizes
  <1>2. Kept(of.total) \in Nat /\ Kept(of.total) >= 1
    BY <1>1, KeptIs
  <1>3. CASE Len(of.map) <= Kept(of.total)
    BY <1>1, <1>2, <1>3 DEF FlushExcess, Kept
  <1>4. CASE ~(Len(of.map) <= Kept(of.total))
    <2>1. /\ SubSeq(of.map, 1, Kept(of.total)) \in Maps
          /\ SubSeq(of.map, Kept(of.total) + 1, Len(of.map)) \in Seq(Link)
      BY <1>1, <1>2, <1>4, MapCut
    <2>2. Present(SubSeq(of.map, Kept(of.total) + 1, Len(of.map))) \in Seq(Slots)
      BY <2>1, PresentTyped
    <2>3. FreedAll(st, Present(SubSeq(of.map, Kept(of.total) + 1, Len(of.map)))) \in Stores
      BY <2>2, StoreTyped
    <2>4. [of EXCEPT !.map = SubSeq(@, 1, Kept(of.total)), !.metaDirty = TRUE] \in OpenFiles
      BY <2>1 DEF OpenFiles
    <2> QED
      BY <1>1, <1>2, <1>4, <2>2, <2>3, <2>4 DEF FlushExcess, Kept
  <1> QED
    BY <1>3, <1>4, <1>1, <1>2

LEMMA SameSequence ==
    ASSUME NEW S, NEW T, NEW p \in Seq(S), NEW q \in Seq(T), Len(p) = Len(q),
           \A i \in 1..Len(p) : p[i] = q[i]
    PROVE  p = q
  <1>1. DOMAIN p = 1..Len(p) /\ DOMAIN q = 1..Len(q) /\ p = [i \in 1..Len(p) |-> p[i]]
        /\ q = [i \in 1..Len(q) |-> q[i]]
    OBVIOUS
  <1> QED
    BY <1>1

LEMMA Split ==
    ASSUME NEW S, NEW s \in Seq(S), NEW k \in 0..Len(s)
    PROVE  /\ SubSeq(s, 1, k) \in Seq(S) /\ Len(SubSeq(s, 1, k)) = k
           /\ \A i \in 1..k : SubSeq(s, 1, k)[i] = s[i]
           /\ SubSeq(s, k + 1, Len(s)) \in Seq(S) /\ Len(SubSeq(s, k + 1, Len(s))) = Len(s) - k
           /\ \A i \in 1..(Len(s) - k) : SubSeq(s, k + 1, Len(s))[i] = s[k + i]
           /\ s = SubSeq(s, 1, k) \o SubSeq(s, k + 1, Len(s))
  <1> DEFINE p == SubSeq(s, 1, k)
             q == SubSeq(s, k + 1, Len(s))
  <1>1. Len(s) \in Nat /\ k \in Nat /\ k <= Len(s)
    OBVIOUS
  <1>2. p \in Seq(S) /\ Len(p) = k /\ \A i \in 1..k : p[i] = s[i]
    BY <1>1
  <1>3. q \in Seq(S) /\ Len(q) = Len(s) - k /\ \A i \in 1..(Len(s) - k) : q[i] = s[k + i]
    BY <1>1
  <1> HIDE DEF p, q
  <1>4. p \o q \in Seq(S) /\ Len(p \o q) = Len(s)
    BY <1>1, <1>2, <1>3
  <1>5. ASSUME NEW i \in 1..Len(s) PROVE (p \o q)[i] = s[i]
    <2>1. CASE i <= k
      BY <1>1, <1>2, <1>3, <2>1
    <2>2. CASE ~(i <= k)
      <3>1. i - k \in 1..(Len(s) - k) /\ k + (i - k) = i
        BY <1>1, <2>2
      <3>2. (p \o q)[i] = q[i - k]
        BY <1>1, <1>2, <1>3, <2>2
      <3> QED
        BY <1>3, <3>1, <3>2
    <2> QED
      BY <2>1, <2>2
  <1>6. s = p \o q
    BY <1>4, <1>5, SameSequence
  <1> QED
    BY <1>2, <1>3, <1>6 DEF p, q

LEMMA ChunkCut ==
    ASSUME NEW data \in Chunk, NEW k \in Nat, k <= Len(data)
    PROVE  SubSeq(data, 1, k) \in Chunk /\ Len(SubSeq(data, 1, k)) = k
           /\ \A i \in 1..k : SubSeq(data, 1, k)[i] = data[i]
  <1>1. ASSUME NEW S, data \in Seq(S)
        PROVE  /\ SubSeq(data, 1, k) \in Seq(S) /\ Len(SubSeq(data, 1, k)) = k
               /\ \A i \in 1..k : SubSeq(data, 1, k)[i] = data[i]
    BY <1>1
  <1>2. data \in Seq(Byte) /\ Len(data) \in Nat /\ Len(data) <= ChunkSize
    BY ChunkFields
  <1> QED
    BY <1>1, <1>2, Sizes DEF Chunk

LEMMA ChunkLengthIs ==
    ASSUME NEW ci \in Nat, NEW size \in Nat, ci * ChunkSize < size
    PROVE  /\ ChunkLength(ci, size) \in Nat /\ ChunkLength(ci, size) >= 1
           /\ ChunkLength(ci, size) <= ChunkSize
           /\ ci * ChunkSize \in Nat /\ ci * ChunkSize + ChunkLength(ci, size) <= size
           /\ ChunkLength(ci, size) =
                 IF size - ci * ChunkSize <= ChunkSize THEN size - ci * ChunkSize ELSE ChunkSize
  <1>1. ci * ChunkSize \in Nat /\ ChunkSize \in Nat /\ ChunkSize >= 1
    BY Sizes
  <1>2. ChunkLength(ci, size) =
           IF size - ci * ChunkSize <= ChunkSize THEN size - ci * ChunkSize ELSE ChunkSize
    BY <1>1, MinOfTwo DEF ChunkLength
  <1> QED
    BY <1>1, <1>2

LEMMA HeadDataIs ==
    ASSUME NEW st \in Stores, NEW of \in OpenFiles,
           0 \in DOMAIN of.cache \/ st.node[of.head].kind = "file"
    PROVE  /\ HeadData(st, of) \in Chunk
           /\ 0 \notin DOMAIN of.cache => HeadData(st, of) = st.node[of.head].data
           /\ 0 \in DOMAIN of.cache /\ of.total = 0 => HeadData(st, of) = of.cache[0]
           /\ 0 \in DOMAIN of.cache /\ of.total # 0 =>
                 /\ Len(HeadData(st, of)) =
                       IF Len(of.cache[0]) <= ChunkLength(0, of.total) THEN Len(of.cache[0])
                       ELSE ChunkLength(0, of.total)
                 /\ \A i \in 1..Len(HeadData(st, of)) : HeadData(st, of)[i] = of.cache[0][i]
  <1>1. CASE 0 \notin DOMAIN of.cache
    <2>1. st.node[of.head] \in Nodes
      BY StoreFields, Fields
    <2> QED
      BY <1>1, <2>1, NodeFields DEF HeadData
  <1>2. CASE 0 \in DOMAIN of.cache /\ of.total = 0
    BY <1>2, Fields, CacheFields DEF HeadData
  <1>3. CASE 0 \in DOMAIN of.cache /\ of.total # 0
    <2>1. of.cache[0] \in Chunk /\ Len(of.cache[0]) \in Nat
      BY <1>3, Fields, CacheFields, ChunkFields
    <2>2. of.total \in Nat /\ 0 * ChunkSize < of.total
      BY <1>3, Fields, Sizes
    <2>3. ChunkLength(0, of.total) \in Nat
      BY <2>2, ChunkLengthIs
    <2> DEFINE k == Min({Len(of.cache[0]), ChunkLength(0, of.total)})
    <2>4. k = IF Len(of.cache[0]) <= ChunkLength(0, of.total) THEN Len(of.cache[0])
              ELSE ChunkLength(0, of.total)
      BY <2>1, <2>3, MinOfTwo
    <2>5. HeadData(st, of) = SubSeq(of.cache[0], 1, k)
      BY <1>3 DEF HeadData
    <2> HIDE DEF k
    <2>6. k \in Nat /\ k <= Len(of.cache[0])
      BY <2>1, <2>3, <2>4
    <2> QED
      BY <1>3, <2>1, <2>4, <2>5, <2>6, ChunkCut
  <1> QED
    BY <1>1, <1>2, <1>3

(* The slots the new head and its chain will name.                           *)
Named(of) == Present(SubSeq(of.map, 2, Max({1, Min({Len(of.map), Chunks(of.total)})})))

Direct(ids) == SubSeq(ids, 1, Min({Len(ids), MaxDirect}))

Indirect(ids) == SubSeq(ids, MaxDirect + 1, Len(ids))

LEMMA DirectIndirect ==
    ASSUME NEW S, NEW ids \in Seq(S)
    PROVE  /\ Direct(ids) \in Seq(S) /\ Indirect(ids) \in Seq(S)
           /\ Len(Direct(ids)) = (IF Len(ids) <= MaxDirect THEN Len(ids) ELSE MaxDirect)
           /\ Len(Indirect(ids)) = Len(ids) - Len(Direct(ids))
           /\ ids = Direct(ids) \o Indirect(ids)
           /\ Len(ids) <= MaxDirect => Indirect(ids) = <<>> /\ Direct(ids) = ids
           /\ \A i \in 1..Len(Direct(ids)) : Direct(ids)[i] = ids[i]
           /\ \A i \in 1..Len(Indirect(ids)) : Indirect(ids)[i] = ids[Len(Direct(ids)) + i]
  <1>1. Len(ids) \in Nat /\ MaxDirect \in Nat
    BY Sizes
  <1> DEFINE k == Min({Len(ids), MaxDirect})
             p == SubSeq(ids, 1, k)
             q == SubSeq(ids, k + 1, Len(ids))
  <1>2. k = (IF Len(ids) <= MaxDirect THEN Len(ids) ELSE MaxDirect) /\ k \in 0..Len(ids)
    BY <1>1, MinOfTwo
  <1> HIDE DEF k
  <1>3. p \in Seq(S) /\ Len(p) = k /\ q \in Seq(S) /\ Len(q) = Len(ids) - k /\ ids = p \o q
        /\ (\A i \in 1..k : p[i] = ids[i]) /\ (\A i \in 1..(Len(ids) - k) : q[i] = ids[k + i])
    BY <1>2, Split
  <1>4. Direct(ids) = p
    BY DEF Direct, k
  <1>5. Indirect(ids) = q
    <2>1. CASE Len(ids) <= MaxDirect
      <3>1. Indirect(ids) = <<>>
        BY <1>1, <2>1 DEF Indirect
      <3>2. q = <<>>
        BY <1>1, <1>2, <1>3, <2>1
      <3> QED
        BY <3>1, <3>2
    <2>2. CASE ~(Len(ids) <= MaxDirect)
      BY <1>2, <2>2 DEF Indirect
    <2> QED
      BY <2>1, <2>2
  <1> HIDE DEF p, q
  <1>6. Len(ids) <= MaxDirect => q = <<>> /\ p = ids
    <2> SUFFICES ASSUME Len(ids) <= MaxDirect PROVE q = <<>> /\ p = ids
      OBVIOUS
    <2>1. Len(p) = Len(ids) /\ Len(q) = 0
      BY <1>1, <1>2, <1>3
    <2>2. \A i \in 1..Len(p) : p[i] = ids[i]
      BY <1>1, <1>2, <1>3, <2>1
    <2>3. p = ids
      BY <1>3, <2>1, <2>2, SameSequence
    <2> QED
      BY <1>3, <2>1, <2>3
  <1> QED
    BY <1>2, <1>3, <1>4, <1>5, <1>6

LEMMA NamedTyped ==
    ASSUME NEW of \in OpenFiles
    PROVE  /\ Max({1, Min({Len(of.map), Chunks(of.total)})}) \in 1..Len(of.map)
           /\ SubSeq(of.map, 2, Max({1, Min({Len(of.map), Chunks(of.total)})})) \in Seq(Link)
           /\ Named(of) \in Seq(Slots)
  <1>1. of.map \in Seq(Link) /\ Len(of.map) \in Nat /\ Len(of.map) >= 1 /\ of.total \in Nat
    BY Fields, Sizes
  <1>2. Chunks(of.total) \in Nat
    BY <1>1, ChunksBound
  <1> DEFINE m == Min({Len(of.map), Chunks(of.total)})
             k == Max({1, m})
  <1>3. m \in Nat /\ m <= Len(of.map)
    BY <1>1, <1>2, MinOfTwo
  <1> HIDE DEF m
  <1>4. k \in 1..Len(of.map)
    BY <1>1, <1>3, MaxOfTwo
  <1> HIDE DEF k
  <1>5. SubSeq(of.map, 2, k) \in Seq(Link)
    BY <1>1, <1>4
  <1> QED
    BY <1>4, <1>5, PresentTyped DEF Named, k, m

(* Step 3 of flush_fh and what can become of it.                             *)
Rewritten(st, of) == ChainWritten(ChainFreed(st, of.chain), Indirect(Named(of)))

NewHead(st, of) ==
    FileBlock(of.total, Direct(Named(of)), Rewritten(st, of).chain, HeadData(st, of))

LEMMA FlushHeadIs ==
    ASSUME NEW st \in Stores, NEW of \in OpenFiles
    PROVE  /\ FlushHead(st, of) \in Results
           /\ Rewritten(st, of) \in Writings /\ ChainFreed(st, of.chain) \in Stores
           /\ FlushHead(st, of).ok =>
                 /\ 0 \in DOMAIN of.cache \/ st.node[of.head].kind = "file"
                 /\ Rewritten(st, of).ok
                 /\ FlushHead(st, of).st = Updated(Rewritten(st, of).st, of.head, NewHead(st, of))
                 /\ NewHead(st, of) \in Nodes
           /\ FlushHead(st, of).of = of \/ FlushHead(st, of).of = [of EXCEPT !.chain = Rewritten(st, of).chain]
           /\ FlushHead(st, of).ok => FlushHead(st, of).of = [of EXCEPT !.chain = Rewritten(st, of).chain]
  <1>1. of.head \in Slots /\ of.chain \in Link /\ of.total \in 0..MaxSize
    BY Fields
  <1>2. ChainFreed(st, of.chain) \in Stores
    BY <1>1, ChainFreedTyped
  <1>3. Named(of) \in Seq(Slots)
    BY NamedTyped
  <1>4. /\ Direct(Named(of)) \in Seq(Slots) /\ Len(Direct(Named(of))) <= MaxDirect
        /\ Indirect(Named(of)) \in Seq(Slots)
    <2>1. Len(Named(of)) \in Nat /\ MaxDirect \in Nat
      BY <1>3, Sizes
    <2> QED
      BY <1>3, <2>1, DirectIndirect
  <1>5. Rewritten(st, of) \in Writings
    BY <1>2, <1>4, ChainWrittenTyped DEF Rewritten
  <1>6. Rewritten(st, of).ok \in BOOLEAN /\ Rewritten(st, of).chain \in Link /\ Rewritten(st, of).st \in Stores
    BY <1>5 DEF Writings
  <1>7. [of EXCEPT !.chain = Rewritten(st, of).chain] \in OpenFiles
    BY <1>6 DEF OpenFiles
  <1> DEFINE readable == 0 \in DOMAIN of.cache \/ st.node[of.head].kind = "file"
  <1>8. FlushHead(st, of) =
           IF ~readable THEN [ok |-> FALSE, st |-> st, of |-> of]
           ELSE IF ~Rewritten(st, of).ok THEN [ok |-> FALSE, st |-> Rewritten(st, of).st, of |-> of]
           ELSE IF ~Fits(NewHead(st, of))
           THEN [ok |-> FALSE, st |-> Rewritten(st, of).st, of |-> [of EXCEPT !.chain = Rewritten(st, of).chain]]
           ELSE [ok |-> TRUE, st |-> Updated(Rewritten(st, of).st, of.head, NewHead(st, of)),
                 of |-> [of EXCEPT !.chain = Rewritten(st, of).chain]]
    BY DEF FlushHead, Rewritten, NewHead, Named, Direct, Indirect
  <1>9. readable => NewHead(st, of) \in Nodes
    <2>1. SUFFICES ASSUME readable PROVE NewHead(st, of) \in Nodes
      OBVIOUS
    <2>2. HeadData(st, of) \in Chunk
      BY <2>1, HeadDataIs
    <2> QED
      BY <1>1, <1>4, <1>6, <2>2, NodesMade DEF NewHead
  <1>10. readable => Updated(Rewritten(st, of).st, of.head, NewHead(st, of)) \in Stores
    BY <1>1, <1>6, <1>9, StoreTyped
  <1> HIDE DEF readable
  <1>11. CASE ~readable
    BY <1>2, <1>5, <1>8, <1>11 DEF Results
  <1>12. CASE readable /\ ~Rewritten(st, of).ok
    BY <1>2, <1>5, <1>6, <1>8, <1>12 DEF Results
  <1>13. CASE readable /\ Rewritten(st, of).ok /\ ~Fits(NewHead(st, of))
    BY <1>2, <1>5, <1>6, <1>7, <1>8, <1>13 DEF Results
  <1>14. CASE readable /\ Rewritten(st, of).ok /\ Fits(NewHead(st, of))
    BY <1>2, <1>5, <1>6, <1>7, <1>8, <1>9, <1>10, <1>14 DEF Results, readable
  <1> QED
    BY <1>11, <1>12, <1>13, <1>14

Settled(of) == [of EXCEPT !.dirty = {}, !.metaDirty = FALSE]

(* The handle and the store after step 2.                                    *)
Cut(st, of) == [st |-> FlushExcess(st, of).st, of |-> FlushExcess(st, of).of]

HeadDue(of) == of.metaDirty \/ 0 \in of.dirty

LEMMA FlushTailIs ==
    ASSUME NEW st \in Stores, NEW of \in OpenFiles
    PROVE  /\ FlushTail(st, of) \in Results
           /\ Cut(st, of).st \in Stores /\ Cut(st, of).of \in OpenFiles
           /\ HeadDue(Cut(st, of).of) =>
                 /\ FlushTail(st, of).ok = FlushHead(Cut(st, of).st, Cut(st, of).of).ok
                 /\ FlushTail(st, of).st = FlushHead(Cut(st, of).st, Cut(st, of).of).st
                 /\ FlushTail(st, of).ok =>
                       FlushTail(st, of).of = Settled(FlushHead(Cut(st, of).st, Cut(st, of).of).of)
           /\ ~HeadDue(Cut(st, of).of) =>
                 /\ FlushTail(st, of).ok
                 /\ FlushTail(st, of).st = Cut(st, of).st
                 /\ FlushTail(st, of).of = Settled(Cut(st, of).of)
  <1>1. Cut(st, of).st \in Stores /\ Cut(st, of).of \in OpenFiles
    BY FlushExcessIs DEF Cut
  <1> DEFINE last == IF HeadDue(Cut(st, of).of) THEN FlushHead(Cut(st, of).st, Cut(st, of).of)
                     ELSE [ok |-> TRUE, st |-> Cut(st, of).st, of |-> Cut(st, of).of]
  <1>2. last \in Results
    BY <1>1, FlushHeadIs DEF Results
  <1>3. FlushTail(st, of) = IF last.ok THEN [last EXCEPT !.of.dirty = {}, !.of.metaDirty = FALSE] ELSE last
    BY DEF FlushTail, Cut, HeadDue
  <1>4. /\ HeadDue(Cut(st, of).of) => last = FlushHead(Cut(st, of).st, Cut(st, of).of)
        /\ ~HeadDue(Cut(st, of).of) =>
              last.ok /\ last.st = Cut(st, of).st /\ last.of = Cut(st, of).of
    OBVIOUS
  <1> HIDE DEF last
  <1>5. last.ok \in BOOLEAN /\ last.st \in Stores /\ last.of \in OpenFiles
    BY <1>2 DEF Results
  <1>6. Settled(last.of) \in OpenFiles
    BY <1>5 DEF Settled, OpenFiles
  <1>7. last.ok => FlushTail(st, of) = [ok |-> last.ok, st |-> last.st, of |-> Settled(last.of)]
    BY <1>2, <1>3, <1>5 DEF Results, Settled, OpenFiles
  <1>8. ~last.ok => FlushTail(st, of) = last
    BY <1>3
  <1>9. FlushTail(st, of) \in Results
    <2>1. CASE last.ok
      <3>1. FlushTail(st, of) = [ok |-> last.ok, st |-> last.st, of |-> Settled(last.of)]
        BY <1>7, <2>1
      <3> QED
        BY <1>5, <1>6, <3>1 DEF Results
    <2>2. CASE ~last.ok
      BY <1>2, <1>8, <2>2
    <2> QED
      BY <2>1, <2>2
  <1>10. /\ FlushTail(st, of).ok = last.ok /\ FlushTail(st, of).st = last.st
         /\ last.ok => FlushTail(st, of).of = Settled(last.of)
    <2>1. CASE last.ok
      <3>1. FlushTail(st, of) = [ok |-> last.ok, st |-> last.st, of |-> Settled(last.of)]
        BY <1>7, <2>1
      <3> QED
        BY <3>1
    <2>2. CASE ~last.ok
      BY <1>8, <2>2
    <2> QED
      BY <2>1, <2>2
  <1>11. CASE HeadDue(Cut(st, of).of)
    BY <1>1, <1>4, <1>9, <1>10, <1>11
  <1>12. CASE ~HeadDue(Cut(st, of).of)
    BY <1>1, <1>4, <1>9, <1>10, <1>12
  <1> QED
    BY <1>11, <1>12

LEMMA FlushOrderTyped ==
    ASSUME NEW of \in OpenFiles, NEW order \in SetToSeqs(Continuation(of))
    PROVE  order \in Seq(Numbers)
  <1>1. IsFiniteSet(Continuation(of)) /\ Continuation(of) \subseteq 1..MaxSize
    BY Fields, ContinuationFinite
  <1>2. order \in Seq(Continuation(of))
    BY <1>1, OrderIs
  <1>3. \A i \in 1..Len(order) : order[i] \in Numbers
    BY <1>1, <1>2 DEF Numbers
  <1> QED
    BY <1>2, <1>3

LEMMA FlushFhTyped ==
    ASSUME NEW st \in Stores, NEW of \in OpenFiles, NEW r \in FlushFh(st, of)
    PROVE  /\ r \in Results
           /\ Clean(of) => r = RunStart(st, of)
           /\ ~Clean(of) =>
                 \E order \in SetToSeqs(Continuation(of)) :
                    /\ order \in Seq(Numbers)
                    /\ FlushRun(order, st, of) \in Results
                    /\ FlushRun(order, st, of).ok =>
                          r = FlushTail(FlushRun(order, st, of).st, FlushRun(order, st, of).of)
                    /\ ~FlushRun(order, st, of).ok => r = FlushRun(order, st, of)
  <1>1. CASE Clean(of)
    <2>1. r = RunStart(st, of)
      BY <1>1 DEF FlushFh, RunStart
    <2> QED
      BY <1>1, <2>1 DEF RunStart, Results
  <1>2. CASE ~Clean(of)
    <2>1. PICK w \in FlushChunks(st, of) : r = IF w.ok THEN FlushTail(w.st, w.of) ELSE w
      BY <1>2 DEF FlushFh
    <2>2. PICK order \in SetToSeqs(Continuation(of)) : w = FlushRun(order, st, of)
      BY FlushOrders
    <2>3. order \in Seq(Numbers)
      BY FlushOrderTyped
    <2>4. w \in Results
      BY <2>2, <2>3, FlushedChunks
    <2>5. w.ok => FlushTail(w.st, w.of) \in Results
      BY <2>4, FlushTailIs DEF Results
    <2>6. r \in Results
      BY <2>1, <2>4, <2>5
    <2> QED
      BY <1>2, <2>1, <2>2, <2>3, <2>4, <2>6
  <1> QED
    BY <1>1, <1>2

-----------------------------------------------------------------------------
(* setattr(size).                                                            *)

LastChunk(size) == IF size = 0 THEN 0 ELSE (size - 1) \div ChunkSize

LEMMA LastChunkIs ==
    ASSUME NEW size \in Nat
    PROVE  /\ LastChunk(size) \in Nat /\ LastChunk(size) <= size
           /\ size > 0 => LastChunk(size) = Chunks(size) - 1 /\ LastChunk(size) * ChunkSize < size
           /\ \A ci \in Nat : ci * ChunkSize < size => ci <= LastChunk(size)
  <1>1. CASE size = 0
    <2>1. \A ci \in Nat : ~(ci * ChunkSize < 0)
      BY Sizes
    <2> QED
      BY <1>1, <2>1 DEF LastChunk
  <1>2. CASE size > 0
    <2>1. size - 1 \in Nat /\ size + ChunkSize - 1 \in Nat /\ ChunkSize \in Nat /\ ChunkSize >= 1
      BY <1>2, Sizes
    <2> DEFINE q == (size - 1) \div ChunkSize
    <2>2. q \in Nat /\ q * ChunkSize <= size - 1 /\ size - 1 < q * ChunkSize + ChunkSize
      BY <2>1, Division
    <2> HIDE DEF q
    <2>3. Chunks(size) \in Nat /\ Chunks(size) <= size /\
          \A ci \in Nat : ci < Chunks(size) <=> ci * ChunkSize < size
      BY ChunksBound
    <2>4. q * ChunkSize \in Nat
      BY <2>1, <2>2
    <2>5. q < Chunks(size)
      BY <2>1, <2>2, <2>3, <2>4
    <2>6. (q + 1) * ChunkSize = q * ChunkSize + ChunkSize
      BY <2>1, <2>2
    <2>7. ~(q + 1 < Chunks(size))
      BY <2>1, <2>2, <2>3, <2>4, <2>6
    <2>8. q = Chunks(size) - 1
      BY <2>2, <2>3, <2>5, <2>7
    <2> QED
      BY <1>2, <2>1, <2>2, <2>3, <2>4, <2>8 DEF LastChunk, q
  <1> QED
    BY <1>1, <1>2

(* The cache of a handle whose file is cut to size.                          *)
CutCache(cache, size) ==
    [ci \in {k \in DOMAIN cache : k <= LastChunk(size)} |->
        IF ci = LastChunk(size)
        THEN SubSeq(cache[ci], 1, Min({Len(cache[ci]),
                                       IF size = 0 THEN 0 ELSE ChunkLength(LastChunk(size), size)}))
        ELSE cache[ci]]

LEMMA CutCacheIs ==
    ASSUME NEW cache \in Caches, NEW size \in 0..MaxSize
    PROVE  /\ CutCache(cache, size) \in Caches
           /\ DOMAIN CutCache(cache, size) = {k \in DOMAIN cache : k <= LastChunk(size)}
           /\ \A ci \in DOMAIN CutCache(cache, size) :
                 /\ ci < LastChunk(size) => CutCache(cache, size)[ci] = cache[ci]
                 /\ \A i \in 1..Len(CutCache(cache, size)[ci]) : CutCache(cache, size)[ci][i] = cache[ci][i]
                 /\ ci = LastChunk(size) =>
                       Len(CutCache(cache, size)[ci]) =
                          LET cut == IF size = 0 THEN 0 ELSE ChunkLength(LastChunk(size), size)
                          IN  IF Len(cache[ci]) <= cut THEN Len(cache[ci]) ELSE cut
  <1> DEFINE last == LastChunk(size)
             cut == IF size = 0 THEN 0 ELSE ChunkLength(LastChunk(size), size)
  <1>1. size \in Nat /\ last \in Nat
    BY Sizes, LastChunkIs
  <1>2. cut \in Nat
    <2>1. size # 0 => ChunkLength(LastChunk(size), size) \in Nat
      BY <1>1, LastChunkIs, ChunkLengthIs
    <2> QED
      BY <2>1
  <1> HIDE DEF last, cut
  <1>3. CutCache(cache, size) =
           [ci \in {k \in DOMAIN cache : k <= last} |->
              IF ci = last THEN SubSeq(cache[ci], 1, Min({Len(cache[ci]), cut})) ELSE cache[ci]]
    BY DEF CutCache, last, cut
  <1>4. \A ci \in DOMAIN cache : ci \in 0..MaxSize /\ cache[ci] \in Chunk /\ Len(cache[ci]) \in Nat
    BY CacheFields, ChunkFields
  <1>5. ASSUME NEW ci \in DOMAIN cache
        PROVE  LET data == SubSeq(cache[ci], 1, Min({Len(cache[ci]), cut}))
               IN  /\ data \in Chunk
                   /\ Len(data) = IF Len(cache[ci]) <= cut THEN Len(cache[ci]) ELSE cut
                   /\ \A i \in 1..Len(data) : data[i] = cache[ci][i]
    <2> DEFINE k == Min({Len(cache[ci]), cut})
    <2>1. cache[ci] \in Chunk /\ Len(cache[ci]) \in Nat
      BY <1>4
    <2>2. k = (IF Len(cache[ci]) <= cut THEN Len(cache[ci]) ELSE cut) /\ k \in Nat /\ k <= Len(cache[ci])
      BY <1>2, <2>1, MinOfTwo
    <2> HIDE DEF k
    <2>3. /\ SubSeq(cache[ci], 1, k) \in Chunk /\ Len(SubSeq(cache[ci], 1, k)) = k
          /\ \A i \in 1..k : SubSeq(cache[ci], 1, k)[i] = cache[ci][i]
      BY <2>1, <2>2, ChunkCut
    <2> QED
      BY <2>2, <2>3 DEF k
  <1>6. DOMAIN CutCache(cache, size) = {k \in DOMAIN cache : k <= last}
    BY <1>3
  <1>7. ASSUME NEW ci \in DOMAIN CutCache(cache, size)
        PROVE  /\ ci \in DOMAIN cache /\ ci \in 0..MaxSize /\ ci <= last
               /\ CutCache(cache, size)[ci] \in Chunk
               /\ ci < last => CutCache(cache, size)[ci] = cache[ci]
               /\ \A i \in 1..Len(CutCache(cache, size)[ci]) : CutCache(cache, size)[ci][i] = cache[ci][i]
               /\ ci = last => Len(CutCache(cache, size)[ci]) =
                                  IF Len(cache[ci]) <= cut THEN Len(cache[ci]) ELSE cut
    <2>1. ci \in DOMAIN cache /\ ci <= last /\ ci \in 0..MaxSize /\ cache[ci] \in Chunk
      BY <1>4, <1>6
    <2>2. CASE ci = last
      <3> DEFINE d == SubSeq(cache[ci], 1, Min({Len(cache[ci]), cut}))
      <3>1. CutCache(cache, size)[ci] = d
        BY <1>3, <1>6, <2>2
      <3>2. /\ d \in Chunk
            /\ Len(d) = IF Len(cache[ci]) <= cut THEN Len(cache[ci]) ELSE cut
            /\ \A i \in 1..Len(d) : d[i] = cache[ci][i]
        BY <1>5, <2>1
      <3> HIDE DEF d
      <3>3. ~(ci < last)
        BY <1>1, <2>2
      <3> QED
        BY <2>1, <3>1, <3>2, <3>3
    <2>3. CASE ci # last
      <3>1. CutCache(cache, size)[ci] = cache[ci]
        BY <1>3, <1>6, <2>3
      <3> QED
        BY <2>1, <2>3, <3>1
    <2> QED
      BY <2>2, <2>3
  <1>8. CutCache(cache, size) \in Caches
    <2>1. IsCache(CutCache(cache, size))
      <3>1. CutCache(cache, size) = [ci \in DOMAIN CutCache(cache, size) |-> CutCache(cache, size)[ci]]
        BY <1>3
      <3> QED
        BY <1>7, <3>1 DEF IsCache
    <2> QED
      BY <2>1, CacheTyped
  <1> QED
    BY <1>6, <1>7, <1>8 DEF last, cut

LEMMA ResizedIs ==
    ASSUME NEW of \in OpenFiles, NEW size \in 0..MaxSize
    PROVE  /\ Resized(of, size) \in OpenFiles
           /\ size = of.total => Resized(of, size) = of
           /\ size > of.total => Resized(of, size) = [of EXCEPT !.total = size, !.metaDirty = TRUE]
           /\ size < of.total =>
                 Resized(of, size) =
                    [of EXCEPT !.total = size, !.metaDirty = TRUE,
                               !.dirty = {ci \in @ : ci <= LastChunk(size)}
                                         \union (IF size > 0 THEN {LastChunk(size)} ELSE {}),
                               !.cache = CutCache(@, size)]
  <1>1. of.total \in 0..MaxSize /\ of.cache \in Caches /\ of.dirty \subseteq 0..MaxSize
    BY Fields
  <1>2. CASE size = of.total
    BY <1>1, <1>2, Sizes DEF Resized
  <1>3. CASE size > of.total
    <2>1. Resized(of, size) = [of EXCEPT !.total = size, !.metaDirty = TRUE]
      BY <1>1, <1>3, Sizes DEF Resized
    <2>2. [of EXCEPT !.total = size, !.metaDirty = TRUE] \in OpenFiles
      BY DEF OpenFiles
    <2> QED
      BY <1>1, <1>3, <2>1, <2>2, Sizes
  <1>4. CASE size < of.total
    <2> DEFINE dirty == {ci \in of.dirty : ci <= LastChunk(size)}
                         \union (IF size > 0 THEN {LastChunk(size)} ELSE {})
    <2>1. Resized(of, size) =
             [of EXCEPT !.total = size, !.metaDirty = TRUE, !.dirty = dirty, !.cache = CutCache(@, size)]
      BY <1>1, <1>4, Sizes DEF Resized, CutCache, LastChunk
    <2>2. LastChunk(size) \in 0..MaxSize
      BY LastChunkIs, Sizes
    <2>3. dirty \in SUBSET (0..MaxSize)
      BY <1>1, <2>2
    <2>4. CutCache(of.cache, size) \in Caches
      BY <1>1, CutCacheIs
    <2> HIDE DEF dirty
    <2>5. [of EXCEPT !.total = size, !.metaDirty = TRUE, !.dirty = dirty, !.cache = CutCache(@, size)] \in OpenFiles
      BY <2>3, <2>4 DEF OpenFiles
    <2> QED
      BY <1>1, <1>4, <2>1, <2>5, Sizes DEF dirty
  <1> QED
    BY <1>1, <1>2, <1>3, <1>4, Sizes

-----------------------------------------------------------------------------
LEMMA BlockFields ==
    /\ \A total, slots, chain, data :
          /\ FileBlock(total, slots, chain, data).kind = "file"
          /\ FileBlock(total, slots, chain, data).total = total
          /\ FileBlock(total, slots, chain, data).slots = slots
          /\ FileBlock(total, slots, chain, data).chain = chain
          /\ FileBlock(total, slots, chain, data).data = data
    /\ \A data : FileDataBlock(data).kind = "data" /\ FileDataBlock(data).data = data
    /\ \A ids, next :
          /\ FileIndexBlock(ids, next).kind = "index"
          /\ FileIndexBlock(ids, next).ids = ids /\ FileIndexBlock(ids, next).next = next
    /\ Noise.kind = "noise"
  BY DEF FileBlock, FileDataBlock, FileIndexBlock, Noise

(* The direct ids a head keeps that is cut with no handle open.              *)
KeptDirect(fb, size) == Min({Max({Chunks(size) - 1, 0}), Len(fb.slots)})

CutHead(fb, size) ==
    FileBlock(size, SubSeq(fb.slots, 1, KeptDirect(fb, size)), None,
              SubSeq(fb.data, 1, Min({Len(fb.data), size})))

Beyond(fb, size) == SubSeq(fb.slots, KeptDirect(fb, size) + 1, Len(fb.slots))

LEMMA KeptDirectIs ==
    ASSUME NEW fb, fb.slots \in Seq(Slots), NEW size \in Nat
    PROVE  /\ KeptDirect(fb, size) \in 0..Len(fb.slots)
           /\ KeptDirect(fb, size) =
                 LET want == IF Chunks(size) - 1 >= 0 THEN Chunks(size) - 1 ELSE 0
                 IN  IF want <= Len(fb.slots) THEN want ELSE Len(fb.slots)
  <1>1. Len(fb.slots) \in Nat /\ Chunks(size) \in Nat
    BY ChunksBound
  <1> DEFINE want == Max({Chunks(size) - 1, 0})
  <1>2. want = (IF Chunks(size) - 1 >= 0 THEN Chunks(size) - 1 ELSE 0) /\ want \in Nat
    BY <1>1, MaxOfTwo
  <1> HIDE DEF want
  <1>3. KeptDirect(fb, size) = Min({want, Len(fb.slots)})
    BY DEF KeptDirect, want
  <1>4. KeptDirect(fb, size) = IF want <= Len(fb.slots) THEN want ELSE Len(fb.slots)
    BY <1>1, <1>2, <1>3, MinOfTwo
  <1> QED
    BY <1>1, <1>2, <1>4

LEMMA CutHeadIs ==
    ASSUME NEW fb \in Nodes, fb.kind = "file", NEW size \in 0..MaxSize
    PROVE  /\ CutHead(fb, size) \in Nodes /\ Beyond(fb, size) \in Seq(Slots)
           /\ CutHead(fb, size).data \in Chunk
           /\ Len(CutHead(fb, size).data) = IF Len(fb.data) <= size THEN Len(fb.data) ELSE size
           /\ \A i \in 1..Len(CutHead(fb, size).data) : CutHead(fb, size).data[i] = fb.data[i]
  <1>1. /\ fb.slots \in Seq(Slots) /\ Len(fb.slots) <= MaxDirect /\ Len(fb.slots) \in Nat
        /\ fb.data \in Chunk /\ Len(fb.data) \in Nat /\ size \in Nat /\ fb.chain \in Link
    BY NodeFields, ChunkFields, Sizes
  <1> DEFINE k == KeptDirect(fb, size)
             m == Min({Len(fb.data), size})
  <1>2. k \in 0..Len(fb.slots)
    BY <1>1, KeptDirectIs
  <1>3. m = (IF Len(fb.data) <= size THEN Len(fb.data) ELSE size) /\ m \in Nat /\ m <= Len(fb.data)
    BY <1>1, MinOfTwo
  <1> HIDE DEF k, m
  <1>4. /\ SubSeq(fb.slots, 1, k) \in Seq(Slots) /\ Len(SubSeq(fb.slots, 1, k)) = k
        /\ SubSeq(fb.slots, k + 1, Len(fb.slots)) \in Seq(Slots)
    BY <1>1, <1>2, Split
  <1>5. /\ SubSeq(fb.data, 1, m) \in Chunk /\ Len(SubSeq(fb.data, 1, m)) = m
        /\ \A i \in 1..m : SubSeq(fb.data, 1, m)[i] = fb.data[i]
    BY <1>1, <1>3, ChunkCut
  <1>6. k <= MaxDirect /\ None \in Link
    BY <1>1, <1>2, Sizes DEF Link
  <1>7. CutHead(fb, size) = FileBlock(size, SubSeq(fb.slots, 1, k), None, SubSeq(fb.data, 1, m))
    BY DEF CutHead, k, m
  <1>8. CutHead(fb, size) \in Nodes
    BY <1>4, <1>5, <1>6, <1>7, NodesMade
  <1>9. CutHead(fb, size).data = SubSeq(fb.data, 1, m)
    <2> DEFINE p == SubSeq(fb.slots, 1, k)
               d == SubSeq(fb.data, 1, m)
    <2>1. CutHead(fb, size) = FileBlock(size, p, None, d)
      BY <1>7
    <2> HIDE DEF p, d
    <2>2. CutHead(fb, size).data = d
      BY <2>1 DEF FileBlock
    <2> QED
      BY <2>2 DEF d
  <1> QED
    BY <1>3, <1>4, <1>5, <1>8, <1>9 DEF Beyond, k

LEMMA ResizedOnDiskIs ==
    ASSUME NEW st \in Stores, head \in Slots, st.node[head].kind = "file", NEW size \in 0..MaxSize
    PROVE  /\ ResizedOnDisk(st, size) \in Stores
           /\ size < st.node[head].total =>
                 ResizedOnDisk(st, size) =
                    Updated(ChainFreed(FreedAll(st, Beyond(st.node[head], size)), st.node[head].chain),
                            head, CutHead(st.node[head], size))
           /\ size >= st.node[head].total =>
                 ResizedOnDisk(st, size) = Updated(st, head, [st.node[head] EXCEPT !.total = size])
  <1> DEFINE fb == st.node[head]
  <1>1. fb \in Nodes /\ fb.kind = "file"
    BY StoreFields
  <1> HIDE DEF fb
  <1>2. /\ fb.total \in 0..MaxSize /\ fb.chain \in Link /\ fb.data \in Chunk
        /\ fb.slots \in Seq(Slots) /\ Len(fb.slots) <= MaxDirect
    BY <1>1, NodeFields
  <1>3. CutHead(fb, size) \in Nodes /\ Beyond(fb, size) \in Seq(Slots)
    BY <1>1, CutHeadIs
  <1>4. FreedAll(st, Beyond(fb, size)) \in Stores
    BY <1>3, StoreTyped
  <1>5. ChainFreed(FreedAll(st, Beyond(fb, size)), fb.chain) \in Stores
    BY <1>2, <1>4, ChainFreedTyped
  <1>6. Updated(ChainFreed(FreedAll(st, Beyond(fb, size)), fb.chain), head, CutHead(fb, size)) \in Stores
    BY <1>3, <1>5, StoreTyped
  <1>7. [fb EXCEPT !.total = size] \in Nodes
    <2>1. [fb EXCEPT !.total = size] = FileBlock(size, fb.slots, fb.chain, fb.data)
      BY <1>1 DEF Nodes, Noise, FileBlock
    <2> QED
      BY <1>2, <2>1, NodesMade
  <1>8. Updated(st, head, [fb EXCEPT !.total = size]) \in Stores
    BY <1>7, StoreTyped
  <1>9. ResizedOnDisk(st, size) =
           IF size < fb.total
           THEN Updated(ChainFreed(FreedAll(st, Beyond(fb, size)), fb.chain), head, CutHead(fb, size))
           ELSE Updated(st, head, [fb EXCEPT !.total = size])
    BY DEF ResizedOnDisk, Beyond, CutHead, KeptDirect, fb
  <1>10. size \in Int /\ fb.total \in Int
    BY <1>2, Sizes
  <1> QED
    BY <1>6, <1>8, <1>9, <1>10 DEF fb

-----------------------------------------------------------------------------
LEMMA OpenedIs ==
    ASSUME NEW st \in Stores, head \in Slots
    PROVE  /\ Opened(st).ok <=> st.node[head].kind = "file"
                                /\ IndexChain(st, st.node[head].chain).ok
           /\ Opened(st).ok =>
                 /\ Opened(st).of \in OpenFiles
                 /\ Opened(st).of.head = head /\ Opened(st).of.total = st.node[head].total
                 /\ Opened(st).of.chain = st.node[head].chain
                 /\ Opened(st).of.map =
                       <<None>> \o st.node[head].slots \o IndexChain(st, st.node[head].chain).ids
                 /\ Opened(st).of.cache =
                       [ci \in (IF st.node[head].data = <<>> THEN {} ELSE {0}) |-> st.node[head].data]
                 /\ Opened(st).of.dirty = {} /\ ~Opened(st).of.metaDirty
  <1> DEFINE fb == st.node[head]
             index == IndexChain(st, fb.chain)
             data == IF fb.data = <<>> THEN {} ELSE {0}
             of == [head |-> head, total |-> fb.total, chain |-> fb.chain,
                    map |-> <<None>> \o fb.slots \o index.ids,
                    cache |-> [ci \in data |-> fb.data],
                    dirty |-> {}, metaDirty |-> FALSE]
  <1>1. Opened(st) = IF fb.kind # "file" THEN [ok |-> FALSE]
                     ELSE IF ~index.ok THEN [ok |-> FALSE] ELSE [ok |-> TRUE, of |-> of]
    BY DEF Opened
  <1>2. fb \in Nodes
    BY StoreFields
  <1> HIDE DEF fb
  <1>3. ASSUME fb.kind = "file" PROVE of \in OpenFiles
    <2>1. /\ fb.total \in 0..MaxSize /\ fb.chain \in Link /\ fb.data \in Chunk
          /\ fb.slots \in Seq(Slots) /\ Len(fb.slots) <= MaxDirect
      BY <1>2, <1>3, NodeFields
    <2>2. index \in Walks
      BY <2>1, IndexChainTyped
    <2> HIDE DEF index
    <2>3. fb.slots \in Seq(Link) /\ index.ids \in Seq(Link)
      BY <2>1, <2>2 DEF Walks, Link
    <2>4. <<None>> \in Seq(Link) /\ Len(<<None>>) = 1 /\ <<None>>[1] = None
      BY DEF Link
    <2> DEFINE m == <<None>> \o fb.slots
    <2>5. m \in Seq(Link) /\ Len(m) >= 1 /\ m[1] = None /\ Len(m) \in Nat
      BY <2>3, <2>4
    <2> HIDE DEF m
    <2>6. m \o index.ids \in Seq(Link) /\ Len(m \o index.ids) >= 1 /\ (m \o index.ids)[1] = None
      BY <2>3, <2>5
    <2>7. <<None>> \o fb.slots \o index.ids \in Maps
      BY <2>6 DEF Maps, m
    <2>8. [ci \in data |-> fb.data] \in Caches
      <3>1. IsCache([ci \in data |-> fb.data])
        BY <2>1, Sizes DEF IsCache
      <3> QED
        BY <3>1, CacheTyped
    <2> HIDE DEF data
    <2> QED
      BY <2>1, <2>7, <2>8 DEF OpenFiles
  <1>4. CASE fb.kind # "file"
    BY <1>1, <1>4 DEF fb
  <1>5. CASE fb.kind = "file" /\ ~index.ok
    BY <1>1, <1>5 DEF fb
  <1>6. CASE fb.kind = "file" /\ index.ok
    <2>1. Opened(st) = [ok |-> TRUE, of |-> of]
      BY <1>1, <1>6
    <2>2. of \in OpenFiles
      BY <1>3, <1>6
    <2>3. Opened(st).ok /\ Opened(st).of = of
      BY <2>1
    <2>4. /\ of.head = head /\ of.total = fb.total /\ of.chain = fb.chain
          /\ of.map = <<None>> \o fb.slots \o index.ids
          /\ of.cache = [ci \in data |-> fb.data]
          /\ of.dirty = {} /\ ~of.metaDirty
      OBVIOUS
    <2> HIDE DEF of
    <2> QED
      BY <1>6, <2>2, <2>3, <2>4 DEF fb
  <1> QED
    BY <1>4, <1>5, <1>6

LEMMA NewHandleTyped ==
    ASSUME NEW s \in Slots
    PROVE  NewHandle(s) \in OpenFiles
  <1>1. [ci \in {} |-> <<>>] \in Caches
    <2>1. IsCache([ci \in {} |-> <<>>])
      BY DEF IsCache
    <2> QED
      BY <2>1, CacheTyped
  <1>2. <<None>> \in Maps
    <2>1. <<None>> \in Seq(Link) /\ Len(<<None>>) = 1 /\ <<None>>[1] = None
      BY DEF Link
    <2> QED
      BY <2>1 DEF Maps
  <1> QED
    BY <1>1, <1>2, Sizes DEF NewHandle, OpenFiles, Link

-----------------------------------------------------------------------------
(* Every handle flushed.                                                     *)

Flushed == [ok: BOOLEAN, st: Stores]

FlushEach(order, i, rs) ==
    UNION {{[ok |-> r.ok /\ f.ok, st |-> f.st] : f \in FlushFh(r.st, files[order[i]])} : r \in rs}

FlushAllRun(order, st) ==
    Iterate(LAMBDA i, rs : FlushEach(order, i, rs), {[ok |-> TRUE, st |-> st]}, Len(order))

LEMMA FlushAllOrders ==
    ASSUME NEW st, NEW r \in FlushAll(st)
    PROVE  \E order \in SetToSeqs(DOMAIN files) : r \in FlushAllRun(order, st)
  <1>1. FlushAll(st) = UNION {FlushAllRun(order, st) : order \in SetToSeqs(DOMAIN files)}
    BY DEF FlushAll, FlushAllRun, FlushEach, Iterate
  <1> QED
    BY <1>1

(* The rounds of the flush of every handle. *)
LEMMA FlushedAll ==
    ASSUME NEW st \in Stores, NEW order \in Seq(DOMAIN files),
           \A h \in DOMAIN files : files[h] \in OpenFiles
    PROVE  \E f \in [0..Len(order) -> (SUBSET Flushed)] :
              /\ f[0] = {[ok |-> TRUE, st |-> st]}
              /\ \A i \in 1..Len(order) : f[i] = FlushEach(order, i, f[i - 1])
              /\ FlushAllRun(order, st) = f[Len(order)] /\ FlushAllRun(order, st) \in (SUBSET Flushed)
  <1> DEFINE n == Len(order)
             S == (SUBSET Flushed)
             start == {[ok |-> TRUE, st |-> st]}
             Round(i, r) == FlushEach(order, i, r)
             g == CHOOSE g : g = [i \in 0..n |-> IF i = 0 THEN start ELSE Round(i, g[i - 1])]
             step == [i \in 1..n |-> [r \in S |-> Round(i, r)]]
  <1>1. FlushAllRun(order, st) = g[n]
    BY DEF FlushAllRun, FlushEach, Iterate
  <1>2. n \in Nat /\ start \in S
    BY DEF Flushed
  <1>3. ASSUME NEW i \in 1..n, NEW r \in S PROVE Round(i, r) \in S
    <2>1. files[order[i]] \in OpenFiles
      OBVIOUS
    <2>2. ASSUME NEW q \in r, NEW f \in FlushFh(q.st, files[order[i]])
          PROVE  [ok |-> q.ok /\ f.ok, st |-> f.st] \in Flushed
      <3>1. f \in Results
        BY <2>1, FlushFhTyped DEF Flushed
      <3> QED
        BY <3>1 DEF Flushed, Results
    <2> QED
      BY <2>2 DEF FlushEach
  <1> HIDE DEF n, start, Round, S
  <1>4. step \in [1..n -> [S -> S]]
    BY <1>3
  <1>5. Rounds(n, S, start, step) # {}
    <2> HIDE DEF step
    <2> QED
      BY <1>2, <1>4, Recursion
  <1>6. PICK f \in Rounds(n, S, start, step) : TRUE
    BY <1>5
  <1>7. f \in [0..n -> S] /\ f[0] = start /\ \A i \in 1..n : f[i] = step[i][f[i - 1]]
    <2> HIDE DEF step
    <2> QED
      BY <1>6 DEF Rounds
  <1>8. ASSUME NEW i \in 1..n PROVE f[i] = Round(i, f[i - 1])
    <2>1. i - 1 \in 0..n /\ f[i - 1] \in S
      BY <1>2, <1>7
    <2> QED
      BY <1>7, <2>1
  <1>9. f = [i \in 0..n |-> IF i = 0 THEN start ELSE Round(i, f[i - 1])]
    <2>1. \A i \in 0..n : f[i] = IF i = 0 THEN start ELSE Round(i, f[i - 1])
      BY <1>2, <1>7, <1>8
    <2> QED
      BY <1>7, <2>1
  <1>10. g = [i \in 0..n |-> IF i = 0 THEN start ELSE Round(i, g[i - 1])]
    BY <1>9
  <1> HIDE DEF g, step
  <1>11. ASSUME NEW i \in 0..n PROVE g[i] = f[i]
    <2> DEFINE P == {k \in 0..n : g[k] = f[k]}
    <2>1. 0 \in P
      BY <1>2, <1>7, <1>10
    <2>2. \A k \in 1..n : k - 1 \in P => k \in P
      BY <1>2, <1>8, <1>10
    <2> HIDE DEF P
    <2>3. \A k \in 0..n : k \in P
      BY <1>2, <2>1, <2>2, Induction
    <2> QED
      BY <2>3 DEF P
  <1>12. FlushAllRun(order, st) = f[n] /\ f[n] \in S
    BY <1>1, <1>2, <1>7, <1>11
  <1> QED
    BY <1>7, <1>8, <1>12 DEF n, start, Round, S


LEMMA FlushAllTyped ==
    ASSUME NEW st \in Stores, IsFiniteSet(DOMAIN files),
           \A h \in DOMAIN files : files[h] \in OpenFiles
    PROVE  FlushAll(st) \subseteq Flushed
  <1> SUFFICES ASSUME NEW r \in FlushAll(st) PROVE r \in Flushed
    OBVIOUS
  <1>1. PICK order \in SetToSeqs(DOMAIN files) : r \in FlushAllRun(order, st)
    BY FlushAllOrders
  <1>2. order \in Seq(DOMAIN files)
    BY OrderIs
  <1>3. FlushAllRun(order, st) \in SUBSET Flushed
    BY <1>2, FlushedAll
  <1> QED
    BY <1>1, <1>3

-----------------------------------------------------------------------------
(* The types are kept by every request.                                      *)

Typed == TypeOK /\ IsFiniteSet(DOMAIN files)

LEMMA StateTyped ==
    ASSUME Typed
    PROVE  /\ store \in Stores /\ head \in Link /\ held \subseteq DOMAIN files
           /\ \A h \in DOMAIN files : files[h] \in OpenFiles
           /\ files = [h \in DOMAIN files |-> files[h]]
           /\ DOMAIN files \subseteq Handles /\ IsFiniteSet(DOMAIN files)
           /\ content \in Seq(Byte) /\ Len(content) <= MaxSize /\ Len(content) \in Nat
           /\ writes \in 0..MaxWrites /\ failed \in BOOLEAN
           /\ head # None => head \in Slots
  BY OpenFileTyped DEF Typed, TypeOK, Link

(* What a step must show for the types.                                      *)
FilesTyped(fs) ==
    /\ fs = [h \in DOMAIN fs |-> fs[h]]
    /\ DOMAIN fs \subseteq Handles /\ IsFiniteSet(DOMAIN fs)
    /\ \A h \in DOMAIN fs : fs[h] \in OpenFiles

LEMMA TypedFrom ==
    ASSUME store' \in Stores, head' \in Link, FilesTyped(files'), held' \subseteq DOMAIN files',
           content' \in Seq(Byte), Len(content') <= MaxSize,
           writes' \in 0..MaxWrites, failed' \in BOOLEAN
    PROVE  Typed'
  BY OpenFileTyped DEF Typed, TypeOK, FilesTyped

LEMMA FilesKept ==
    ASSUME FilesTyped(files), NEW h \in Handles, NEW of \in OpenFiles
    PROVE  /\ FilesTyped([k \in DOMAIN files \union {h} |-> IF k = h THEN of ELSE files[k]])
           /\ h \in DOMAIN files => FilesTyped([files EXCEPT ![h] = of])
  <1>1. IsFiniteSet(DOMAIN files \union {h})
    BY FS_AddElement DEF FilesTyped
  <1>2. FilesTyped([k \in DOMAIN files \union {h} |-> IF k = h THEN of ELSE files[k]])
    BY <1>1 DEF FilesTyped
  <1>3. h \in DOMAIN files => FilesTyped([files EXCEPT ![h] = of])
    BY DEF FilesTyped
  <1> QED
    BY <1>2, <1>3

LEMMA FilesClosed ==
    ASSUME FilesTyped(files), held \subseteq DOMAIN files, NEW hs, Closed(hs)
    PROVE  FilesTyped(files') /\ held' \subseteq DOMAIN files' /\ DOMAIN files' = DOMAIN files \ hs
           /\ \A h \in DOMAIN files' : files'[h] = files[h]
  <1>1. files' = [h \in DOMAIN files \ hs |-> files[h]] /\ held' = held \ hs
    BY DEF Closed, Restrict
  <1>2. IsFiniteSet(DOMAIN files \ hs)
    BY FS_Subset DEF FilesTyped
  <1> QED
    BY <1>1, <1>2 DEF FilesTyped

LEMMA SizeOfIs ==
    ASSUME NEW bytes \in Seq(Byte), NEW size \in Nat
    PROVE  /\ SizeOf(bytes, size) \in Seq(Byte) /\ Len(SizeOf(bytes, size)) = size
           /\ \A i \in 1..size : SizeOf(bytes, size)[i] = IF i <= Len(bytes) THEN bytes[i] ELSE 0
  <1>1. \A i \in 1..size : (IF i <= Len(bytes) THEN bytes[i] ELSE 0) \in Byte
    <2>1. 0 \in Byte
      BY Sizes DEF Byte
    <2> QED
      BY <2>1
  <1> QED
    BY <1>1 DEF SizeOf

LEMMA TypedStart == Init => Typed
  <1> SUFFICES ASSUME Init PROVE Typed
    OBVIOUS
  <1>1. DOMAIN files = {} /\ files = [h \in DOMAIN files |-> files[h]]
    BY DEF Init
  <1>2. store \in Stores
    BY NodesMade DEF Init, Stores
  <1>3. IsFiniteSet(DOMAIN files)
    BY <1>1, FS_EmptySet
  <1>4. content \in Seq(Byte) /\ Len(content) <= MaxSize /\ writes \in 0..MaxWrites
    BY Sizes DEF Init
  <1>5. head \in Link /\ held \subseteq DOMAIN files /\ failed \in BOOLEAN
    BY DEF Init, Link
  <1> QED
    BY <1>1, <1>2, <1>3, <1>4, <1>5 DEF Typed, TypeOK

-----------------------------------------------------------------------------
(* The requests: what each leaves behind.                                    *)

(* One handle has changed. *)
Changed(h, of) ==
    /\ h \in DOMAIN files /\ of \in OpenFiles
    /\ files' = [files EXCEPT ![h] = of]
    /\ DOMAIN files' = DOMAIN files
    /\ files'[h] = of /\ \A g \in DOMAIN files : g # h => files'[g] = files[g]
    /\ FilesTyped(files') /\ held \subseteq DOMAIN files'

LEMMA HandleChanged ==
    ASSUME Typed, NEW h \in DOMAIN files, NEW of \in OpenFiles, files' = [files EXCEPT ![h] = of]
    PROVE  Changed(h, of)
  <1>1. FilesTyped(files) /\ held \subseteq DOMAIN files /\ h \in Handles
    BY StateTyped DEF FilesTyped
  <1>2. FilesTyped(files')
    BY <1>1, FilesKept
  <1> QED
    BY <1>1, <1>2 DEF Changed

(* A handle has been added. *)
Added(h, of) ==
    /\ h \in Handles \ DOMAIN files /\ of \in OpenFiles
    /\ DOMAIN files' = DOMAIN files \union {h}
    /\ files'[h] = of /\ \A g \in DOMAIN files : files'[g] = files[g]
    /\ FilesTyped(files') /\ held' = held \union {h} /\ held' \subseteq DOMAIN files'

LEMMA HandleAdded ==
    ASSUME Typed, NEW h \in Handles \ DOMAIN files, NEW of \in OpenFiles, Handed(h, of)
    PROVE  Added(h, of)
  <1>1. FilesTyped(files) /\ held \subseteq DOMAIN files
    BY StateTyped DEF FilesTyped
  <1>2. files' = [k \in DOMAIN files \union {h} |-> IF k = h THEN of ELSE files[k]]
        /\ held' = held \union {h}
    BY DEF Handed
  <1>3. FilesTyped(files')
    BY <1>1, <1>2, FilesKept
  <1> QED
    BY <1>1, <1>2, <1>3 DEF Added

NoHandles(fs, hs) == DOMAIN fs = {} /\ FilesTyped(fs) /\ hs = {}

LEMMA AllClosed ==
    ASSUME Typed, Closed(DOMAIN files)
    PROVE  NoHandles(files', held')
  <1>1. FilesTyped(files) /\ held \subseteq DOMAIN files
    BY StateTyped DEF FilesTyped
  <1>2. FilesTyped(files') /\ held' \subseteq DOMAIN files' /\ DOMAIN files' = DOMAIN files \ DOMAIN files
    BY <1>1, FilesClosed
  <1> QED
    BY <1>2 DEF NoHandles

EmptyHead == FileBlock(0, <<>>, None, <<>>)

LEMMA EmptyHeadTyped == EmptyHead \in Nodes
  <1>1. <<>> \in Chunk /\ None \in Link /\ 0 \in 0..MaxSize /\ <<>> \in Seq(Slots) /\ Len(<<>>) <= MaxDirect
    BY Sizes DEF Chunk, Link
  <1> QED
    BY <1>1, NodesMade DEF EmptyHead

LEMMA CreateIs ==
    ASSUME Typed, Create
    PROVE  /\ head = None /\ HasSpace(store) /\ head' = NextFree(store) /\ head' \in Slots
           /\ store' = Written(store, EmptyHead) /\ store' \in Stores
           /\ content' = <<>> /\ writes' = writes /\ failed' = failed
           /\ \E h \in Handles : Added(h, NewHandle(head'))
  <1>1. HasSpace(store) /\ head' = NextFree(store) /\ head' \in Slots
    BY NextFreeFree DEF Create
  <1>2. store' = Written(store, EmptyHead)
    BY DEF Create, EmptyHead
  <1>3. store' \in Stores
    BY <1>1, <1>2, EmptyHeadTyped, StateTyped, StoreTyped
  <1>4. PICK h \in Handles \ DOMAIN files : Handed(h, NewHandle(NextFree(store)))
    BY DEF Create
  <1>5. Added(h, NewHandle(head'))
    BY <1>1, <1>4, NewHandleTyped, HandleAdded
  <1> QED
    BY <1>1, <1>2, <1>3, <1>5 DEF Create

LEMMA OpenIs ==
    ASSUME Typed, Open
    PROVE  /\ head \in Slots /\ Opened(store).ok /\ Opened(store).of \in OpenFiles
           /\ UNCHANGED <<store, head, content, writes, failed>>
           /\ \E h \in Handles : Added(h, Opened(store).of)
  <1>1. head \in Slots /\ Opened(store).ok /\ store \in Stores
    BY StateTyped DEF Open
  <1>2. Opened(store).of \in OpenFiles
    BY <1>1, OpenedIs
  <1>3. PICK h \in Handles \ DOMAIN files : Handed(h, Opened(store).of)
    BY DEF Open
  <1>4. Added(h, Opened(store).of)
    BY <1>2, <1>3, HandleAdded
  <1> QED
    BY <1>1, <1>2, <1>4 DEF Open

LEMMA ReadIs ==
    ASSUME Typed, Read
    PROVE  /\ UNCHANGED <<store, head, held, content, writes, failed>>
           /\ \E h \in held, ci \in 0..MaxSize : \E r \in EnsureCached(store, files[h], ci) :
                 r \in Reached /\ Changed(h, r.of) /\ ci * ChunkSize < files[h].total
  <1>1. PICK h \in held : \E ci \in 0..(Chunks(files[h].total) - 1) :
           \E r \in EnsureCached(store, files[h], ci) : files' = [files EXCEPT ![h] = r.of]
    BY DEF Read
  <1>2. PICK ci \in 0..(Chunks(files[h].total) - 1) :
           \E r \in EnsureCached(store, files[h], ci) : files' = [files EXCEPT ![h] = r.of]
    BY <1>1
  <1>3. PICK r \in EnsureCached(store, files[h], ci) : files' = [files EXCEPT ![h] = r.of]
    BY <1>2
  <1>4. h \in DOMAIN files /\ files[h] \in OpenFiles /\ store \in Stores
    BY StateTyped
  <1>5. ci \in 0..MaxSize /\ ci * ChunkSize < files[h].total
    <2>1. files[h].total \in Nat /\ files[h].total <= MaxSize
      BY <1>4, Fields, Sizes
    <2>2. Chunks(files[h].total) <= files[h].total /\ Chunks(files[h].total) \in Nat
          /\ \A k \in Nat : k < Chunks(files[h].total) <=> k * ChunkSize < files[h].total
      BY <2>1, ChunksBound
    <2>3. ci \in Nat /\ ci < Chunks(files[h].total)
      BY <2>2
    <2> QED
      BY <2>1, <2>2, <2>3, Sizes
  <1>6. r \in Reached
    BY <1>4, <1>5, EnsureCachedTyped
  <1>7. Changed(h, r.of)
    BY <1>3, <1>4, <1>6, HandleChanged DEF Reached
  <1> QED
    BY <1>3, <1>5, <1>6, <1>7 DEF Read

LEMMA WriteIs ==
    ASSUME Typed, Write
    PROVE  /\ writes' \in Byte /\ writes' = writes + 1 /\ UNCHANGED <<head, held>>
           /\ \E h \in held, from \in 0..MaxSize, to \in 0..MaxSize :
                 /\ from < to /\ ("seek" \notin Requests => from <= Len(content))
                 /\ content' = Overlaid(content, from, to, writes')
                 /\ content' \in Seq(Byte) /\ Len(content') <= MaxSize
                 /\ Len(content') = (IF Len(content) >= to THEN Len(content) ELSE to)
                 /\ \E r \in WriteRequest(store, files[h], from, to, writes') :
                       /\ r \in Results /\ Changed(h, r.of)
                       /\ store' = r.st /\ failed' = (failed \/ ~r.ok)
  <1>1. PICK h \in held, len \in WriteLengths :
           \E from \in 0..(IF "seek" \in Requests THEN MaxSize ELSE Len(content)) :
              /\ from + len <= MaxSize
              /\ \E r \in WriteRequest(store, files[h], from, from + len, writes') :
                    /\ store' = r.st
                    /\ files' = [files EXCEPT ![h] = r.of]
                    /\ failed' = (failed \/ ~r.ok)
              /\ content' = Overlaid(content, from, from + len, writes')
    BY DEF Write
  <1>2. PICK from \in 0..(IF "seek" \in Requests THEN MaxSize ELSE Len(content)) :
              /\ from + len <= MaxSize
              /\ \E r \in WriteRequest(store, files[h], from, from + len, writes') :
                    /\ store' = r.st
                    /\ files' = [files EXCEPT ![h] = r.of]
                    /\ failed' = (failed \/ ~r.ok)
              /\ content' = Overlaid(content, from, from + len, writes')
    BY <1>1
  <1>3. PICK r \in WriteRequest(store, files[h], from, from + len, writes') :
                    /\ store' = r.st
                    /\ files' = [files EXCEPT ![h] = r.of]
                    /\ failed' = (failed \/ ~r.ok)
    BY <1>2
  <1> DEFINE to == from + len
  <1>4. /\ store \in Stores /\ files[h] \in OpenFiles /\ h \in DOMAIN files
        /\ content \in Seq(Byte) /\ Len(content) <= MaxSize /\ Len(content) \in Nat
    BY StateTyped
  <1>5. len \in Nat /\ len >= 1 /\ from \in Nat
    BY <1>4, Sizes
  <1>6. from \in 0..MaxSize /\ to \in 0..MaxSize /\ from < to
        /\ ("seek" \notin Requests => from <= Len(content))
    BY <1>2, <1>4, <1>5, Sizes
  <1>13. writes \in 0..MaxWrites
    BY StateTyped
  <1>7. writes' = writes + 1 /\ writes' \in Byte /\ UNCHANGED <<head, held>>
    <2>1. writes < MaxWrites /\ writes' = writes + 1 /\ UNCHANGED <<head, held>>
      BY DEF Write
    <2> QED
      BY <1>13, <2>1, Sizes DEF Byte
  <1>8. content' = Overlaid(content, from, to, writes')
        /\ r \in WriteRequest(store, files[h], from, to, writes')
    BY <1>2, <1>3
  <1> HIDE DEF to
  <1>9. r \in Results
    BY <1>4, <1>6, <1>7, <1>8, WriteRequestTyped
  <1>10. Changed(h, r.of)
    BY <1>3, <1>4, <1>9, HandleChanged DEF Results
  <1>11. /\ content' \in Seq(Byte) /\ Len(content') = (IF Len(content) >= to THEN Len(content) ELSE to)
         /\ Len(content') <= MaxSize
    <2>1. from \in Nat /\ to \in Int /\ to <= MaxSize
      BY <1>6
    <2>2. content' \in Seq(Byte) /\ Len(content') = (IF Len(content) >= to THEN Len(content) ELSE to)
      BY <1>4, <1>7, <1>8, <2>1, OverlaidIs
    <2> QED
      BY <1>4, <2>1, <2>2
  <1>12. \E r2 \in WriteRequest(store, files[h], from, to, writes') :
                       /\ r2 \in Results /\ Changed(h, r2.of)
                       /\ store' = r2.st /\ failed' = (failed \/ ~r2.ok)
    BY <1>3, <1>8, <1>9, <1>10
  <1> QED
    BY <1>6, <1>7, <1>8, <1>11, <1>12

LEMMA SizesAskedIs ==
    ASSUME Typed, NEW size \in SizesAsked
    PROVE  /\ size \in 0..MaxSize /\ size \in Nat /\ size <= MaxSize /\ size # Len(content)
           /\ "truncate" \notin Requests => size > Len(content)
           /\ "extend" \notin Requests => size < Len(content)
           /\ SizeOf(content, size) \in Seq(Byte) /\ Len(SizeOf(content, size)) = size
           /\ \A i \in 1..size : SizeOf(content, size)[i] = IF i <= Len(content) THEN content[i] ELSE 0
  <1>1. /\ size \in 0..MaxSize /\ size \in Nat /\ size <= MaxSize /\ size # Len(content)
        /\ "truncate" \notin Requests => size > Len(content)
        /\ "extend" \notin Requests => size < Len(content)
    BY StateTyped, Sizes DEF SizesAsked
  <1> QED
    BY <1>1, StateTyped, SizeOfIs

LEMMA SetSizeIs ==
    ASSUME Typed, SetSize
    PROVE  /\ UNCHANGED <<store, head, held, writes, failed>>
           /\ \E h \in DOMAIN files, size \in SizesAsked :
                 content' = SizeOf(content, size) /\ Changed(h, Resized(files[h], size))
  <1>1. PICK h \in DOMAIN files, size \in SizesAsked :
           files' = [files EXCEPT ![h] = Resized(@, size)] /\ content' = SizeOf(content, size)
    BY DEF SetSize
  <1>2. files' = [files EXCEPT ![h] = Resized(files[h], size)]
    BY <1>1
  <1>3. Resized(files[h], size) \in OpenFiles
    BY StateTyped, SizesAskedIs, ResizedIs
  <1>4. Changed(h, Resized(files[h], size))
    BY <1>2, <1>3, HandleChanged
  <1> QED
    BY <1>1, <1>4 DEF SetSize

LEMMA SetSizeOnDiskIs ==
    ASSUME Typed, SetSizeOnDisk
    PROVE  /\ UNCHANGED <<head, files, held, writes, failed>>
           /\ "closed size" \in Requests /\ DOMAIN files = {}
           /\ head \in Slots /\ store.node[head].kind = "file"
           /\ \E size \in SizesAsked :
                 /\ content' = SizeOf(content, size)
                 /\ store' = ResizedOnDisk(store, size) /\ store' \in Stores
  <1>1. PICK size \in SizesAsked : store' = ResizedOnDisk(store, size) /\ content' = SizeOf(content, size)
    BY DEF SetSizeOnDisk
  <1>2. head \in Slots /\ store.node[head].kind = "file"
    BY StateTyped DEF SetSizeOnDisk
  <1>3. store' \in Stores
    BY <1>1, <1>2, StateTyped, SizesAskedIs, ResizedOnDiskIs
  <1> QED
    BY <1>1, <1>2, <1>3 DEF SetSizeOnDisk

LEMMA FlushIs ==
    ASSUME Typed, Flush
    PROVE  /\ UNCHANGED <<head, held, content, writes>>
           /\ \E h \in held : \E r \in FlushFh(store, files[h]) :
                 r \in Results /\ Changed(h, r.of) /\ store' = r.st /\ failed' = (failed \/ ~r.ok)
  <1>1. PICK h \in held : \E r \in FlushFh(store, files[h]) :
              /\ store' = r.st
              /\ files' = [files EXCEPT ![h] = r.of]
              /\ failed' = (failed \/ ~r.ok)
    BY DEF Flush
  <1>2. PICK r \in FlushFh(store, files[h]) :
              /\ store' = r.st
              /\ files' = [files EXCEPT ![h] = r.of]
              /\ failed' = (failed \/ ~r.ok)
    BY <1>1
  <1>3. h \in DOMAIN files /\ files[h] \in OpenFiles /\ store \in Stores
    BY StateTyped
  <1>4. r \in Results
    BY <1>3, FlushFhTyped
  <1>5. Changed(h, r.of)
    BY <1>2, <1>3, <1>4, HandleChanged DEF Results
  <1> QED
    BY <1>2, <1>4, <1>5 DEF Flush

LEMMA ReleaseIs ==
    ASSUME Typed, Release
    PROVE  /\ UNCHANGED <<head, content, writes>>
           /\ \E h \in held : \E r \in FlushFh(store, files[h]) :
                 /\ r \in Results /\ store' = r.st /\ failed' = (failed \/ ~r.ok)
                 /\ r.ok => /\ DOMAIN files' = DOMAIN files \ {h}
                            /\ \A g \in DOMAIN files' : files'[g] = files[g]
                            /\ FilesTyped(files') /\ held' = held \ {h}
                 /\ ~r.ok => Changed(h, r.of) /\ held' = held \ {h}
                 /\ held' \subseteq DOMAIN files' /\ h \in DOMAIN files
  <1>1. PICK h \in held : \E r \in FlushFh(store, files[h]) :
            /\ store' = r.st
            /\ IF r.ok THEN Closed({h})
               ELSE files' = [files EXCEPT ![h] = r.of] /\ held' = held \ {h}
            /\ failed' = (failed \/ ~r.ok)
    BY DEF Release
  <1>2. PICK r \in FlushFh(store, files[h]) :
            /\ store' = r.st
            /\ IF r.ok THEN Closed({h})
               ELSE files' = [files EXCEPT ![h] = r.of] /\ held' = held \ {h}
            /\ failed' = (failed \/ ~r.ok)
    BY <1>1
  <1>3. h \in DOMAIN files /\ files[h] \in OpenFiles /\ store \in Stores /\ held \subseteq DOMAIN files
        /\ FilesTyped(files)
    BY StateTyped DEF FilesTyped
  <1>4. r \in Results
    BY <1>3, FlushFhTyped
  <1>5. CASE r.ok
    <2>1. /\ FilesTyped(files') /\ held' \subseteq DOMAIN files'
          /\ DOMAIN files' = DOMAIN files \ {h}
          /\ \A g \in DOMAIN files' : files'[g] = files[g]
      BY <1>2, <1>3, <1>5, FilesClosed
    <2>2. held' = held \ {h}
      BY <1>2, <1>5 DEF Closed
    <2> QED
      BY <1>2, <1>3, <1>4, <1>5, <2>1, <2>2 DEF Release
  <1>6. CASE ~r.ok
    <2>1. Changed(h, r.of)
      BY <1>2, <1>3, <1>4, <1>6, HandleChanged DEF Results
    <2>2. held' \subseteq DOMAIN files'
      BY <1>2, <1>3, <1>6, <2>1 DEF Changed
    <2> QED
      BY <1>2, <1>3, <1>4, <1>6, <2>1, <2>2 DEF Release
  <1> QED
    BY <1>5, <1>6

(* What op_unlink makes of the volume. *)
Unlinked(st, s) ==
    IF st.node[s].kind = "file"
    THEN Freed(ChainFreed(FreedAll(st, st.node[s].slots), st.node[s].chain), s)
    ELSE Freed(st, s)

LEMMA UnlinkIs ==
    ASSUME Typed, Unlink
    PROVE  /\ head \in Slots /\ head' = None /\ content' = <<>> /\ UNCHANGED <<writes, failed>>
           /\ DOMAIN files = {} => "unlink" \in Requests
           /\ DOMAIN files # {} => "unlink open" \in Requests
           /\ store' = Unlinked(store, head) /\ store' \in Stores
           /\ NoHandles(files', held')
  <1> DEFINE fb == store.node[head]
  <1>1. head \in Slots /\ store \in Stores /\ fb \in Nodes
    BY StateTyped, StoreFields DEF Unlink
  <1>2. store' = Unlinked(store, head)
    BY DEF Unlink, Unlinked
  <1>3. fb.kind = "file" =>
           /\ fb.slots \in Seq(Slots) /\ fb.chain \in Link
           /\ ChainFreed(FreedAll(store, fb.slots), fb.chain) \in Stores
    BY <1>1, NodeFields, StoreTyped, ChainFreedTyped
  <1>4. store' \in Stores
    BY <1>1, <1>2, <1>3, StoreTyped DEF Unlinked
  <1>5. NoHandles(files', held')
    BY AllClosed DEF Unlink
  <1> QED
    BY <1>1, <1>2, <1>4, <1>5 DEF Unlink

(* The store as the next mount finds it. *)
Mounted(st) == [st EXCEPT !.free = [s \in Slots |-> Min({@[s], 1})]]

LEMMA RemountIs ==
    ASSUME Typed, Remount
    PROVE  /\ UNCHANGED <<head, content, writes>> /\ NoHandles(files', held')
           /\ \E r \in FlushAll(store) :
                 /\ r \in Flushed /\ store' = Mounted(r.st) /\ store' \in Stores
                 /\ failed' = (failed \/ ~r.ok)
  <1>1. PICK r \in FlushAll(store) : store' = Mounted(r.st) /\ failed' = (failed \/ ~r.ok)
    BY DEF Remount, Mounted
  <1>2. r \in Flushed
    BY StateTyped, FlushAllTyped
  <1>3. r.st \in Stores /\ r.ok \in BOOLEAN
    BY <1>2 DEF Flushed
  <1>4. store' \in Stores
    <2>1. \A s \in Slots : Min({r.st.free[s], 1}) \in Nat
      BY <1>3, StoreFields, MinOfTwo
    <2> QED
      BY <1>1, <1>3, <2>1 DEF Stores, Mounted
  <1>5. NoHandles(files', held')
    BY AllClosed DEF Remount
  <1> QED
    BY <1>1, <1>2, <1>4, <1>5 DEF Remount

LEMMA TypedStep == Typed /\ [Next]_vars => Typed'
  <1> SUFFICES ASSUME Typed, [Next]_vars PROVE Typed'
    OBVIOUS
  <1>1. /\ store \in Stores /\ head \in Link /\ held \subseteq DOMAIN files
        /\ content \in Seq(Byte) /\ Len(content) <= MaxSize
        /\ writes \in 0..MaxWrites /\ failed \in BOOLEAN /\ FilesTyped(files)
    BY StateTyped DEF FilesTyped
  <1>2. <<>> \in Seq(Byte) /\ Len(<<>>) <= MaxSize /\ None \in Link
    BY Sizes DEF Link
  <1>3. CASE Create
    <2>1. PICK h \in Handles : Added(h, NewHandle(head'))
      BY <1>3, CreateIs
    <2>2. store' \in Stores /\ head' \in Link /\ content' = <<>> /\ writes' = writes /\ failed' = failed
      BY <1>3, CreateIs DEF Link
    <2> QED
      BY <1>1, <1>2, <2>1, <2>2, TypedFrom DEF Added
  <1>4. CASE Open
    <2>1. PICK h \in Handles : Added(h, Opened(store).of)
      BY <1>4, OpenIs
    <2>2. UNCHANGED <<store, head, content, writes, failed>>
      BY <1>4, OpenIs
    <2> QED
      BY <1>1, <2>1, <2>2, TypedFrom DEF Added
  <1>5. CASE Read
    <2>1. FilesTyped(files') /\ held \subseteq DOMAIN files'
      BY <1>5, ReadIs DEF Changed
    <2>2. UNCHANGED <<store, head, held, content, writes, failed>>
      BY <1>5, ReadIs
    <2> QED
      BY <1>1, <2>1, <2>2, TypedFrom
  <1>6. CASE Write
    <2>1. writes' \in 0..MaxWrites /\ UNCHANGED <<head, held>>
      BY <1>6, WriteIs DEF Byte
    <2>2. /\ FilesTyped(files') /\ held \subseteq DOMAIN files' /\ store' \in Stores
          /\ failed' \in BOOLEAN /\ content' \in Seq(Byte) /\ Len(content') <= MaxSize
      <3>1. PICK h \in held, from \in 0..MaxSize, to \in 0..MaxSize :
                 /\ content' \in Seq(Byte) /\ Len(content') <= MaxSize
                 /\ \E r \in WriteRequest(store, files[h], from, to, writes') :
                       /\ r \in Results /\ Changed(h, r.of)
                       /\ store' = r.st /\ failed' = (failed \/ ~r.ok)
        BY <1>6, WriteIs
      <3>2. PICK r \in Results : Changed(h, r.of) /\ store' = r.st /\ failed' = (failed \/ ~r.ok)
        BY <3>1
      <3> QED
        BY <1>1, <3>1, <3>2 DEF Changed, Results
    <2> QED
      BY <1>1, <2>1, <2>2, TypedFrom
  <1>7. CASE SetSize
    <2>1. PICK h \in DOMAIN files, size \in SizesAsked :
             content' = SizeOf(content, size) /\ Changed(h, Resized(files[h], size))
      BY <1>7, SetSizeIs
    <2>2. content' \in Seq(Byte) /\ Len(content') <= MaxSize
      BY <2>1, SizesAskedIs
    <2>3. UNCHANGED <<store, head, held, writes, failed>>
      BY <1>7, SetSizeIs
    <2> QED
      BY <1>1, <2>1, <2>2, <2>3, TypedFrom DEF Changed
  <1>8. CASE SetSizeOnDisk
    <2>1. PICK size \in SizesAsked : content' = SizeOf(content, size) /\ store' \in Stores
      BY <1>8, SetSizeOnDiskIs
    <2>2. content' \in Seq(Byte) /\ Len(content') <= MaxSize
      BY <2>1, SizesAskedIs
    <2>3. UNCHANGED <<head, files, held, writes, failed>>
      BY <1>8, SetSizeOnDiskIs
    <2> QED
      BY <1>1, <2>1, <2>2, <2>3, TypedFrom
  <1>9. CASE Flush
    <2>1. PICK h \in held, r \in Results : Changed(h, r.of) /\ store' = r.st /\ failed' = (failed \/ ~r.ok)
      BY <1>9, FlushIs
    <2>2. UNCHANGED <<head, held, content, writes>>
      BY <1>9, FlushIs
    <2> QED
      BY <1>1, <2>1, <2>2, TypedFrom DEF Changed, Results
  <1>10. CASE Release
    <2>1. PICK r \in Results : /\ store' = r.st /\ failed' = (failed \/ ~r.ok)
                               /\ FilesTyped(files') /\ held' \subseteq DOMAIN files'
      BY <1>10, ReleaseIs DEF Changed
    <2>2. UNCHANGED <<head, content, writes>>
      BY <1>10, ReleaseIs
    <2> QED
      BY <1>1, <2>1, <2>2, TypedFrom DEF Results
  <1>11. CASE Unlink
    <2>1. /\ store' \in Stores /\ head' = None /\ content' = <<>> /\ UNCHANGED <<writes, failed>>
          /\ FilesTyped(files') /\ held' \subseteq DOMAIN files'
      BY <1>11, UnlinkIs DEF NoHandles
    <2> QED
      BY <1>1, <1>2, <2>1, TypedFrom
  <1>12. CASE Remount
    <2>1. PICK r \in Flushed : store' \in Stores /\ failed' = (failed \/ ~r.ok)
      BY <1>12, RemountIs
    <2>2. UNCHANGED <<head, content, writes>> /\ FilesTyped(files') /\ held' \subseteq DOMAIN files'
      BY <1>12, RemountIs DEF NoHandles
    <2> QED
      BY <1>1, <2>1, <2>2, TypedFrom DEF Flushed
  <1>13. CASE UNCHANGED vars
    BY <1>1, <1>13, TypedFrom DEF vars
  <1> QED
    BY <1>3, <1>4, <1>5, <1>6, <1>7, <1>8, <1>9, <1>10, <1>11, <1>12, <1>13 DEF Next

LEMMA TypedAlways == Spec => []Typed
  BY TypedStart, TypedStep, PTL DEF Spec

THEOREM TypeCorrect == Spec => []TypeOK
  <1>1. Typed => TypeOK
    BY DEF Typed
  <1> QED
    BY <1>1, TypedAlways, PTL

-----------------------------------------------------------------------------
(* There is one head, and it says no more bytes than the file has.           *)

OnlyHead(st, s, n) ==
    \A t \in Slots : st.node[t].kind = "file" => t = s /\ st.node[t].total <= n

LEMMA OnlyHeadKept ==
    ASSUME NEW st \in Stores, NEW s, NEW n, OnlyHead(st, s, n)
    PROVE  /\ \A t \in Slots, node \in Nodes :
                 node.kind # "file" \/ (t = s /\ node.total <= n) => OnlyHead(Updated(st, t, node), s, n)
           /\ \A t \in Slots : OnlyHead(Freed(st, t), s, n)
           /\ \A ids \in Seq(Slots) : OnlyHead(FreedAll(st, ids), s, n)
           /\ \A node \in Nodes :
                 HasSpace(st) /\ node.kind # "file" => OnlyHead(Written(st, node), s, n)
  <1>1. ASSUME NEW t \in Slots, NEW node \in Nodes, node.kind # "file" \/ (t = s /\ node.total <= n)
        PROVE  OnlyHead(Updated(st, t, node), s, n)
    BY <1>1, StoreFields DEF OnlyHead, Updated, Stores
  <1>2. ASSUME NEW t \in Slots PROVE OnlyHead(Freed(st, t), s, n)
    BY BlockFields, StoreFields DEF OnlyHead, Freed
  <1>3. ASSUME NEW ids \in Seq(Slots) PROVE OnlyHead(FreedAll(st, ids), s, n)
    BY BlockFields, StoreFields DEF OnlyHead, FreedAll
  <1>4. ASSUME NEW node \in Nodes, HasSpace(st), node.kind # "file"
        PROVE  OnlyHead(Written(st, node), s, n)
    <2>1. NextFree(st) \in Slots
      BY <1>4, NextFreeFree
    <2> QED
      BY <1>4, <2>1, StoreFields DEF OnlyHead, Written
  <1> QED
    BY <1>1, <1>2, <1>3, <1>4

LEMMA OnlyHeadChainFreed ==
    ASSUME NEW st \in Stores, NEW s, NEW n, OnlyHead(st, s, n), NEW first \in Link
    PROVE  OnlyHead(ChainFreed(st, first), s, n)
  <1> DEFINE k == Cardinality(Slots) + 1
  <1>1. k \in Nat
    BY SlotNumbers
  <1>2. PICK f \in [0..k -> Freeings] :
           /\ f[0] = [st |-> st, next |-> first]
           /\ \A i \in 1..k : f[i] = FreeNext(f[i - 1])
           /\ FreeWalk(st, first) = f[k]
    BY FreeWalked
  <1> HIDE DEF k
  <1> DEFINE P == {i \in 0..k : OnlyHead(f[i].st, s, n)}
  <1>3. 0 \in P
    BY <1>1, <1>2
  <1>4. ASSUME NEW i \in 1..k, i - 1 \in P PROVE i \in P
    <2>1. f[i - 1] \in Freeings /\ f[i] = FreeNext(f[i - 1]) /\ OnlyHead(f[i - 1].st, s, n)
      BY <1>1, <1>2, <1>4
    <2>2. f[i - 1].next # None => OnlyHead(Freed(f[i - 1].st, f[i - 1].next), s, n)
      BY <2>1, OnlyHeadKept DEF Freeings, Link
    <2> QED
      BY <2>1, <2>2 DEF FreeNext
  <1> HIDE DEF P
  <1>5. \A i \in 0..k : i \in P
    BY <1>1, <1>3, <1>4, Induction
  <1> QED
    BY <1>1, <1>2, <1>5, ChainFreedIs DEF P

LEMMA OnlyHeadChainWritten ==
    ASSUME NEW st \in Stores, NEW s, NEW n, OnlyHead(st, s, n), NEW ids \in Seq(Slots)
    PROVE  OnlyHead(ChainWritten(st, ids).st, s, n)
  <1> DEFINE k == Len(ids)
  <1>1. k \in Nat
    OBVIOUS
  <1>2. PICK f \in [0..k -> Writings] :
           /\ f[0] = WriteStart(st, ids)
           /\ \A i \in 1..k : f[i] = WriteBlock(f[i - 1])
           /\ ChainWritten(st, ids) = f[k]
    BY ChainWrote
  <1> HIDE DEF k
  <1> DEFINE P == {i \in 0..k : OnlyHead(f[i].st, s, n)}
  <1>3. 0 \in P
    BY <1>1, <1>2 DEF WriteStart
  <1>4. ASSUME NEW i \in 1..k, i - 1 \in P PROVE i \in P
    <2> DEFINE r == f[i - 1]
               q == SubSeq(r.ids, Rest(r.ids) + 1, Len(r.ids))
               node == FileIndexBlock(q, r.chain)
    <2>1. r \in Writings /\ f[i] = WriteBlock(r) /\ OnlyHead(r.st, s, n)
      BY <1>1, <1>2, <1>4
    <2> HIDE DEF r
    <2>2. r.ids \in Seq(Slots) /\ r.st \in Stores /\ r.chain \in Link
      BY <2>1 DEF Writings
    <2>a. r.ids # <<>> => q \in Seq(Slots) /\ Len(q) <= MaxIndex
      BY <2>2, RestBounds
    <2>b. f[i] = IF r.ids = <<>> \/ ~r.ok THEN r
                 ELSE IF ~HasSpace(r.st) THEN [r EXCEPT !.ok = FALSE]
                 ELSE [ok |-> TRUE, ids |-> SubSeq(r.ids, 1, Rest(r.ids)), chain |-> NextFree(r.st),
                       st |-> Written(r.st, node)]
      BY <2>1 DEF WriteBlock
    <2> HIDE DEF q
    <2>3. r.ids # <<>> => node \in Nodes /\ node.kind # "file"
      BY <2>2, <2>a, NodesMade DEF FileIndexBlock
    <2>4. r.ids # <<>> /\ HasSpace(r.st) => OnlyHead(Written(r.st, node), s, n)
      BY <2>1, <2>2, <2>3, OnlyHeadKept
    <2>5. OnlyHead(f[i].st, s, n)
      BY <2>1, <2>4, <2>b DEF Writings
    <2> QED
      BY <1>1, <2>5
  <1> HIDE DEF P
  <1>5. \A i \in 0..k : i \in P
    BY <1>1, <1>3, <1>4, Induction
  <1> QED
    BY <1>1, <1>2, <1>5 DEF P

(* The handle of a flush keeps its head and its end.                         *)
LEMMA WriteBackKeeps ==
    ASSUME NEW st \in Stores, NEW of \in OpenFiles, NEW ci \in Numbers
    PROVE  /\ WriteBack(st, of, ci) \in Results
           /\ WriteBack(st, of, ci).of.head = of.head /\ WriteBack(st, of, ci).of.total = of.total
           /\ WriteBack(st, of, ci).of.chain = of.chain /\ WriteBack(st, of, ci).of.cache = of.cache
           /\ WriteBack(st, of, ci).of.dirty = of.dirty
           /\ Len(WriteBack(st, of, ci).of.map) = Len(of.map)
           /\ \A s, n : OnlyHead(st, s, n) => OnlyHead(WriteBack(st, of, ci).st, s, n)
  <1>1. WriteBack(st, of, ci) \in Results
    BY WriteBackTyped DEF Numbers
  <1>2. CASE ci \notin DOMAIN of.cache \/ ci >= Len(of.map)
    <2>1. WriteBack(st, of, ci) = [ok |-> TRUE, st |-> st, of |-> of]
      BY <1>2 DEF WriteBack
    <2> QED
      BY <1>1, <2>1
  <1>3. CASE ci \in DOMAIN of.cache /\ ci < Len(of.map)
    <2>1. ci + 1 \in 1..Len(of.map) /\ of.map[ci + 1] \in Link /\ of.map \in Seq(Link)
          /\ ~(ci \notin DOMAIN of.cache \/ ci >= Len(of.map))
      BY <1>3, Fields, Sizes DEF Numbers
    <2>2. FileDataBlock(of.cache[ci]) \in Nodes /\ FileDataBlock(of.cache[ci]).kind # "file"
      BY <1>3, Fields, CacheFields, NodesMade, BlockFields
    <2>3. CASE of.map[ci + 1] # None
      <3>1. WriteBack(st, of, ci) =
               [ok |-> TRUE, of |-> of, st |-> Updated(st, of.map[ci + 1], FileDataBlock(of.cache[ci]))]
        BY <2>1, <2>3 DEF WriteBack
      <3>2. of.map[ci + 1] \in Slots
        BY <2>1, <2>3 DEF Link
      <3> QED
        BY <1>1, <2>2, <3>1, <3>2, OnlyHeadKept
    <2>4. CASE of.map[ci + 1] = None /\ HasSpace(st)
      <3> DEFINE new == [of EXCEPT !.map[ci + 1] = NextFree(st), !.metaDirty = TRUE]
      <3>1. WriteBack(st, of, ci) =
               [ok |-> TRUE, st |-> Written(st, FileDataBlock(of.cache[ci])), of |-> new]
        BY <2>1, <2>4 DEF WriteBack
      <3>2. /\ new.head = of.head /\ new.total = of.total /\ new.chain = of.chain
            /\ new.cache = of.cache /\ new.dirty = of.dirty
            /\ new.map = [of.map EXCEPT ![ci + 1] = NextFree(st)]
        BY DEF OpenFiles
      <3> HIDE DEF new
      <3>3. Len(new.map) = Len(of.map)
        BY <2>1, <3>2
      <3> QED
        BY <1>1, <2>2, <2>4, <3>1, <3>2, <3>3, OnlyHeadKept
    <2>5. CASE of.map[ci + 1] = None /\ ~HasSpace(st)
      <3>1. WriteBack(st, of, ci) = [ok |-> FALSE, st |-> st, of |-> of]
        BY <2>1, <2>5 DEF WriteBack
      <3> QED
        BY <1>1, <3>1
    <2> QED
      BY <2>3, <2>4, <2>5
  <1> QED
    BY <1>2, <1>3, Fields, Sizes DEF Numbers

LEMMA DroppedKeeps ==
    ASSUME NEW of \in OpenFiles, NEW ci
    PROVE  /\ Dropped(of, ci) \in OpenFiles
           /\ Dropped(of, ci).head = of.head /\ Dropped(of, ci).total = of.total
           /\ Dropped(of, ci).chain = of.chain /\ Dropped(of, ci).map = of.map
           /\ Dropped(of, ci).metaDirty = of.metaDirty
           /\ ci \in DOMAIN of.cache /\ ci < Len(of.map) =>
                 /\ Dropped(of, ci).dirty = of.dirty \ {ci}
                 /\ Dropped(of, ci).cache = Restrict(of.cache, DOMAIN of.cache \ {ci})
           /\ ~(ci \in DOMAIN of.cache /\ ci < Len(of.map)) => Dropped(of, ci) = of
  <1>1. Dropped(of, ci) \in OpenFiles
    BY DroppedTyped
  <1> QED
    BY <1>1 DEF Dropped, OpenFiles

LEMMA SpillKeeps ==
    ASSUME NEW st \in Stores, NEW of \in OpenFiles, NEW order \in Seq(Numbers), NEW k \in 0..Len(order)
    PROVE  /\ SpillRun(order, st, of, k).of.head = of.head
           /\ SpillRun(order, st, of, k).of.total = of.total
           /\ \A s, n : OnlyHead(st, s, n) => OnlyHead(SpillRun(order, st, of, k).st, s, n)
  <1>1. k \in Nat /\ Len(order) \in Nat
    OBVIOUS
  <1>2. PICK f \in [0..k -> Results] :
           /\ f[0] = RunStart(st, of)
           /\ \A i \in 1..k : f[i] = SpillNext(order, i, f[i - 1])
           /\ SpillRun(order, st, of, k) = f[k]
    BY Spilled
  <1> DEFINE Same(r) == /\ r.of.head = of.head /\ r.of.total = of.total
                        /\ \A s, n : OnlyHead(st, s, n) => OnlyHead(r.st, s, n)
             P == {i \in 0..k : Same(f[i])}
  <1>3. 0 \in P
    BY <1>1, <1>2 DEF RunStart
  <1>4. ASSUME NEW i \in 1..k, i - 1 \in P PROVE i \in P
    <2> DEFINE r == f[i - 1]
               w == WriteBack(r.st, r.of, order[i])
    <2>1. r \in Results /\ f[i] = SpillNext(order, i, r) /\ Same(r)
      BY <1>1, <1>2, <1>4
    <2> HIDE DEF r
    <2>2. r.st \in Stores /\ r.of \in OpenFiles
      BY <2>1 DEF Results
    <2>3. order[i] \in Numbers
      BY <1>1
    <2>4. w \in Results /\ Same(w)
      BY <2>1, <2>2, <2>3, WriteBackKeeps
    <2> HIDE DEF w
    <2>5. f[i] = IF ~r.ok THEN r ELSE IF ~w.ok THEN w ELSE [w EXCEPT !.of = Dropped(@, order[i])]
      BY <2>1 DEF SpillNext, w
    <2>6. Dropped(w.of, order[i]).head = w.of.head /\ Dropped(w.of, order[i]).total = w.of.total
      BY <2>4, DroppedKeeps DEF Results
    <2>7. Same([w EXCEPT !.of = Dropped(@, order[i])])
      BY <2>4, <2>6 DEF Results
    <2>8. Same(f[i])
      BY <2>1, <2>4, <2>5, <2>7
    <2> QED
      BY <1>1, <2>8
  <1> HIDE DEF P
  <1>5. \A i \in 0..k : i \in P
    BY <1>1, <1>3, <1>4, Induction
  <1> QED
    BY <1>1, <1>2, <1>5 DEF P

LEMMA FlushRunKeeps ==
    ASSUME NEW st \in Stores, NEW of \in OpenFiles, NEW order \in Seq(Numbers)
    PROVE  /\ FlushRun(order, st, of) \in Results
           /\ FlushRun(order, st, of).of.head = of.head
           /\ FlushRun(order, st, of).of.total = of.total
           /\ FlushRun(order, st, of).of.chain = of.chain
           /\ FlushRun(order, st, of).of.cache = of.cache
           /\ FlushRun(order, st, of).of.dirty = of.dirty
           /\ Len(FlushRun(order, st, of).of.map) = Len(of.map)
           /\ \A s, n : OnlyHead(st, s, n) => OnlyHead(FlushRun(order, st, of).st, s, n)
  <1> DEFINE k == Len(order)
  <1>1. k \in Nat
    OBVIOUS
  <1>2. PICK f \in [0..k -> Results] :
           /\ f[0] = RunStart(st, of)
           /\ \A i \in 1..k : f[i] = FlushNext(order, i, f[i - 1])
           /\ FlushRun(order, st, of) = f[k]
    BY FlushedChunks
  <1>3. \A i \in 1..k : order[i] \in Numbers
    OBVIOUS
  <1> HIDE DEF k
  <1> DEFINE Same(r) == /\ r.of.head = of.head /\ r.of.total = of.total /\ r.of.chain = of.chain
                        /\ r.of.cache = of.cache /\ r.of.dirty = of.dirty
                        /\ Len(r.of.map) = Len(of.map)
                        /\ \A s, n : OnlyHead(st, s, n) => OnlyHead(r.st, s, n)
             P == {i \in 0..k : Same(f[i])}
  <1>4. 0 \in P
    BY <1>1, <1>2 DEF RunStart
  <1>5. ASSUME NEW i \in 1..k, i - 1 \in P PROVE i \in P
    <2> DEFINE r == f[i - 1]
    <2>1. r \in Results /\ f[i] = FlushNext(order, i, r) /\ Same(r)
      BY <1>1, <1>2, <1>5
    <2> HIDE DEF r
    <2>2. r.st \in Stores /\ r.of \in OpenFiles
      BY <2>1 DEF Results
    <2>3. Same(WriteBack(r.st, r.of, order[i]))
      BY <1>3, <2>1, <2>2, WriteBackKeeps
    <2>4. Same(f[i])
      BY <2>1, <2>3 DEF FlushNext
    <2> QED
      BY <1>1, <2>4
  <1> HIDE DEF P
  <1>6. \A i \in 0..k : i \in P
    BY <1>1, <1>4, <1>5, Induction
  <1> QED
    BY <1>1, <1>2, <1>6 DEF P

-----------------------------------------------------------------------------
(* What ensure_cached and a write leave of a handle.                         *)

(* The same handle with another cache. *)
SameButCache(new, of) ==
    /\ new.head = of.head /\ new.total = of.total /\ new.chain = of.chain /\ new.map = of.map
    /\ new.dirty = of.dirty /\ new.metaDirty = of.metaDirty

LEMMA EnsureCachedKeeps ==
    ASSUME NEW st \in Stores, NEW of \in OpenFiles, NEW ci \in 0..MaxSize,
           NEW r \in EnsureCached(st, of, ci)
    PROVE  /\ r \in Reached /\ SameButCache(r.of, of)
           /\ r.ok => ci \in DOMAIN r.of.cache
           /\ ~r.ok => r.of = of
           /\ of.dirty \intersect DOMAIN of.cache \subseteq DOMAIN r.of.cache
           /\ \A k \in DOMAIN r.of.cache :
                 \/ k \in DOMAIN of.cache /\ r.of.cache[k] = of.cache[k]
                 \/ /\ k = ci /\ k \notin DOMAIN of.cache /\ Loaded(st, of, ci) # EIO
                    /\ r.of.cache[k] = Loaded(st, of, ci)
  <1>1. r \in Reached
    BY EnsureCachedTyped
  <1>2. CASE ci \in DOMAIN of.cache
    BY <1>1, <1>2 DEF EnsureCached, SameButCache
  <1>3. CASE ci \notin DOMAIN of.cache /\ Loaded(st, of, ci) = EIO
    BY <1>1, <1>3 DEF EnsureCached, SameButCache
  <1>4. CASE ci \notin DOMAIN of.cache /\ Loaded(st, of, ci) # EIO
    <2>1. PICK c \in Evictions(of) :
             r = [ok |-> TRUE, of |-> [of EXCEPT !.cache = Caching(c, ci, Loaded(st, of, ci))]]
      BY <1>4 DEF EnsureCached
    <2>2. r.ok /\ r.of.cache = Caching(c, ci, Loaded(st, of, ci)) /\ SameButCache(r.of, of)
      BY <2>1 DEF OpenFiles, SameButCache
    <2>3. PICK D \in SUBSET DOMAIN of.cache :
             c = Restrict(of.cache, D) /\ of.dirty \intersect DOMAIN of.cache \subseteq D
      BY EvictionsAre
    <2>4. DOMAIN r.of.cache = D \union {ci}
          /\ \A k \in D \union {ci} :
                r.of.cache[k] = IF k = ci THEN Loaded(st, of, ci) ELSE of.cache[k]
      BY <2>2, <2>3 DEF Caching, Restrict
    <2> QED
      BY <1>1, <1>4, <2>2, <2>3, <2>4
  <1> QED
    BY <1>2, <1>3, <1>4

LEMMA WriteReadyKeeps ==
    ASSUME NEW st \in Stores, NEW of \in OpenFiles, NEW ci \in 0..MaxSize,
           NEW r \in WriteReady(st, of, ci)
    PROVE  /\ r \in Reached /\ SameButCache(r.of, of)
           /\ r.ok => ci \in DOMAIN r.of.cache
           /\ of.dirty \intersect DOMAIN of.cache \subseteq DOMAIN r.of.cache
           /\ \A k \in DOMAIN r.of.cache :
                 \/ k \in DOMAIN of.cache /\ r.of.cache[k] = of.cache[k]
                 \/ /\ k = ci /\ k \notin DOMAIN of.cache
                    /\ \/ r.of.cache[k] = Loaded(st, of, ci) /\ Loaded(st, of, ci) # EIO
                          /\ ~(ci # 0 /\ of.map[ci + 1] = None)
                       \/ r.of.cache[k] = Zeros(ChunkSize) /\ ci # 0 /\ of.map[ci + 1] = None
  <1>1. CASE ci # 0 /\ ci \notin DOMAIN of.cache /\ of.map[ci + 1] = None
    <2>1. r = [ok |-> TRUE, of |-> [of EXCEPT !.cache = Caching(@, ci, Zeros(ChunkSize))]]
      BY <1>1 DEF WriteReady
    <2>2. r.of.cache = Caching(of.cache, ci, Zeros(ChunkSize)) /\ SameButCache(r.of, of)
      BY <2>1 DEF OpenFiles, SameButCache
    <2>3. r \in Reached /\ (r.ok => ci \in DOMAIN r.of.cache)
      BY WriteReadyTyped
    <2>4. DOMAIN r.of.cache = DOMAIN of.cache \union {ci}
          /\ \A k \in DOMAIN of.cache \union {ci} :
                r.of.cache[k] = IF k = ci THEN Zeros(ChunkSize) ELSE of.cache[k]
      BY <2>2 DEF Caching
    <2> QED
      BY <1>1, <2>2, <2>3, <2>4
  <1>2. CASE ~(ci # 0 /\ ci \notin DOMAIN of.cache /\ of.map[ci + 1] = None)
    <2>1. r \in EnsureCached(st, of, ci)
      BY <1>2, Zenon DEF WriteReady
    <2>2. /\ r \in Reached /\ SameButCache(r.of, of)
          /\ r.ok => ci \in DOMAIN r.of.cache
          /\ of.dirty \intersect DOMAIN of.cache \subseteq DOMAIN r.of.cache
          /\ \A k \in DOMAIN r.of.cache :
                 \/ k \in DOMAIN of.cache /\ r.of.cache[k] = of.cache[k]
                 \/ /\ k = ci /\ k \notin DOMAIN of.cache /\ Loaded(st, of, ci) # EIO
                    /\ r.of.cache[k] = Loaded(st, of, ci)
      BY <2>1, EnsureCachedKeeps
    <2> QED
      BY <1>2, <2>2
  <1> QED
    BY <1>1, <1>2

(* What one chunk of a write that succeeds makes of a handle. *)
LEMMA WriteChunkKeeps ==
    ASSUME NEW st \in Stores, NEW of \in OpenFiles, NEW ci \in 0..MaxSize,
           NEW from \in 0..MaxSize, NEW to \in 0..MaxSize, NEW tag \in Byte,
           NEW r \in WriteChunk(st, of, ci, from, to, tag)
    PROVE  /\ r \in Reached /\ r.of.head = of.head /\ r.of.chain = of.chain
           /\ r.of.map = MapExtended(of, ci).map
           /\ ~r.ok => r.of.total = of.total
           /\ r.ok =>
                 /\ r.of.total = (IF of.total >= to THEN of.total ELSE to)
                 /\ r.of.dirty = of.dirty \union {ci} /\ ci \in DOMAIN r.of.cache
                 /\ of.dirty \intersect DOMAIN of.cache \subseteq DOMAIN r.of.cache
                 /\ r.of.metaDirty = (of.metaDirty \/ ci >= Len(of.map) \/ to > of.total)
                 /\ \A k \in DOMAIN r.of.cache :
                       \/ k # ci /\ k \in DOMAIN of.cache /\ r.of.cache[k] = of.cache[k]
                       \/ k = ci /\ \E data \in Chunk :
                             /\ r.of.cache[k] = Overlaid(data, Low(ci, from), High(ci, to), tag)
                             /\ \/ k \in DOMAIN of.cache /\ data = of.cache[k]
                                \/ /\ k \notin DOMAIN of.cache
                                   /\ \/ /\ data = Loaded(st, MapExtended(of, ci), ci)
                                         /\ ~(ci # 0 /\ MapExtended(of, ci).map[ci + 1] = None)
                                      \/ /\ data = Zeros(ChunkSize) /\ ci # 0
                                         /\ MapExtended(of, ci).map[ci + 1] = None
  <1> DEFINE of2 == MapExtended(of, ci)
  <1>1. of2 \in OpenFiles
    BY MapExtendedIs
  <1>2. /\ of2.head = of.head /\ of2.total = of.total /\ of2.chain = of.chain
        /\ of2.cache = of.cache /\ of2.dirty = of.dirty
        /\ of2.metaDirty = (of.metaDirty \/ ci >= Len(of.map))
    <2>1. Len(of.map) \in Nat /\ ci \in Nat
      BY Fields
    <2>2. CASE ci < Len(of.map)
      <3>1. of2 = of
        BY <2>2, MapExtendedIs
      <3>2. ~(ci >= Len(of.map))
        BY <2>1, <2>2
      <3>a. of.metaDirty \in BOOLEAN
        BY Fields
      <3>3. of.metaDirty = (of.metaDirty \/ ci >= Len(of.map))
        BY <3>2, <3>a
      <3> QED
        BY <3>1, <3>3, Zenon
    <2>3. CASE ci >= Len(of.map)
      <3>1. of2 = [of EXCEPT !.map = of2.map, !.metaDirty = TRUE]
        BY <2>3, MapExtendedIs
      <3> QED
        BY <2>3, <3>1 DEF OpenFiles
    <2> QED
      BY <2>1, <2>2, <2>3
  <1>3. PICK e \in WriteReady(st, of2, ci) :
             /\ e \in Reached
             /\ e.ok => /\ ci \in DOMAIN e.of.cache
                        /\ r = [ok |-> TRUE, of |-> Overwritten(e.of, ci, from, to, tag)]
             /\ ~e.ok => r = e
    BY WriteChunkIs
  <1> HIDE DEF of2
  <1>4. /\ SameButCache(e.of, of2) /\ e.of \in OpenFiles /\ e.ok \in BOOLEAN
        /\ of2.dirty \intersect DOMAIN of2.cache \subseteq DOMAIN e.of.cache
        /\ \A k \in DOMAIN e.of.cache :
                 \/ k \in DOMAIN of2.cache /\ e.of.cache[k] = of2.cache[k]
                 \/ /\ k = ci /\ k \notin DOMAIN of2.cache
                    /\ \/ e.of.cache[k] = Loaded(st, of2, ci) /\ Loaded(st, of2, ci) # EIO
                          /\ ~(ci # 0 /\ of2.map[ci + 1] = None)
                       \/ e.of.cache[k] = Zeros(ChunkSize) /\ ci # 0 /\ of2.map[ci + 1] = None
    BY <1>1, <1>3, WriteReadyKeeps DEF Reached
  <1>5. r \in Reached
    BY WriteChunkIs
  <1>6. CASE ~e.ok
    BY <1>2, <1>3, <1>4, <1>5, <1>6 DEF SameButCache, of2
  <1>7. CASE e.ok
    <2> DEFINE w == Overwritten(e.of, ci, from, to, tag)
               data == e.of.cache[ci]
    <2>1. ci \in DOMAIN e.of.cache /\ r.of = w /\ r.ok
      BY <1>3, <1>7
    <2>2. /\ w.cache = Caching(e.of.cache, ci, Overlaid(data, Low(ci, from), High(ci, to), tag))
          /\ w.dirty = e.of.dirty \union {ci}
          /\ w.total = (IF e.of.total >= to THEN e.of.total ELSE to)
          /\ w.map = e.of.map /\ w.head = e.of.head /\ w.chain = e.of.chain
          /\ w.metaDirty = (e.of.metaDirty \/ to > e.of.total)
      BY <1>4, <2>1, OverwrittenIs
    <2> HIDE DEF w
    <2>3. data \in Chunk
      BY <1>4, <2>1, Fields, CacheFields
    <2>4. /\ data = of.cache[ci] /\ ci \in DOMAIN of.cache
          \/ /\ ci \notin DOMAIN of.cache
             /\ \/ data = Loaded(st, of2, ci) /\ ~(ci # 0 /\ of2.map[ci + 1] = None)
                \/ data = Zeros(ChunkSize) /\ ci # 0 /\ of2.map[ci + 1] = None
      BY <1>2, <1>4, <2>1
    <2>5. \A k \in DOMAIN e.of.cache : k # ci => k \in DOMAIN of.cache /\ e.of.cache[k] = of.cache[k]
      BY <1>2, <1>4
    <2> HIDE DEF data
    <2>6. DOMAIN w.cache = DOMAIN e.of.cache
          /\ w.cache[ci] = Overlaid(data, Low(ci, from), High(ci, to), tag)
          /\ \A k \in DOMAIN w.cache : k # ci => w.cache[k] = e.of.cache[k]
      BY <2>1, <2>2 DEF Caching
    <2>7. \A k \in DOMAIN r.of.cache :
                       \/ k # ci /\ k \in DOMAIN of.cache /\ r.of.cache[k] = of.cache[k]
                       \/ k = ci /\ \E d \in Chunk :
                             /\ r.of.cache[k] = Overlaid(d, Low(ci, from), High(ci, to), tag)
                             /\ \/ k \in DOMAIN of.cache /\ d = of.cache[k]
                                \/ /\ k \notin DOMAIN of.cache
                                   /\ \/ /\ d = Loaded(st, MapExtended(of, ci), ci)
                                         /\ ~(ci # 0 /\ MapExtended(of, ci).map[ci + 1] = None)
                                      \/ /\ d = Zeros(ChunkSize) /\ ci # 0
                                         /\ MapExtended(of, ci).map[ci + 1] = None
      BY <2>1, <2>3, <2>4, <2>5, <2>6 DEF of2
    <2>8. /\ r.of.total = (IF of.total >= to THEN of.total ELSE to)
          /\ r.of.dirty = of.dirty \union {ci} /\ ci \in DOMAIN r.of.cache
          /\ of.dirty \intersect DOMAIN of.cache \subseteq DOMAIN r.of.cache
          /\ r.of.head = of.head /\ r.of.chain = of.chain /\ r.of.map = of2.map
      BY <1>2, <1>4, <2>1, <2>2, <2>6 DEF SameButCache
    <2>9. r.of.metaDirty = (of.metaDirty \/ ci >= Len(of.map) \/ to > of.total)
      BY <1>2, <1>4, <2>1, <2>2, Zenon DEF SameButCache
    <2> QED
      BY <1>5, <2>1, <2>7, <2>8, <2>9 DEF of2
  <1> QED
    BY <1>4, <1>6, <1>7

-----------------------------------------------------------------------------
(* What holds of a loop at its start and is kept by its rounds holds at its  *)
(* end.                                                                      *)

LEMMA WriteChunksInduction ==
    ASSUME NEW st \in Stores, NEW of \in OpenFiles, NEW from \in 0..MaxSize,
           NEW to \in 0..MaxSize, from < to, NEW tag \in Byte, NEW P,
           <<0, [ok |-> TRUE, of |-> of]>> \in P,
           \A i \in 1..(Chunks(to) - from \div ChunkSize), q \in Reached :
              /\ <<i - 1, q>> \in P
              /\ q.of \in OpenFiles /\ from \div ChunkSize + i - 1 \in 0..MaxSize
              => /\ ~q.ok => <<i, q>> \in P
                 /\ q.ok => \A r \in WriteChunk(st, q.of, from \div ChunkSize + i - 1, from, to, tag) :
                               <<i, r>> \in P
    PROVE  /\ Chunks(to) - from \div ChunkSize \in Nat
           /\ \A r \in WriteChunks(st, of, from, to, tag) :
                 r \in Reached /\ <<Chunks(to) - from \div ChunkSize, r>> \in P
  <1> DEFINE n == Chunks(to) - from \div ChunkSize
             first == from \div ChunkSize
  <1>1. PICK f \in [0..n -> SUBSET Reached] :
           /\ f[0] = {[ok |-> TRUE, of |-> of]}
           /\ \A i \in 1..n : f[i] = WriteNext(st, first, from, to, tag, i, f[i - 1])
           /\ WriteChunks(st, of, from, to, tag) = f[n]
           /\ WriteChunks(st, of, from, to, tag) \in SUBSET Reached
    BY ChunksWritten
  <1>2. n \in Nat
    <2>1. from \in Nat /\ to \in Nat /\ ChunkSize \in Nat /\ ChunkSize >= 1
      BY Sizes
    <2>2. from \div ChunkSize \in Nat /\ (from \div ChunkSize) * ChunkSize <= from
      BY <2>1, Division
    <2>3. Chunks(to) \in Nat /\ (from \div ChunkSize < Chunks(to) <=> (from \div ChunkSize) * ChunkSize < to)
      BY <2>1, <2>2, ChunksBound
    <2>4. (from \div ChunkSize) * ChunkSize \in Nat
      BY <2>1, <2>2
    <2> QED
      BY <2>1, <2>2, <2>3, <2>4
  <1>3. ASSUME NEW i \in 1..n PROVE first + i - 1 \in 0..MaxSize
    BY WriteNextTyped, {} \in SUBSET Reached
  <1> DEFINE Q == {i \in 0..n : \A r \in f[i] : <<i, r>> \in P}
  <1>4. 0 \in Q
    <2>1. 0 \in 0..n
      BY <1>2
    <2>2. \A r \in f[0] : <<0, r>> \in P
      BY <1>1
    <2> QED
      BY <2>1, <2>2
  <1>5. ASSUME NEW i \in 1..n, i - 1 \in Q PROVE i \in Q
    <2>1. i - 1 \in 0..n /\ f[i - 1] \in SUBSET Reached /\ \A q \in f[i - 1] : <<i - 1, q>> \in P
      BY <1>1, <1>2, <1>5
    <2>2. ASSUME NEW r \in f[i] PROVE <<i, r>> \in P
      <3>1. r \in WriteNext(st, first, from, to, tag, i, f[i - 1])
        BY <1>1, <2>2
      <3>2. PICK q \in f[i - 1] :
               r \in IF q.ok THEN WriteChunk(st, q.of, first + i - 1, from, to, tag) ELSE {q}
        BY <3>1 DEF WriteNext
      <3>3. q \in Reached /\ q.of \in OpenFiles /\ <<i - 1, q>> \in P
        BY <2>1, <3>2 DEF Reached
      <3>4. /\ ~q.ok => <<i, q>> \in P
            /\ q.ok => \A r2 \in WriteChunk(st, q.of, first + i - 1, from, to, tag) : <<i, r2>> \in P
        BY <1>3, <3>3
      <3> QED
        BY <3>2, <3>4
    <2> QED
      BY <1>2, <2>2
  <1> HIDE DEF Q
  <1>6. \A i \in 0..n : i \in Q
    BY <1>2, <1>4, <1>5, Induction
  <1> QED
    BY <1>1, <1>2, <1>6 DEF Q

LEMMA SpillInduction ==
    ASSUME NEW st \in Stores, NEW of \in OpenFiles, NEW order \in Seq(Numbers),
           NEW k \in 0..Len(order), NEW P, <<0, RunStart(st, of)>> \in P,
           \A i \in 1..k, r \in Results :
              r.st \in Stores /\ r.of \in OpenFiles /\ order[i] \in Numbers /\ <<i - 1, r>> \in P
              => <<i, SpillNext(order, i, r)>> \in P
    PROVE  SpillRun(order, st, of, k) \in Results /\ <<k, SpillRun(order, st, of, k)>> \in P
  <1>1. k \in Nat /\ Len(order) \in Nat
    OBVIOUS
  <1>2. PICK f \in [0..k -> Results] :
           /\ f[0] = RunStart(st, of)
           /\ \A i \in 1..k : f[i] = SpillNext(order, i, f[i - 1])
           /\ SpillRun(order, st, of, k) = f[k] /\ SpillRun(order, st, of, k) \in Results
    BY Spilled
  <1> DEFINE Q == {i \in 0..k : <<i, f[i]>> \in P}
  <1>3. 0 \in Q
    BY <1>1, <1>2
  <1>4. ASSUME NEW i \in 1..k, i - 1 \in Q PROVE i \in Q
    <2>1. f[i - 1] \in Results /\ f[i - 1].st \in Stores /\ f[i - 1].of \in OpenFiles
          /\ <<i - 1, f[i - 1]>> \in P
      BY <1>1, <1>2, <1>4 DEF Results
    <2>2. order[i] \in Numbers
      BY <1>1
    <2> QED
      BY <1>1, <1>2, <2>1, <2>2
  <1> HIDE DEF Q
  <1>5. \A i \in 0..k : i \in Q
    BY <1>1, <1>3, <1>4, Induction
  <1> QED
    BY <1>1, <1>2, <1>5 DEF Q

LEMMA FlushInduction ==
    ASSUME NEW st \in Stores, NEW of \in OpenFiles, NEW order \in Seq(Numbers),
           NEW P, <<0, RunStart(st, of)>> \in P,
           \A i \in 1..Len(order), r \in Results :
              r.st \in Stores /\ r.of \in OpenFiles /\ order[i] \in Numbers /\ <<i - 1, r>> \in P
              => <<i, FlushNext(order, i, r)>> \in P
    PROVE  FlushRun(order, st, of) \in Results /\ <<Len(order), FlushRun(order, st, of)>> \in P
  <1> DEFINE k == Len(order)
  <1>1. k \in Nat
    OBVIOUS
  <1>2. PICK f \in [0..k -> Results] :
           /\ f[0] = RunStart(st, of)
           /\ \A i \in 1..k : f[i] = FlushNext(order, i, f[i - 1])
           /\ FlushRun(order, st, of) = f[k] /\ FlushRun(order, st, of) \in Results
    BY FlushedChunks
  <1>3. \A i \in 1..k : order[i] \in Numbers
    OBVIOUS
  <1> HIDE DEF k
  <1> DEFINE Q == {i \in 0..k : <<i, f[i]>> \in P}
  <1>4. 0 \in Q
    BY <1>1, <1>2
  <1>5. ASSUME NEW i \in 1..k, i - 1 \in Q PROVE i \in Q
    <2>1. f[i - 1] \in Results /\ f[i - 1].st \in Stores /\ f[i - 1].of \in OpenFiles
          /\ <<i - 1, f[i - 1]>> \in P
      BY <1>1, <1>2, <1>5 DEF Results
    <2> QED
      BY <1>1, <1>2, <1>3, <2>1 DEF k
  <1> HIDE DEF Q
  <1>6. \A i \in 0..k : i \in Q
    BY <1>1, <1>4, <1>5, Induction
  <1> QED
    BY <1>1, <1>2, <1>6 DEF Q, k

-----------------------------------------------------------------------------
(* A flush that succeeds.                                                    *)

LEMMA CutIs ==
    ASSUME NEW st \in Stores, NEW of \in OpenFiles
    PROVE  /\ Cut(st, of).st \in Stores /\ Cut(st, of).of \in OpenFiles
           /\ Cut(st, of).of.head = of.head /\ Cut(st, of).of.total = of.total
           /\ Cut(st, of).of.chain = of.chain /\ Cut(st, of).of.cache = of.cache
           /\ Cut(st, of).of.dirty = of.dirty
           /\ Len(of.map) <= Kept(of.total) =>
                 Cut(st, of).st = st /\ Cut(st, of).of = of
           /\ Len(of.map) > Kept(of.total) =>
                 /\ Cut(st, of).st =
                       FreedAll(st, Present(SubSeq(of.map, Kept(of.total) + 1, Len(of.map))))
                 /\ Cut(st, of).of.map = SubSeq(of.map, 1, Kept(of.total)) /\ Cut(st, of).of.metaDirty
                 /\ Present(SubSeq(of.map, Kept(of.total) + 1, Len(of.map))) \in Seq(Slots)
  <1>1. Cut(st, of).st \in Stores /\ Cut(st, of).of \in OpenFiles
    BY FlushTailIs
  <1>2. Cut(st, of).st = FlushExcess(st, of).st /\ Cut(st, of).of = FlushExcess(st, of).of
    BY DEF Cut
  <1>3. Len(of.map) \in Nat /\ Kept(of.total) \in Nat
    <2>1. of.total \in Nat /\ Len(of.map) \in Nat
      BY Fields, Sizes
    <2> QED
      BY <2>1, KeptIs
  <1>4. CASE Len(of.map) <= Kept(of.total)
    <2>1. Cut(st, of).st = st /\ Cut(st, of).of = of
      BY <1>2, <1>4, FlushExcessIs
    <2> QED
      BY <1>1, <1>3, <1>4, <2>1
  <1>5. CASE Len(of.map) > Kept(of.total)
    <2>1. /\ Cut(st, of).st =
                FreedAll(st, Present(SubSeq(of.map, Kept(of.total) + 1, Len(of.map))))
          /\ Cut(st, of).of = [of EXCEPT !.map = SubSeq(@, 1, Kept(of.total)), !.metaDirty = TRUE]
          /\ Present(SubSeq(of.map, Kept(of.total) + 1, Len(of.map))) \in Seq(Slots)
      BY <1>2, <1>5, FlushExcessIs
    <2>2. /\ Cut(st, of).of.head = of.head /\ Cut(st, of).of.total = of.total
          /\ Cut(st, of).of.chain = of.chain /\ Cut(st, of).of.cache = of.cache
          /\ Cut(st, of).of.dirty = of.dirty
          /\ Cut(st, of).of.map = SubSeq(of.map, 1, Kept(of.total)) /\ Cut(st, of).of.metaDirty
      BY <2>1 DEF OpenFiles
    <2> QED
      BY <1>1, <1>3, <1>5, <2>1, <2>2
  <1> QED
    BY <1>3, <1>4, <1>5

(* The chain and the head that step 3 of a flush writes. *)
NextChain(st, of) == Rewritten(Cut(st, of).st, Cut(st, of).of)
NextHead(st, of) == NewHead(Cut(st, of).st, Cut(st, of).of)

(* A handle and a store after step 3 of a flush that succeeds. *)
LEMMA FlushTailKeeps ==
    ASSUME NEW st \in Stores, NEW of \in OpenFiles, FlushTail(st, of).ok
    PROVE  /\ FlushTail(st, of) \in Results
           /\ FlushTail(st, of).of.head = of.head /\ FlushTail(st, of).of.total = of.total
           /\ FlushTail(st, of).of.cache = of.cache /\ FlushTail(st, of).of.map = Cut(st, of).of.map
           /\ FlushTail(st, of).of.dirty = {} /\ FlushTail(st, of).of.metaDirty = FALSE
           /\ ~HeadDue(Cut(st, of).of) =>
                 FlushTail(st, of).st = Cut(st, of).st /\ FlushTail(st, of).of.chain = of.chain
           /\ HeadDue(Cut(st, of).of) =>
                 /\ 0 \in DOMAIN of.cache \/ Cut(st, of).st.node[of.head].kind = "file"
                 /\ NextChain(st, of) \in Writings /\ NextChain(st, of).ok
                 /\ NextHead(st, of) \in Nodes
                 /\ FlushTail(st, of).st = Updated(NextChain(st, of).st, of.head, NextHead(st, of))
                 /\ FlushTail(st, of).of.chain = NextChain(st, of).chain
  <1> DEFINE c == Cut(st, of)
             w == Rewritten(c.st, c.of)
             t == FlushTail(st, of)
  <1>1. /\ c.st \in Stores /\ c.of \in OpenFiles
        /\ c.of.head = of.head /\ c.of.total = of.total /\ c.of.chain = of.chain
        /\ c.of.cache = of.cache /\ c.of.dirty = of.dirty
    BY CutIs
  <1>2. /\ t \in Results
        /\ HeadDue(c.of) =>
                 /\ t.ok = FlushHead(c.st, c.of).ok
                 /\ t.st = FlushHead(c.st, c.of).st
                 /\ t.ok => t.of = Settled(FlushHead(c.st, c.of).of)
        /\ ~HeadDue(c.of) => t.ok /\ t.st = c.st /\ t.of = Settled(c.of)
    BY FlushTailIs
  <1> HIDE DEF c, t
  <1>3. \A q \in OpenFiles : /\ Settled(q).head = q.head /\ Settled(q).total = q.total
                             /\ Settled(q).cache = q.cache /\ Settled(q).map = q.map
                             /\ Settled(q).chain = q.chain
                             /\ Settled(q).dirty = {} /\ Settled(q).metaDirty = FALSE
    BY DEF Settled, OpenFiles
  <1>4. CASE ~HeadDue(c.of)
    BY <1>1, <1>2, <1>3, <1>4 DEF c, t
  <1>5. CASE HeadDue(c.of)
    <2> DEFINE fh == FlushHead(c.st, c.of)
    <2>1. fh.ok /\ t.st = fh.st /\ t.of = Settled(fh.of)
      BY <1>2, <1>5 DEF t
    <2>2. /\ fh \in Results /\ w \in Writings
          /\ 0 \in DOMAIN c.of.cache \/ c.st.node[c.of.head].kind = "file"
          /\ w.ok /\ fh.st = Updated(w.st, c.of.head, NewHead(c.st, c.of))
          /\ NewHead(c.st, c.of) \in Nodes
          /\ fh.of = [c.of EXCEPT !.chain = w.chain]
      BY <1>1, <2>1, FlushHeadIs
    <2> HIDE DEF fh, w
    <2>3. /\ fh.of.head = of.head /\ fh.of.total = of.total /\ fh.of.cache = of.cache
          /\ fh.of.map = c.of.map /\ fh.of.chain = w.chain /\ fh.of \in OpenFiles
      BY <1>1, <2>2 DEF OpenFiles, Results
    <2>4. /\ t.of.head = of.head /\ t.of.total = of.total /\ t.of.cache = of.cache
          /\ t.of.map = c.of.map /\ t.of.chain = w.chain /\ t.of.dirty = {} /\ t.of.metaDirty = FALSE
      BY <1>3, <2>1, <2>3
    <2>5. /\ 0 \in DOMAIN of.cache \/ c.st.node[of.head].kind = "file"
          /\ t.st = Updated(w.st, of.head, NewHead(c.st, c.of))
      BY <1>1, <2>1, <2>2
    <2> QED
      BY <1>2, <1>5, <2>2, <2>4, <2>5 DEF c, t, w, NextChain, NextHead
  <1> QED
    BY <1>4, <1>5

LEMMA FlushFhKeeps ==
    ASSUME NEW st \in Stores, NEW of \in OpenFiles, NEW r \in FlushFh(st, of), r.ok
    PROVE  /\ r \in Results /\ r.of.head = of.head /\ r.of.total = of.total /\ r.of.dirty = {}
           /\ \A n \in Nat : OnlyHead(st, of.head, n) /\ of.total <= n => OnlyHead(r.st, of.head, n)
  <1>1. r \in Results
    BY FlushFhTyped
  <1>2. CASE Clean(of)
    <2>1. r = RunStart(st, of)
      BY <1>2, FlushFhTyped
    <2> QED
      BY <1>1, <1>2, <2>1 DEF RunStart, Clean
  <1>3. CASE ~Clean(of)
    <2>1. PICK order \in SetToSeqs(Continuation(of)) :
                    /\ order \in Seq(Numbers)
                    /\ FlushRun(order, st, of) \in Results
                    /\ FlushRun(order, st, of).ok =>
                          r = FlushTail(FlushRun(order, st, of).st, FlushRun(order, st, of).of)
                    /\ ~FlushRun(order, st, of).ok => r = FlushRun(order, st, of)
      BY <1>3, FlushFhTyped
    <2> DEFINE q == FlushRun(order, st, of)
    <2>2. q.st \in Stores /\ q.of \in OpenFiles /\ r = FlushTail(q.st, q.of) /\ FlushTail(q.st, q.of).ok
      BY <2>1 DEF Results
    <2>3. /\ q.of.head = of.head /\ q.of.total = of.total
          /\ \A s, n : OnlyHead(st, s, n) => OnlyHead(q.st, s, n)
      BY <2>1, FlushRunKeeps
    <2> HIDE DEF q
    <2> DEFINE c == Cut(q.st, q.of)
               w == NextChain(q.st, q.of)
               new == NextHead(q.st, q.of)
    <2>4. /\ c.st \in Stores /\ c.of \in OpenFiles /\ c.of.head = of.head /\ c.of.total = of.total
          /\ c.of.chain \in Link
          /\ \A s, n : OnlyHead(q.st, s, n) => OnlyHead(c.st, s, n)
      <3>1. Len(q.of.map) \in Nat /\ Kept(q.of.total) \in Nat
        <4>1. q.of.total \in Nat /\ Len(q.of.map) \in Nat
          BY <2>2, Fields, Sizes
        <4> QED
          BY <4>1, KeptIs
      <3>2. /\ c.st \in Stores /\ c.of \in OpenFiles /\ c.of.head = of.head /\ c.of.total = of.total
        BY <2>2, <2>3, CutIs
      <3>3. CASE Len(q.of.map) <= Kept(q.of.total)
        BY <2>2, <3>2, <3>3, CutIs, Fields
      <3>4. CASE Len(q.of.map) > Kept(q.of.total)
        BY <2>2, <3>2, <3>4, CutIs, OnlyHeadKept, Fields
      <3> QED
        BY <3>1, <3>3, <3>4
    <2>5. /\ r.of.head = of.head /\ r.of.total = of.total /\ r.of.dirty = {}
          /\ ~HeadDue(c.of) => r.st = c.st
          /\ HeadDue(c.of) =>
                w \in Writings /\ new \in Nodes /\ r.st = Updated(w.st, of.head, new)
      <3>1. q.st \in Stores /\ q.of \in OpenFiles /\ FlushTail(q.st, q.of).ok
        BY <2>2
      <3>2. /\ FlushTail(q.st, q.of).of.head = q.of.head /\ FlushTail(q.st, q.of).of.total = q.of.total
            /\ FlushTail(q.st, q.of).of.dirty = {}
            /\ ~HeadDue(c.of) => FlushTail(q.st, q.of).st = c.st
            /\ HeadDue(c.of) => w \in Writings /\ new \in Nodes
                                /\ FlushTail(q.st, q.of).st = Updated(w.st, q.of.head, new)
        BY <3>1, FlushTailKeeps
      <3> QED
        BY <2>2, <2>3, <3>2
    <2>a. w = Rewritten(c.st, c.of) /\ new = NewHead(c.st, c.of)
      BY DEF NextChain, NextHead
    <2> HIDE DEF c, w, new
    <2>6. ASSUME NEW n \in Nat, OnlyHead(st, of.head, n), of.total <= n
          PROVE  OnlyHead(r.st, of.head, n)
      <3>1. OnlyHead(c.st, of.head, n)
        BY <2>3, <2>4, <2>6
      <3>2. OnlyHead(w.st, of.head, n)
        <4>1. OnlyHead(ChainFreed(c.st, c.of.chain), of.head, n) /\ ChainFreed(c.st, c.of.chain) \in Stores
          BY <2>4, <3>1, OnlyHeadChainFreed, ChainFreedTyped
        <4>2. Indirect(Named(c.of)) \in Seq(Slots)
          BY <2>4, NamedTyped, DirectIndirect
        <4> QED
          BY <2>a, <4>1, <4>2, OnlyHeadChainWritten DEF Rewritten
      <3>3. new.total = of.total
        BY <2>4, <2>a, BlockFields DEF NewHead
      <3>4. HeadDue(c.of) => OnlyHead(r.st, of.head, n)
        <4>1. of.head \in Slots
          BY Fields
        <4> QED
          BY <2>5, <2>6, <3>2, <3>3, <4>1, OnlyHeadKept DEF Writings
      <3> QED
        BY <2>5, <3>1, <3>4
    <2> QED
      BY <1>1, <2>5, <2>6
  <1> QED
    BY <1>2, <1>3

-----------------------------------------------------------------------------
(* DirtyBounded.                                                             *)

(* Every chunk marked dirty is cached and in the map. *)
Marked(of) == of.dirty \subseteq DOMAIN of.cache /\ \A ci \in of.dirty : ci < Len(of.map)

Waiting(of) == Cardinality(Continuation(of))

LEMMA WriteChunksMarked ==
    ASSUME NEW st \in Stores, NEW of \in OpenFiles, NEW from \in 0..MaxSize,
           NEW to \in 0..MaxSize, from < to, NEW tag \in Byte, Marked(of),
           NEW r \in WriteChunks(st, of, from, to, tag)
    PROVE  /\ r \in Reached
           /\ r.ok => /\ Marked(r.of) /\ r.of.head = of.head
                      /\ r.of.total \in {of.total, to}
  <1> DEFINE n == Chunks(to) - from \div ChunkSize
             Inv(q) == q.ok => /\ Marked(q.of) /\ q.of.head = of.head
                               /\ q.of.total \in {of.total, to}
             P == {p \in Nat \X Reached : Inv(p[2])}
  <1>1. <<0, [ok |-> TRUE, of |-> of]>> \in P
    BY DEF Reached
  <1>2. ASSUME NEW i \in 1..n, NEW q \in Reached, <<i - 1, q>> \in P,
               q.of \in OpenFiles, from \div ChunkSize + i - 1 \in 0..MaxSize
        PROVE  /\ ~q.ok => <<i, q>> \in P
               /\ q.ok => \A r2 \in WriteChunk(st, q.of, from \div ChunkSize + i - 1, from, to, tag) :
                             <<i, r2>> \in P
    <2>1. Inv(q) /\ i \in Nat
      BY <1>2
    <2>2. ASSUME q.ok, NEW r2 \in WriteChunk(st, q.of, from \div ChunkSize + i - 1, from, to, tag)
          PROVE  r2 \in Reached /\ Inv(r2)
      <3> DEFINE ci == from \div ChunkSize + i - 1
      <3>1. ci \in 0..MaxSize /\ r2 \in WriteChunk(st, q.of, ci, from, to, tag)
        BY <1>2, <2>2
      <3> HIDE DEF ci
      <3>2. /\ r2 \in Reached /\ r2.of.head = q.of.head
            /\ r2.of.map = MapExtended(q.of, ci).map
            /\ r2.ok =>
                 /\ r2.of.total = (IF q.of.total >= to THEN q.of.total ELSE to)
                 /\ r2.of.dirty = q.of.dirty \union {ci} /\ ci \in DOMAIN r2.of.cache
                 /\ q.of.dirty \intersect DOMAIN q.of.cache \subseteq DOMAIN r2.of.cache
        BY <1>2, <3>1, WriteChunkKeeps
      <3>3. Len(r2.of.map) = (IF ci < Len(q.of.map) THEN Len(q.of.map) ELSE ci + 1)
            /\ Len(q.of.map) \in Nat /\ ci \in Nat
        <4>1. Len(MapExtended(q.of, ci).map) = (IF ci < Len(q.of.map) THEN Len(q.of.map) ELSE ci + 1)
          BY <1>2, <3>1, MapExtendedIs
        <4>2. Len(q.of.map) \in Nat /\ ci \in Nat
          BY <1>2, <3>1, Fields
        <4> QED
          BY <3>2, <4>1, <4>2
      <3>4. r2.ok => Marked(r2.of)
        <4>1. q.of.dirty \subseteq 0..MaxSize
          BY <1>2, Fields
        <4>2. ASSUME r2.ok, NEW k \in r2.of.dirty PROVE k < Len(r2.of.map) /\ k \in DOMAIN r2.of.cache
          <5>1. k = ci \/ (k \in q.of.dirty /\ k \in DOMAIN q.of.cache /\ k < Len(q.of.map) /\ k \in Nat)
            BY <2>1, <2>2, <3>2, <4>1, <4>2 DEF Marked
          <5> QED
            BY <3>2, <3>3, <4>2, <5>1
        <4> QED
          BY <4>2 DEF Marked
      <3> QED
        BY <2>1, <2>2, <3>2, <3>4
    <2> QED
      BY <2>1, <2>2
  <1> HIDE DEF P
  <1>3. n \in Nat /\ r \in Reached /\ <<n, r>> \in P
    BY <1>1, <1>2, WriteChunksInduction
  <1> QED
    BY <1>3 DEF P

(* write_through_flush clears the marks of what it has written. *)
LEMMA SpillMarked ==
    ASSUME NEW st \in Stores, NEW of \in OpenFiles, Marked(of),
           NEW order \in SetToSeqs(Continuation(of)), NEW k \in 0..Len(order),
           SpillRun(order, st, of, k).ok
    PROVE  LET r == SpillRun(order, st, of, k)
           IN  /\ r \in Results /\ Marked(r.of)
               /\ Waiting(r.of) = Waiting(of) - k
  <1> DEFINE r == SpillRun(order, st, of, k)
             Gone(i) == {order[j] : j \in 1..i}
             Inv(i, q) == q.ok => Marked(q.of) /\ q.of.dirty = of.dirty \ Gone(i)
             P == {p \in Nat \X Results : Inv(p[1], p[2])}
  <1>1. IsFiniteSet(Continuation(of)) /\ Continuation(of) \subseteq Numbers
        /\ Continuation(of) \subseteq of.dirty
    BY Fields, ContinuationFinite DEF Numbers, Continuation
  <1>2. /\ order \in Seq(Numbers) /\ Len(order) = Waiting(of) /\ Waiting(of) \in Nat
        /\ \A i \in 1..Len(order) : order[i] \in Continuation(of)
        /\ \A i, j \in 1..Len(order) : order[i] = order[j] => i = j
    BY <1>1, OrderIs, FlushOrderTyped DEF Waiting
  <1>3. <<0, RunStart(st, of)>> \in P
    <2>1. Gone(0) = {}
      OBVIOUS
    <2> QED
      BY <2>1 DEF RunStart, Results
  <1>4. ASSUME NEW i \in 1..k, NEW q \in Results, q.st \in Stores, q.of \in OpenFiles,
               order[i] \in Numbers, <<i - 1, q>> \in P
        PROVE  <<i, SpillNext(order, i, q)>> \in P
    <2> DEFINE w == WriteBack(q.st, q.of, order[i])
               d == Dropped(w.of, order[i])
    <2>1. Inv(i - 1, q) /\ i \in Nat /\ i \in 1..Len(order) /\ order[i] \in of.dirty
      <3>1. i \in Nat /\ i \in 1..Len(order)
        BY <1>2
      <3>2. order[i] \in of.dirty
        BY <1>1, <1>2, <3>1
      <3>3. Inv(<<i - 1, q>>[1], <<i - 1, q>>[2])
        BY <1>4
      <3> QED
        BY <3>1, <3>2, <3>3
    <2>2. /\ w \in Results /\ w.of.dirty = q.of.dirty /\ w.of.cache = q.of.cache
          /\ Len(w.of.map) = Len(q.of.map)
      BY <1>4, WriteBackKeeps
    <2> HIDE DEF w
    <2>3. SpillNext(order, i, q) = IF ~q.ok THEN q ELSE IF ~w.ok THEN w ELSE [w EXCEPT !.of = d]
      BY DEF SpillNext, w
    <2>4. /\ d \in OpenFiles /\ d.map = w.of.map
          /\ order[i] \in DOMAIN w.of.cache /\ order[i] < Len(w.of.map) =>
                 /\ d.dirty = w.of.dirty \ {order[i]}
                 /\ d.cache = Restrict(w.of.cache, DOMAIN w.of.cache \ {order[i]})
      BY <2>2, DroppedKeeps DEF Results
    <2> HIDE DEF d
    <2>5. ASSUME q.ok, w.ok PROVE Inv(i, [w EXCEPT !.of = d])
      <3>1. order[i] \notin Gone(i - 1)
        BY <1>2, <2>1
      <3>2. order[i] \in q.of.dirty
        BY <2>1, <2>5, <3>1
      <3>3. d.dirty = w.of.dirty \ {order[i]} /\ DOMAIN d.cache = DOMAIN w.of.cache \ {order[i]}
        BY <2>1, <2>2, <2>4, <2>5, <3>2 DEF Marked, Restrict
      <3>4. Gone(i) = Gone(i - 1) \union {order[i]}
        BY <2>1
      <3>5. d.dirty = of.dirty \ Gone(i)
        BY <2>1, <2>2, <2>5, <3>3, <3>4
      <3>6. Marked(d)
        BY <2>1, <2>2, <2>4, <2>5, <3>3 DEF Marked
      <3>7. [w EXCEPT !.of = d].of = d
        BY <2>2 DEF Results
      <3> QED
        BY <3>5, <3>6, <3>7
    <2>6. SpillNext(order, i, q) \in Results
      BY <1>4, <2>2, <2>3, <2>4 DEF Results
    <2>7. Inv(i, SpillNext(order, i, q))
      BY <2>3, <2>5
    <2> QED
      BY <2>1, <2>6, <2>7
  <1> HIDE DEF P
  <1>5. r \in Results /\ <<k, r>> \in P
    BY <1>2, <1>3, <1>4, SpillInduction
  <1>6. Marked(r.of) /\ r.of.dirty = of.dirty \ Gone(k)
    BY <1>5 DEF P
  <1> HIDE DEF r
  <1>7. Waiting(r.of) = Waiting(of) - k
    <2> DEFINE m == Waiting(of)
    <2>1. Continuation(r.of) = Continuation(of) \ Gone(k)
      BY <1>6 DEF Continuation
    <2>2. k \in Nat /\ k <= m /\ Gone(k) \subseteq Continuation(of) /\ m \in Nat /\ Len(order) = m
      BY <1>2
    <2>3. Cardinality(Gone(k)) = k /\ IsFiniteSet(Gone(k))
      <3> DEFINE f == [j \in 1..k |-> order[j]]
      <3>1. IsFiniteSet(1..k) /\ Cardinality(1..k) = k
        BY <2>2, FS_Interval
      <3>2. f \in Bijection(1..k, Gone(k))
        <4>1. \A i, j \in 1..k : order[i] = order[j] => i = j
          BY <1>2, <2>2
        <4> QED
          BY <4>1 DEF Bijection, Injection, Surjection, IsInjective
      <3>3. ExistsBijection(1..k, Gone(k))
        BY <3>2 DEF ExistsBijection
      <3> HIDE DEF f
      <3> QED
        BY <3>1, <3>3, FS_Bijection
    <2>4. Continuation(of) \intersect Gone(k) = Gone(k)
      BY <2>2
    <2>5. Cardinality(Continuation(of) \ Gone(k)) =
             Cardinality(Continuation(of)) - Cardinality(Continuation(of) \intersect Gone(k))
      BY <1>1, FS_Difference
    <2> QED
      BY <2>1, <2>2, <2>3, <2>4, <2>5 DEF Waiting
  <1> QED
    BY <1>5, <1>6, <1>7 DEF r

(* What holds while every handle is flushed. *)
LEMMA FlushAllInduction ==
    ASSUME Typed, NEW P, NEW r \in FlushAll(store), [ok |-> TRUE, st |-> store] \in P,
           \A q \in Flushed, h \in DOMAIN files : q \in P /\ q.st \in Stores =>
              \A f \in FlushFh(q.st, files[h]) : [ok |-> q.ok /\ f.ok, st |-> f.st] \in P
    PROVE  r \in Flushed /\ r \in P
  <1>1. IsFiniteSet(DOMAIN files) /\ store \in Stores /\ \A h \in DOMAIN files : files[h] \in OpenFiles
    BY StateTyped
  <1>2. PICK order \in SetToSeqs(DOMAIN files) : r \in FlushAllRun(order, store)
    BY FlushAllOrders
  <1>3. order \in Seq(DOMAIN files)
    BY <1>1, OrderIs
  <1> DEFINE n == Len(order)
  <1>4. PICK f \in [0..n -> SUBSET Flushed] :
              /\ f[0] = {[ok |-> TRUE, st |-> store]}
              /\ \A i \in 1..n : f[i] = FlushEach(order, i, f[i - 1])
              /\ FlushAllRun(order, store) = f[n]
    BY <1>1, <1>3, FlushedAll
  <1>5. n \in Nat /\ \A i \in 1..n : order[i] \in DOMAIN files
    BY <1>3
  <1> HIDE DEF n
  <1> DEFINE Q == {i \in 0..n : f[i] \subseteq P}
  <1>6. 0 \in Q
    <2>1. 0 \in 0..n /\ f[0] \subseteq P
      BY <1>4, <1>5
    <2> QED
      BY <2>1
  <1>7. ASSUME NEW i \in 1..n, i - 1 \in Q PROVE i \in Q
    <2>1. f[i - 1] \subseteq Flushed /\ f[i - 1] \subseteq P /\ order[i] \in DOMAIN files
      BY <1>4, <1>5, <1>7
    <2>2. ASSUME NEW s \in f[i] PROVE s \in P
      <3>1. s \in FlushEach(order, i, f[i - 1])
        BY <1>4, <2>2
      <3>2. PICK q \in f[i - 1] :
               s \in {[ok |-> q.ok /\ g.ok, st |-> g.st] : g \in FlushFh(q.st, files[order[i]])}
        BY <3>1 DEF FlushEach
      <3>3. PICK g \in FlushFh(q.st, files[order[i]]) : s = [ok |-> q.ok /\ g.ok, st |-> g.st]
        BY <3>2
      <3>4. q \in Flushed /\ q \in P /\ q.st \in Stores
        BY <2>1, <3>2 DEF Flushed
      <3> QED
        BY <2>1, <3>3, <3>4
    <2> QED
      BY <1>5, <2>2
  <1> HIDE DEF Q
  <1>8. n \in Q
    <2>1. \A i \in 0..n : i \in Q
      BY <1>5, <1>6, <1>7, Induction
    <2> QED
      BY <1>5, <2>1
  <1>9. f[n] \subseteq P /\ f[n] \subseteq Flushed
    BY <1>4, <1>5, <1>8 DEF Q
  <1> QED
    BY <1>2, <1>4, <1>9

-----------------------------------------------------------------------------
Bounded(of, s, n) ==
    of.head = s /\ of.total <= n /\ Marked(of) /\ Waiting(of) <= WriteThrough

LEMMA WriteBounded ==
    ASSUME NEW st \in Stores, NEW of \in OpenFiles, NEW from \in 0..MaxSize,
           NEW to \in 0..MaxSize, from < to, NEW tag \in Byte, NEW r \in WriteRequest(st, of, from, to, tag),
           NEW n \in Nat, Bounded(of, of.head, n), OnlyHead(st, of.head, n), r.ok
    PROVE  /\ r \in Results
           /\ \A m \in Nat : m >= n /\ m >= to =>
                 Bounded(r.of, of.head, m) /\ OnlyHead(r.st, of.head, m)
  <1>1. PICK w \in WriteChunks(st, of, from, to, tag) :
           r \in IF w.ok THEN WrittenThrough(st, w.of) ELSE {[ok |-> FALSE, st |-> st, of |-> w.of]}
    BY DEF WriteRequest
  <1>2. w.ok /\ r \in WrittenThrough(st, w.of)
    BY <1>1
  <1>3. /\ w \in Reached /\ Marked(w.of) /\ w.of.head = of.head /\ w.of.total \in {of.total, to}
        /\ w.of \in OpenFiles
    BY <1>2, WriteChunksMarked DEF Bounded, Reached
  <1>4. /\ IsFiniteSet(Continuation(w.of)) /\ Waiting(w.of) \in Nat
        /\ of.total \in Nat /\ to \in Nat /\ WriteThrough \in Nat
    BY <1>3, Fields, ContinuationFinite, Sizes DEF Waiting
  <1>5. r \in Results
    BY WriteRequestTyped
  <1>6. ASSUME NEW m \in Nat, m >= n, m >= to
        PROVE  w.of.total <= m /\ OnlyHead(st, of.head, m)
    <2>1. w.of.total <= m
      BY <1>3, <1>4, <1>6 DEF Bounded
    <2>2. ASSUME NEW t \in Slots, st.node[t].kind = "file" PROVE t = of.head /\ st.node[t].total <= m
      <3>1. t = of.head /\ st.node[t].total <= n
        BY <2>2 DEF OnlyHead
      <3>2. st.node[t].total \in Nat
        BY <2>2, StoreFields, NodeFields, Sizes
      <3> QED
        BY <1>6, <3>1, <3>2
    <2> QED
      BY <2>1, <2>2 DEF OnlyHead
  <1>7. CASE Waiting(w.of) > WriteThrough
    <2> DEFINE k == Waiting(w.of) - WriteThrough \div 2
    <2>1. r \in WriteThroughFlush(st, w.of, k)
      BY <1>2, <1>7 DEF WrittenThrough, Waiting
    <2>2. k \in 0..Waiting(w.of) /\ WriteThrough \div 2 <= WriteThrough /\ WriteThrough \div 2 \in Nat
      BY <1>4, <1>7, WriteThroughBounds
    <2>3. PICK order \in SetToSeqs(Continuation(w.of)) : r = SpillRun(order, st, w.of, k)
      BY <2>1, SpillOrders
    <2>4. k \in 0..Len(order) /\ order \in Seq(Numbers)
      BY <1>3, <1>4, <2>2, OrderIs, FlushOrderTyped DEF Waiting
    <2>5. Waiting(w.of) - k = WriteThrough \div 2
      BY <1>4, <2>2
    <2> HIDE DEF k
    <2>6. Marked(r.of) /\ Waiting(r.of) = Waiting(w.of) - k
      BY <1>3, <2>3, <2>4, SpillMarked
    <2>7. /\ r.of.head = of.head /\ r.of.total = w.of.total
          /\ \A s, m : OnlyHead(st, s, m) => OnlyHead(r.st, s, m)
      BY <1>3, <2>3, <2>4, SpillKeeps
    <2> QED
      BY <1>5, <1>6, <2>2, <2>5, <2>6, <2>7 DEF Bounded
  <1>8. CASE ~(Waiting(w.of) > WriteThrough)
    <2>1. r = [ok |-> TRUE, st |-> st, of |-> w.of]
      BY <1>2, <1>8 DEF WrittenThrough, Waiting
    <2>2. Waiting(w.of) <= WriteThrough
      BY <1>4, <1>8
    <2> QED
      BY <1>3, <1>5, <1>6, <2>1, <2>2 DEF Bounded
  <1> QED
    BY <1>7, <1>8

(* Fresh and flushed handles have nothing to write. *)
LEMMA NothingWaits ==
    ASSUME NEW of, of.dirty = {}
    PROVE  Marked(of) /\ Waiting(of) <= WriteThrough
  <1>1. Continuation(of) = {}
    BY DEF Continuation
  <1> QED
    BY <1>1, FS_EmptySet, Sizes DEF Marked, Waiting

BoundedInv ==
    ~failed => /\ OnlyHead(store, head, Len(content))
               /\ \A h \in DOMAIN files : Bounded(files[h], head, Len(content))

LEMMA OnlyHeadMore ==
    ASSUME NEW st \in Stores, NEW s, NEW n \in Nat, NEW m \in Nat, n <= m, OnlyHead(st, s, n)
    PROVE  OnlyHead(st, s, m)
  <1>1. ASSUME NEW t \in Slots, st.node[t].kind = "file" PROVE t = s /\ st.node[t].total <= m
    <2>1. t = s /\ st.node[t].total <= n
      BY <1>1 DEF OnlyHead
    <2>2. st.node[t].total \in Nat
      BY <1>1, StoreFields, NodeFields, Sizes
    <2> QED
      BY <2>1, <2>2
  <1> QED
    BY <1>1 DEF OnlyHead

LEMMA BoundedStep ==
    ASSUME "truncate" \notin Requests, Typed, BoundedInv, [Next]_vars
    PROVE  BoundedInv'
  <1> SUFFICES ASSUME ~failed'
               PROVE  /\ OnlyHead(store', head', Len(content'))
                      /\ \A h \in DOMAIN files' : Bounded(files'[h], head', Len(content'))
    BY DEF BoundedInv
  <1>1. /\ store \in Stores /\ Len(content) \in Nat
        /\ \A h \in DOMAIN files : files[h] \in OpenFiles
        /\ held \subseteq DOMAIN files
    BY StateTyped
  <1> DEFINE Kept2 == /\ OnlyHead(store, head, Len(content))
                      /\ \A h \in DOMAIN files : Bounded(files[h], head, Len(content))
  <1>2. ~failed => Kept2
    BY DEF BoundedInv
  <1>3. CASE Create
    <2>1. /\ head = None /\ HasSpace(store) /\ head' = NextFree(store) /\ head' \in Slots
          /\ store' = Written(store, EmptyHead) /\ content' = <<>> /\ failed' = failed
      BY <1>3, CreateIs
    <2>2. PICK h \in Handles : Added(h, NewHandle(head'))
      BY <1>3, CreateIs
    <2>3. Kept2
      BY <1>2, <2>1
    <2>4. DOMAIN files = {}
      <3>1. ASSUME NEW g \in DOMAIN files PROVE FALSE
        <4>1. files[g].head = None /\ files[g].head \in Slots
          BY <1>1, <2>1, <2>3, Fields DEF Bounded
        <4> QED
          BY <4>1, SlotNumbers
      <3> QED
        BY <3>1
    <2>5. \A t \in Slots : store.node[t].kind # "file"
      BY <2>1, <2>3, SlotNumbers DEF OnlyHead
    <2>6. EmptyHead.total = 0
      BY BlockFields DEF EmptyHead
    <2>7. \A t \in Slots : store'.node[t] = IF t = head' THEN EmptyHead ELSE store.node[t]
      BY <1>1, <2>1, StoreFields DEF Written
    <2>8. OnlyHead(store', head', Len(content'))
      BY <2>1, <2>5, <2>6, <2>7 DEF OnlyHead
    <2>9. Bounded(NewHandle(head'), head', Len(content'))
      <3>1. NewHandle(head').head = head' /\ NewHandle(head').total = 0 /\ NewHandle(head').dirty = {}
        BY DEF NewHandle
      <3> QED
        BY <2>1, <3>1, NothingWaits DEF Bounded
    <2> QED
      BY <2>2, <2>4, <2>8, <2>9 DEF Added
  <1>4. CASE Open
    <2>1. /\ head \in Slots /\ Opened(store).ok /\ UNCHANGED <<store, head, content, failed>>
      BY <1>4, OpenIs
    <2>2. PICK h \in Handles : Added(h, Opened(store).of)
      BY <1>4, OpenIs
    <2>3. Kept2
      BY <1>2, <2>1
    <2>4. /\ store.node[head].kind = "file"
          /\ Opened(store).of.head = head /\ Opened(store).of.total = store.node[head].total
          /\ Opened(store).of.dirty = {}
      BY <1>1, <2>1, OpenedIs
    <2>5. Bounded(Opened(store).of, head, Len(content))
      BY <2>1, <2>3, <2>4, NothingWaits DEF Bounded, OnlyHead
    <2>6. ASSUME NEW g \in DOMAIN files' PROVE Bounded(files'[g], head', Len(content'))
      <3>1. g = h \/ g \in DOMAIN files
        BY <2>2, <2>6 DEF Added
      <3> QED
        BY <2>1, <2>2, <2>3, <2>5, <3>1 DEF Added
    <2> QED
      BY <2>1, <2>3, <2>6
  <1>5. CASE Read
    <2>1. UNCHANGED <<store, head, held, content, failed>>
      BY <1>5, ReadIs
    <2>2. PICK h \in held, ci \in 0..MaxSize : \E r \in EnsureCached(store, files[h], ci) :
             r \in Reached /\ Changed(h, r.of)
      BY <1>5, ReadIs
    <2>3. PICK r \in EnsureCached(store, files[h], ci) : r \in Reached /\ Changed(h, r.of)
      BY <2>2
    <2>4. Kept2
      BY <1>2, <2>1
    <2>5. h \in DOMAIN files /\ files[h] \in OpenFiles /\ Bounded(files[h], head, Len(content))
      BY <1>1, <2>4
    <2>6. /\ SameButCache(r.of, files[h])
          /\ files[h].dirty \intersect DOMAIN files[h].cache \subseteq DOMAIN r.of.cache
      BY <1>1, <2>5, EnsureCachedKeeps
    <2>7. Bounded(r.of, head, Len(content))
      BY <2>5, <2>6 DEF Bounded, SameButCache, Marked, Waiting, Continuation
    <2> QED
      BY <2>1, <2>3, <2>4, <2>7 DEF Changed
  <1>6. CASE Write
    <2>1. PICK h \in held, from \in 0..MaxSize, to \in 0..MaxSize :
                 /\ from < to
                 /\ Len(content') = (IF Len(content) >= to THEN Len(content) ELSE to)
                 /\ \E r \in WriteRequest(store, files[h], from, to, writes') :
                       /\ r \in Results /\ Changed(h, r.of)
                       /\ store' = r.st /\ failed' = (failed \/ ~r.ok)
      BY <1>6, WriteIs
    <2>2. PICK r \in WriteRequest(store, files[h], from, to, writes') :
                       /\ r \in Results /\ Changed(h, r.of)
                       /\ store' = r.st /\ failed' = (failed \/ ~r.ok)
      BY <2>1
    <2>3. writes' \in Byte /\ head' = head
      BY <1>6, WriteIs
    <2>4. Kept2 /\ r.ok
      BY <1>2, <2>2
    <2>5. h \in DOMAIN files /\ files[h] \in OpenFiles /\ Bounded(files[h], head, Len(content))
          /\ files[h].head = head
      BY <1>1, <2>4 DEF Bounded
    <2>6. /\ Len(content') \in Nat /\ Len(content') >= Len(content) /\ Len(content') >= to
      BY <1>1, <2>1
    <2>7. Bounded(r.of, head, Len(content')) /\ OnlyHead(r.st, head, Len(content'))
      BY <1>1, <2>1, <2>3, <2>4, <2>5, <2>6, WriteBounded
    <2>8. ASSUME NEW g \in DOMAIN files PROVE Bounded(files[g], head, Len(content'))
      <3>1. files[g].total \in Nat
        BY <1>1, Fields, Sizes
      <3> QED
        BY <1>1, <2>4, <2>6, <3>1 DEF Bounded
    <2> QED
      BY <2>2, <2>3, <2>7, <2>8 DEF Changed
  <1>7. CASE SetSize
    <2>1. PICK h \in DOMAIN files, size \in SizesAsked :
             content' = SizeOf(content, size) /\ Changed(h, Resized(files[h], size))
      BY <1>7, SetSizeIs
    <2>2. UNCHANGED <<store, head, failed>>
      BY <1>7, SetSizeIs
    <2>3. Kept2
      BY <1>2, <2>2
    <2>4. size \in 0..MaxSize /\ size \in Nat /\ size > Len(content) /\ Len(content') = size
      BY <2>1, SizesAskedIs
    <2>5. files[h] \in OpenFiles /\ files[h].total \in Nat /\ Bounded(files[h], head, Len(content))
      BY <1>1, <2>3, Fields, Sizes
    <2>6. size > files[h].total
      BY <1>1, <2>4, <2>5 DEF Bounded
    <2>7. Resized(files[h], size) = [files[h] EXCEPT !.total = size, !.metaDirty = TRUE]
      BY <2>4, <2>5, <2>6, ResizedIs
    <2>8. /\ Resized(files[h], size).head = files[h].head /\ Resized(files[h], size).total = size
          /\ Resized(files[h], size).dirty = files[h].dirty /\ Resized(files[h], size).map = files[h].map
          /\ Resized(files[h], size).cache = files[h].cache
      BY <2>5, <2>7 DEF OpenFiles
    <2>9. Bounded(Resized(files[h], size), head, size)
      BY <2>4, <2>5, <2>8 DEF Bounded, Marked, Waiting, Continuation
    <2>10. ASSUME NEW g \in DOMAIN files PROVE Bounded(files[g], head, size)
      <3>1. files[g].total \in Nat
        BY <1>1, Fields, Sizes
      <3> QED
        BY <1>1, <2>3, <2>4, <3>1 DEF Bounded
    <2>11. OnlyHead(store, head, size)
      BY <1>1, <2>3, <2>4, OnlyHeadMore
    <2> QED
      BY <2>1, <2>2, <2>4, <2>9, <2>10, <2>11 DEF Changed
  <1>8. CASE SetSizeOnDisk
    <2>1. PICK size \in SizesAsked : content' = SizeOf(content, size) /\ store' = ResizedOnDisk(store, size)
      BY <1>8, SetSizeOnDiskIs
    <2>2. UNCHANGED <<head, files, failed>> /\ DOMAIN files = {} /\ head \in Slots
          /\ store.node[head].kind = "file"
      BY <1>8, SetSizeOnDiskIs
    <2>3. Kept2
      BY <1>2, <2>2
    <2>4. size \in 0..MaxSize /\ size \in Nat /\ size > Len(content) /\ Len(content') = size
      BY <2>1, SizesAskedIs
    <2> DEFINE fb == store.node[head]
    <2>5. fb \in Nodes /\ fb.total \in Nat /\ fb.total <= Len(content)
      BY <1>1, <2>2, <2>3, StoreFields, NodeFields, Sizes DEF OnlyHead
    <2>6. store' = Updated(store, head, [fb EXCEPT !.total = size])
      <3>1. size >= fb.total
        BY <1>1, <2>4, <2>5
      <3> QED
        BY <1>1, <2>1, <2>2, <2>4, <3>1, ResizedOnDiskIs
    <2>7. \A t \in Slots : store'.node[t] = IF t = head THEN [fb EXCEPT !.total = size] ELSE store.node[t]
      BY <1>1, <2>2, <2>6, StoreFields DEF Updated, Stores
    <2>8. [fb EXCEPT !.total = size].total = size
      <3>1. fb \in [kind: {"file"}, total: 0..MaxSize, slots: {q \in Seq(Slots) : Len(q) <= MaxDirect},
            chain: Link, data: Chunk]
        BY <2>2, <2>5 DEF Nodes, Noise
      <3> QED
        BY <3>1
    <2> DEFINE new == [fb EXCEPT !.total = size]
    <2>a. new.total = size /\ \A t \in Slots : store'.node[t] = IF t = head THEN new ELSE store.node[t]
      BY <2>7, <2>8
    <2> HIDE DEF new, fb
    <2>9. OnlyHead(store', head, size)
      BY <2>3, <2>4, <2>a DEF OnlyHead
    <2> QED
      BY <2>2, <2>4, <2>9
  <1>9. CASE Flush
    <2>1. PICK h \in held : \E r \in FlushFh(store, files[h]) :
             r \in Results /\ Changed(h, r.of) /\ store' = r.st /\ failed' = (failed \/ ~r.ok)
      BY <1>9, FlushIs
    <2>2. PICK r \in FlushFh(store, files[h]) :
             r \in Results /\ Changed(h, r.of) /\ store' = r.st /\ failed' = (failed \/ ~r.ok)
      BY <2>1
    <2>3. UNCHANGED <<head, content>>
      BY <1>9, FlushIs
    <2>4. Kept2 /\ r.ok
      BY <1>2, <2>2
    <2>5. h \in DOMAIN files /\ files[h] \in OpenFiles /\ files[h].head = head /\ files[h].total <= Len(content)
      BY <1>1, <2>4 DEF Bounded
    <2>6. /\ r.of.head = head /\ r.of.total <= Len(content) /\ r.of.dirty = {}
          /\ OnlyHead(r.st, head, Len(content))
      BY <1>1, <2>4, <2>5, FlushFhKeeps
    <2>7. Bounded(r.of, head, Len(content))
      BY <2>6, NothingWaits DEF Bounded
    <2> QED
      BY <2>2, <2>3, <2>4, <2>6, <2>7 DEF Changed
  <1>10. CASE Release
    <2>1. PICK h \in held : \E r \in FlushFh(store, files[h]) :
                 /\ r \in Results /\ store' = r.st /\ failed' = (failed \/ ~r.ok)
                 /\ r.ok => /\ DOMAIN files' = DOMAIN files \ {h}
                            /\ \A g \in DOMAIN files' : files'[g] = files[g]
      BY <1>10, ReleaseIs
    <2>2. PICK r \in FlushFh(store, files[h]) :
                 /\ r \in Results /\ store' = r.st /\ failed' = (failed \/ ~r.ok)
                 /\ r.ok => /\ DOMAIN files' = DOMAIN files \ {h}
                            /\ \A g \in DOMAIN files' : files'[g] = files[g]
      BY <2>1
    <2>3. UNCHANGED <<head, content>>
      BY <1>10, ReleaseIs
    <2>4. Kept2 /\ r.ok
      BY <1>2, <2>2
    <2>5. h \in DOMAIN files /\ files[h] \in OpenFiles /\ files[h].head = head /\ files[h].total <= Len(content)
      BY <1>1, <2>4 DEF Bounded
    <2>6. OnlyHead(r.st, head, Len(content))
      BY <1>1, <2>4, <2>5, FlushFhKeeps
    <2> QED
      BY <2>2, <2>3, <2>4, <2>6
  <1>11. CASE Unlink
    <2>1. /\ head \in Slots /\ head' = None /\ content' = <<>> /\ failed' = failed
          /\ store' = Unlinked(store, head) /\ DOMAIN files' = {}
      BY <1>11, UnlinkIs DEF NoHandles
    <2>2. Kept2
      BY <1>2, <2>1
    <2> DEFINE fb == store.node[head]
               mid == IF fb.kind = "file" THEN ChainFreed(FreedAll(store, fb.slots), fb.chain) ELSE store
    <2>3. fb \in Nodes
      BY <1>1, <2>1, StoreFields
    <2>4. mid \in Stores /\ OnlyHead(mid, head, Len(content))
      <3>1. CASE fb.kind = "file"
        <4>1. fb.slots \in Seq(Slots) /\ fb.chain \in Link
          BY <2>3, <3>1, NodeFields
        <4>2. FreedAll(store, fb.slots) \in Stores /\ OnlyHead(FreedAll(store, fb.slots), head, Len(content))
          BY <1>1, <2>2, <4>1, StoreTyped, OnlyHeadKept
        <4> QED
          BY <3>1, <4>1, <4>2, ChainFreedTyped, OnlyHeadChainFreed
      <3>2. CASE fb.kind # "file"
        BY <1>1, <2>2, <3>2
      <3> QED
        BY <3>1, <3>2
    <2>5. store' = Freed(mid, head)
      BY <2>1 DEF Unlinked
    <2> HIDE DEF mid
    <2>6. \A t \in Slots : store'.node[t] = IF t = head THEN Noise ELSE mid.node[t]
      BY <2>1, <2>4, <2>5, StoreFields DEF Freed
    <2>7. \A t \in Slots : store'.node[t].kind # "file"
      BY <2>4, <2>6, BlockFields DEF OnlyHead
    <2> QED
      BY <2>1, <2>7 DEF OnlyHead
  <1>12. CASE Remount
    <2>1. PICK r \in FlushAll(store) : store' = Mounted(r.st) /\ failed' = (failed \/ ~r.ok)
      BY <1>12, RemountIs
    <2>2. UNCHANGED <<head, content>> /\ DOMAIN files' = {}
      BY <1>12, RemountIs DEF NoHandles
    <2>3. failed \in BOOLEAN
      BY StateTyped
    <2>4. Kept2
      BY <1>2, <2>1
    <2> DEFINE P == {q \in Flushed : q.ok => OnlyHead(q.st, head, Len(content))}
    <2>5. [ok |-> TRUE, st |-> store] \in P
      BY <1>1, <2>4 DEF Flushed
    <2>6. ASSUME NEW q \in Flushed, NEW h \in DOMAIN files, q \in P, q.st \in Stores,
                 NEW f \in FlushFh(q.st, files[h])
          PROVE  [ok |-> q.ok /\ f.ok, st |-> f.st] \in P
      <3>1. files[h] \in OpenFiles /\ files[h].head = head /\ files[h].total <= Len(content)
        BY <1>1, <2>4 DEF Bounded
      <3>2. f \in Results /\ f.ok \in BOOLEAN /\ f.st \in Stores /\ q.ok \in BOOLEAN
        BY <2>6, <3>1, FlushFhTyped DEF Results, Flushed
      <3>3. q.ok /\ f.ok => OnlyHead(f.st, head, Len(content))
        BY <1>1, <2>6, <3>1, FlushFhKeeps
      <3> QED
        BY <3>2, <3>3 DEF Flushed
    <2> HIDE DEF P
    <2>7. r \in Flushed /\ r \in P
      BY <2>5, <2>6, FlushAllInduction
    <2>8. r.ok /\ OnlyHead(r.st, head, Len(content))
      BY <2>1, <2>7 DEF P
    <2>9. store'.node = r.st.node
      BY <2>1, <2>7 DEF Mounted, Flushed, Stores
    <2> QED
      BY <2>2, <2>8, <2>9 DEF OnlyHead
  <1>13. CASE UNCHANGED vars
    BY <1>2, <1>13 DEF vars
  <1> QED
    BY <1>3, <1>4, <1>5, <1>6, <1>7, <1>8, <1>9, <1>10, <1>11, <1>12, <1>13 DEF Next

(* Without a request to truncate, no handle has more unwritten chunks in     *)
(* memory than the write-through threshold, whatever the number of handles   *)
(* (op_write, write_through_flush).                                          *)
THEOREM MemoryIsBounded ==
    ASSUME "truncate" \notin Requests
    PROVE  Spec => []DirtyBounded
  <1>1. Init => BoundedInv
    <2> SUFFICES ASSUME Init PROVE BoundedInv
      OBVIOUS
    <2>1. OnlyHead(store, head, Len(content)) /\ DOMAIN files = {}
      BY BlockFields DEF Init, OnlyHead
    <2> QED
      BY <2>1 DEF BoundedInv
  <1>2. Typed /\ BoundedInv /\ [Next]_vars => BoundedInv'
    BY BoundedStep
  <1>3. Typed /\ BoundedInv => DirtyBounded
    <2> SUFFICES ASSUME Typed, BoundedInv, ~failed, NEW h \in DOMAIN files
                 PROVE  Cardinality(Continuation(files[h]) \intersect DOMAIN files[h].cache) <= WriteThrough
      BY DEF DirtyBounded
    <2>1. files[h] \in OpenFiles /\ Waiting(files[h]) <= WriteThrough
      BY StateTyped DEF BoundedInv, Bounded
    <2>2. IsFiniteSet(Continuation(files[h])) /\ Waiting(files[h]) \in Nat
      BY <2>1, Fields, ContinuationFinite DEF Waiting
    <2> DEFINE S == Continuation(files[h]) \intersect DOMAIN files[h].cache
    <2>3. IsFiniteSet(S) /\ Cardinality(S) <= Waiting(files[h])
      BY <2>2, FS_Subset DEF Waiting
    <2>4. Cardinality(S) \in Nat
      BY <2>3, FS_CardinalityType
    <2> HIDE DEF S
    <2>5. Cardinality(S) <= WriteThrough
      BY <2>1, <2>2, <2>3, <2>4, Sizes
    <2> QED
      BY <2>5 DEF S
  <1> QED
    BY <1>1, <1>2, <1>3, TypedAlways, PTL DEF Spec

-----------------------------------------------------------------------------
(* Index chains.  The n blocks b of a chain are distinct, each names the     *)
(* next one, and rest[i] is what the blocks from b[i] on list.               *)

LEMMA Concatenations ==
    ASSUME NEW S, NEW p \in Seq(S), NEW q \in Seq(S), NEW r \in Seq(S)
    PROVE  (p \o q) \o r = p \o (q \o r) /\ p \o <<>> = p /\ <<>> \o p = p /\ p \o q \in Seq(S)
  OBVIOUS

At(n, b, i) == IF i <= n THEN b[i] ELSE None

Among(n, b) == {b[i] : i \in 1..n}

Linked(st, first, n, b, rest) ==
    /\ n \in Nat /\ b \in [1..n -> Slots] /\ rest \in [1..(n + 1) -> Seq(Slots)]
    /\ \A i, j \in 1..n : b[i] = b[j] => i = j
    /\ first = At(n, b, 1) /\ rest[n + 1] = <<>>
    /\ \A i \in 1..n : /\ st.node[b[i]].kind = "index" /\ st.node[b[i]].next = At(n, b, i + 1)
                       /\ rest[i] = st.node[b[i]].ids \o rest[i + 1]

(* The blocks and the ids of the chain that starts at first. *)
Chained(st, first, B, ids) ==
    \E n \in Nat : \E b \in [1..n -> Slots] : \E rest \in [1..(n + 1) -> Seq(Slots)] :
        /\ Linked(st, first, n, b, rest)
        /\ B = Among(n, b) /\ ids = rest[1]

LEMMA LinkedShort ==
    ASSUME NEW st, NEW first, NEW n, NEW b, NEW rest, Linked(st, first, n, b, rest)
    PROVE  n \in Nat /\ n <= Cardinality(Slots) /\ Cardinality(Slots) \in Nat
  <1>1. n \in Nat /\ b \in [1..n -> Slots] /\ \A i, j \in 1..n : b[i] = b[j] => i = j
    BY DEF Linked
  <1>2. IsFiniteSet(1..n) /\ Cardinality(1..n) = n
    BY <1>1, FS_Interval
  <1>3. b \in Injection(1..n, Slots)
    BY <1>1 DEF Injection, IsInjective
  <1>5. Cardinality(1..n) <= Cardinality(Slots)
    BY <1>3, SlotNumbers, FS_Injection
  <1> QED
    BY <1>1, <1>2, <1>5, SlotNumbers

(* A chain as a whole, and one block of it. *)
LEMMA LinkedIs ==
    ASSUME NEW st, NEW first, NEW n, NEW b, NEW rest, Linked(st, first, n, b, rest)
    PROVE  /\ n \in Nat /\ n + 1 \in Nat /\ 1 \in 1..(n + 1)
           /\ first = At(n, b, 1) /\ rest[n + 1] = <<>>
           /\ rest \in [1..(n + 1) -> Seq(Slots)] /\ rest[1] \in Seq(Slots)
  <1>1. /\ n \in Nat /\ rest \in [1..(n + 1) -> Seq(Slots)]
        /\ first = At(n, b, 1) /\ rest[n + 1] = <<>>
    BY DEF Linked
  <1>2. n + 1 \in Nat /\ 1 \in 1..(n + 1)
    BY <1>1
  <1> QED
    BY <1>1, <1>2

Block(st, n, b, rest, i) ==
    /\ b[i] \in Slots /\ At(n, b, i) = b[i] /\ b[i] # None
    /\ st.node[b[i]].kind = "index" /\ st.node[b[i]].next = At(n, b, i + 1)
    /\ st.node[b[i]].ids \in Seq(Slots)
    /\ rest[i] = st.node[b[i]].ids \o rest[i + 1] /\ rest[i + 1] \in Seq(Slots)

LEMMA LinkedBlock ==
    ASSUME NEW st \in Stores, NEW first, NEW n, NEW b, NEW rest, Linked(st, first, n, b, rest),
           NEW i \in 1..n
    PROVE  Block(st, n, b, rest, i)
  <1>1. /\ n \in Nat /\ b \in [1..n -> Slots] /\ rest \in [1..(n + 1) -> Seq(Slots)]
        /\ st.node[b[i]].kind = "index" /\ st.node[b[i]].next = At(n, b, i + 1)
        /\ rest[i] = st.node[b[i]].ids \o rest[i + 1]
    BY DEF Linked
  <1>2. b[i] \in Slots /\ At(n, b, i) = b[i] /\ b[i] # None
    BY <1>1, SlotNumbers DEF At
  <1>3. st.node[b[i]] \in Nodes
    BY <1>2, StoreFields
  <1>4. st.node[b[i]].ids \in Seq(Slots)
    BY <1>1, <1>3, NodeFields
  <1>5. rest[i + 1] \in Seq(Slots)
    BY <1>1
  <1> QED
    BY <1>1, <1>2, <1>4, <1>5 DEF Block

LEMMA PastTheEnd ==
    ASSUME NEW n \in Nat, NEW b, NEW i \in Nat, i >= n + 1
    PROVE  At(n, b, i) = None
  BY DEF At

Upto(n, b, i) == {b[j] : j \in {m \in 1..n : m <= i}}

LEMMA UptoIs ==
    ASSUME NEW n \in Nat, NEW b
    PROVE  /\ Upto(n, b, 0) = {}
           /\ \A i \in 1..n : Upto(n, b, i) = Upto(n, b, i - 1) \union {b[i]}
           /\ \A i \in Nat : i >= n => Upto(n, b, i) = Among(n, b)
  <1>1. Upto(n, b, 0) = {}
    BY DEF Upto
  <1>2. ASSUME NEW i \in 1..n PROVE Upto(n, b, i) = Upto(n, b, i - 1) \union {b[i]}
    <2>1. {m \in 1..n : m <= i} = {m \in 1..n : m <= i - 1} \union {i}
      OBVIOUS
    <2> QED
      BY <2>1 DEF Upto
  <1>3. ASSUME NEW i \in Nat, i >= n PROVE Upto(n, b, i) = Among(n, b)
    <2>1. {m \in 1..n : m <= i} = 1..n
      BY <1>3
    <2> QED
      BY <2>1 DEF Upto, Among
  <1> QED
    BY <1>1, <1>2, <1>3

(* After i rounds the walk is at the block after b[i]. *)
Walked(n, b, rest, i, r) ==
    /\ r.ok /\ r.next = At(n, b, i + 1) /\ r.blocks = Upto(n, b, i)
    /\ IF i <= n THEN r.ids \o rest[i + 1] = rest[1] ELSE r.ids = rest[1]

LEMMA WalkedOn ==
    ASSUME NEW st \in Stores, NEW first, NEW n, NEW b, NEW rest, Linked(st, first, n, b, rest),
           NEW i \in Nat, i >= 1, NEW r \in Walks, Walked(n, b, rest, i - 1, r)
    PROVE  Walked(n, b, rest, i, Follow(st, r))
  <1>1. n \in Nat /\ rest[n + 1] = <<>> /\ rest[1] \in Seq(Slots)
    BY LinkedIs
  <1>2. /\ r.ok /\ r.next = At(n, b, i) /\ r.blocks = Upto(n, b, i - 1) /\ r.ids \in Seq(Slots)
        /\ i - 1 <= n => r.ids \o rest[i] = rest[1]
        /\ ~(i - 1 <= n) => r.ids = rest[1]
    <2>1. i - 1 + 1 = i
      OBVIOUS
    <2> QED
      BY <2>1 DEF Walked, Walks
  <1>3. CASE i <= n
    <2>1. i \in 1..n /\ i - 1 <= n
      BY <1>1, <1>3
    <2>0. Block(st, n, b, rest, i)
      BY <2>1, LinkedBlock
    <2> DEFINE node == st.node[b[i]]
               tail == rest[i + 1]
               got == Follow(st, r)
    <2>2. /\ b[i] # None /\ At(n, b, i) = b[i] /\ node.kind = "index" /\ node.next = At(n, b, i + 1)
          /\ node.ids \in Seq(Slots) /\ rest[i] = node.ids \o tail /\ tail \in Seq(Slots)
      BY <2>0 DEF Block
    <2>3. r.next = b[i]
      BY <1>2, <2>2
    <2>4. got = [ok |-> TRUE, next |-> node.next, ids |-> r.ids \o node.ids,
                 blocks |-> r.blocks \union {b[i]}]
      BY <1>2, <2>2, <2>3 DEF Follow
    <2> HIDE DEF node, tail, got
    <2>5. got.ok /\ got.next = At(n, b, i + 1) /\ got.ids = r.ids \o node.ids
          /\ got.blocks = r.blocks \union {b[i]}
      BY <2>2, <2>4
    <2>6. (r.ids \o node.ids) \o tail = r.ids \o (node.ids \o tail)
      <3> DEFINE p == r.ids
                 q == node.ids
      <3>1. p \in Seq(Slots) /\ q \in Seq(Slots) /\ tail \in Seq(Slots)
        BY <1>2, <2>2
      <3> HIDE DEF p, q
      <3>2. (p \o q) \o tail = p \o (q \o tail)
        BY <3>1, Concatenations
      <3> QED
        BY <3>2 DEF p, q
    <2>7. got.ids \o tail = rest[1]
      BY <1>2, <2>1, <2>2, <2>5, <2>6
    <2>8. Upto(n, b, i) = Upto(n, b, i - 1) \union {b[i]}
      <3>1. n \in Nat /\ i \in 1..n
        BY <1>1, <2>1
      <3>2. \A m \in 1..n : Upto(n, b, m) = Upto(n, b, m - 1) \union {b[m]}
        BY <3>1, UptoIs
      <3> QED
        BY <3>1, <3>2
    <2>9. got.blocks = Upto(n, b, i)
      BY <1>2, <2>5, <2>8
    <2> QED
      BY <1>3, <2>5, <2>7, <2>9 DEF Walked, got, tail
  <1>4. CASE ~(i <= n)
    <2>1. r.next = None /\ At(n, b, i + 1) = None
      BY <1>1, <1>2, <1>4, PastTheEnd
    <2>2. Follow(st, r) = r
      BY <2>1 DEF Follow
    <2>3. Upto(n, b, i) = Upto(n, b, i - 1)
      <3> DEFINE j == i - 1
      <3>1. i >= n /\ j \in Nat /\ j >= n
        BY <1>1, <1>4
      <3> HIDE DEF j
      <3>2. Upto(n, b, i) = Among(n, b) /\ Upto(n, b, j) = Among(n, b)
        BY <1>1, <3>1, UptoIs
      <3> QED
        BY <3>2 DEF j
    <2>4. r.ids = rest[1]
      <3>1. CASE i - 1 <= n
        <4>1. i = n + 1
          BY <1>1, <1>4, <3>1
        <4>2. r.ids \o <<>> = rest[1]
          BY <1>1, <1>2, <3>1, <4>1
        <4> QED
          BY <1>2, <4>2, Concatenations
      <3> QED
        BY <1>2, <3>1
    <2> QED
      BY <1>2, <1>4, <2>1, <2>2, <2>3, <2>4 DEF Walked
  <1> QED
    BY <1>3, <1>4

(* The parts of a chain. *)
LEMMA ChainedIs ==
    ASSUME NEW st, NEW first, NEW B, NEW ids, Chained(st, first, B, ids)
    PROVE  \E n, b, rest : /\ Linked(st, first, n, b, rest)
                           /\ B = Among(n, b) /\ ids = rest[1]
  BY DEF Chained

LEMMA ChainedFrom ==
    ASSUME NEW st, NEW first, NEW n, NEW b, NEW rest, Linked(st, first, n, b, rest)
    PROVE  Chained(st, first, Among(n, b), rest[1])
  <1>1. n \in Nat /\ b \in [1..n -> Slots] /\ rest \in [1..(n + 1) -> Seq(Slots)]
    BY DEF Linked
  <1> QED
    BY <1>1 DEF Chained

(* What build_slot_map finds on a chain. *)
LEMMA ChainRead ==
    ASSUME NEW st \in Stores, NEW first \in Link, NEW B, NEW ids, Chained(st, first, B, ids)
    PROVE  /\ IndexChain(st, first).ok /\ IndexChain(st, first).ids = ids
           /\ IndexChain(st, first).blocks = B
           /\ ids \in Seq(Slots) /\ B \subseteq Slots
           /\ \A s \in B : st.node[s].kind = "index"
  <1>1. PICK n, b, rest : Linked(st, first, n, b, rest) /\ B = Among(n, b) /\ ids = rest[1]
    BY ChainedIs
  <1>2. /\ n \in Nat /\ first = At(n, b, 1) /\ rest[1] \in Seq(Slots) /\ rest[n + 1] = <<>>
        /\ \A i \in 1..n : b[i] \in Slots /\ st.node[b[i]].kind = "index"
    <2>1. ASSUME NEW i \in 1..n PROVE b[i] \in Slots /\ st.node[b[i]].kind = "index"
      <3>1. Block(st, n, b, rest, i)
        BY <1>1, LinkedBlock
      <3> QED
        BY <3>1 DEF Block
    <2> QED
      BY <1>1, <2>1, LinkedIs
  <1> DEFINE k == Cardinality(Slots)
  <1>3. n <= k /\ k \in Nat
    BY <1>1, LinkedShort
  <1>4. PICK f \in [0..k -> Walks] :
              /\ f[0] = WalkStart(first)
              /\ \A i \in 1..k : f[i] = Follow(st, f[i - 1])
              /\ IndexWalk(st, first) = f[k]
    BY IndexWalked
  <1> HIDE DEF k
  <1> DEFINE Q == {i \in 0..k : Walked(n, b, rest, i, f[i])}
  <1>5. 0 \in Q
    <2>1. f[0].ok /\ f[0].next = first /\ f[0].ids = <<>> /\ f[0].blocks = {}
      BY <1>4 DEF WalkStart
    <2>2. Upto(n, b, 0) = {} /\ <<>> \o rest[1] = rest[1]
      BY <1>2, UptoIs, Concatenations
    <2>3. Walked(n, b, rest, 0, f[0])
      BY <1>2, <2>1, <2>2 DEF Walked
    <2> QED
      BY <1>3, <2>3
  <1>6. ASSUME NEW i \in 1..k, i - 1 \in Q PROVE i \in Q
    <2>1. f[i - 1] \in Walks /\ Walked(n, b, rest, i - 1, f[i - 1]) /\ f[i] = Follow(st, f[i - 1])
          /\ i \in Nat /\ i >= 1
      BY <1>3, <1>4, <1>6
    <2>2. Walked(n, b, rest, i, f[i])
      BY <1>1, <2>1, WalkedOn
    <2> QED
      BY <1>3, <2>2
  <1> HIDE DEF Q
  <1>7. \A i \in 0..k : i \in Q
    BY <1>3, <1>5, <1>6, Induction
  <1>8. Walked(n, b, rest, k, f[k]) /\ f[k] \in Walks
    BY <1>3, <1>4, <1>7 DEF Q
  <1>9. f[k].ok /\ f[k].next = None /\ f[k].blocks = B
    <2>1. Upto(n, b, k) = B
      BY <1>1, <1>2, <1>3, UptoIs
    <2>2. At(n, b, k + 1) = None
      BY <1>2, <1>3, PastTheEnd
    <2> QED
      BY <1>8, <2>1, <2>2 DEF Walked
  <1>10. f[k].ids = ids
    <2>1. CASE k = n
      <3>1. f[k].ids \o rest[k + 1] = rest[1] /\ rest[k + 1] = <<>>
        <4>1. k <= n
          BY <1>3, <2>1
        <4> QED
          BY <1>2, <1>8, <2>1, <4>1 DEF Walked
      <3>2. f[k].ids \in Seq(Slots)
        BY <1>8 DEF Walks
      <3> DEFINE p == f[k].ids
      <3>3. p \in Seq(Slots) /\ p \o <<>> = rest[1]
        BY <3>1, <3>2
      <3> HIDE DEF p
      <3>4. p = rest[1]
        BY <3>3, Concatenations
      <3> QED
        BY <1>1, <3>4 DEF p
    <2>2. CASE k # n
      <3>1. ~(k <= n)
        BY <1>2, <1>3, <2>2
      <3> QED
        BY <1>1, <1>8, <3>1 DEF Walked
    <2> QED
      BY <2>1, <2>2
  <1>11. IndexChain(st, first) = [f[k] EXCEPT !.ok = @ /\ f[k].next = None]
    BY <1>4, IndexWalkIs
  <1>12. IndexChain(st, first).ok /\ IndexChain(st, first).ids = ids /\ IndexChain(st, first).blocks = B
    BY <1>8, <1>9, <1>10, <1>11 DEF Walks
  <1> QED
    BY <1>1, <1>2, <1>12 DEF Among

(* Only the blocks of a chain matter to it. *)
LEMMA ChainedSame ==
    ASSUME NEW st, NEW st2, NEW first, NEW B, NEW ids, Chained(st, first, B, ids),
           \A s \in B : st2.node[s] = st.node[s]
    PROVE  Chained(st2, first, B, ids)
  <1>1. PICK n, b, rest : Linked(st, first, n, b, rest) /\ B = Among(n, b) /\ ids = rest[1]
    BY ChainedIs
  <1>2. \A i \in 1..n : st2.node[b[i]] = st.node[b[i]]
    BY <1>1 DEF Among
  <1>3. Linked(st2, first, n, b, rest)
    BY <1>1, <1>2 DEF Linked
  <1>4. Chained(st2, first, Among(n, b), rest[1])
    BY <1>3, ChainedFrom
  <1> QED
    BY <1>1, <1>4

LEMMA ChainedNone ==
    ASSUME NEW st
    PROVE  /\ Chained(st, None, {}, <<>>)
           /\ \A B, ids : Chained(st, None, B, ids) => B = {} /\ ids = <<>>
  <1>1. Chained(st, None, {}, <<>>)
    <2> DEFINE b == [i \in 1..0 |-> 0]
               rest == [i \in 1..1 |-> <<>>]
    <2>1. b \in [1..0 -> Slots] /\ rest \in [1..(0 + 1) -> Seq(Slots)] /\ rest[1] = <<>>
          /\ {b[i] : i \in 1..0} = {}
      OBVIOUS
    <2> HIDE DEF b, rest
    <2>2. Linked(st, None, 0, b, rest)
      BY <2>1 DEF Linked, At
    <2>3. Chained(st, None, Among(0, b), rest[1])
      BY <2>2, ChainedFrom
    <2> QED
      BY <2>1, <2>3 DEF Among
  <1>2. ASSUME NEW B, NEW ids, Chained(st, None, B, ids) PROVE B = {} /\ ids = <<>>
    <2>1. PICK n, b, rest : Linked(st, None, n, b, rest) /\ B = Among(n, b) /\ ids = rest[1]
      BY <1>2, ChainedIs
    <2>2. n \in Nat /\ b \in [1..n -> Slots] /\ At(n, b, 1) = None /\ rest[n + 1] = <<>>
      BY <2>1 DEF Linked
    <2>3. n = 0
      BY <2>2, SlotNumbers DEF At
    <2> QED
      BY <2>1, <2>2, <2>3 DEF Among
  <1> QED
    BY <1>1, <1>2

-----------------------------------------------------------------------------
(* Who owns which slot.                                                      *)

(* A file with no more chunks than a head has direct slots needs no chain.   *)
FitsDirect == Chunks(MaxSize) <= MaxDirect + 1

(* Nothing asked for makes the code forget a slot.                           *)
Lossless ==
    /\ "unlink open" \notin Requests
    /\ "closed size" \in Requests \/ "unlink" \in Requests => FitsDirect

(* The slots of O are the file's; the others are free, if none is forgotten. *)
Owner(st, O) ==
    \A s \in Slots : /\ st.free[s] <= 1
                     /\ s \in O => st.free[s] = 0
                     /\ Lossless /\ s \notin O => st.free[s] = 1

SameNodes(new, st, S) == \A s \in S : new.node[s] = st.node[s]

Distinct(ids) == \A i, j \in 1..Len(ids) : ids[i] = ids[j] => i = j

Members(ids) == {ids[i] : i \in 1..Len(ids)}

LEMMA OwnerUpdated ==
    ASSUME NEW st \in Stores, NEW O, Owner(st, O), NEW s \in Slots, NEW node
    PROVE  /\ Owner(Updated(st, s, node), O) /\ Updated(st, s, node).node[s] = node
           /\ SameNodes(Updated(st, s, node), st, Slots \ {s})
           /\ Updated(st, s, node).free = st.free
  <1>1. Updated(st, s, node).free = st.free /\ Updated(st, s, node).node = [st.node EXCEPT ![s] = node]
    BY DEF Updated, Stores
  <1>2. st.node \in [Slots -> Nodes]
    BY StoreFields
  <1> QED
    BY <1>1, <1>2 DEF Owner, SameNodes

LEMMA OwnerWritten ==
    ASSUME NEW st \in Stores, NEW O, Owner(st, O), HasSpace(st), NEW node
    PROVE  /\ NextFree(st) \in Slots /\ NextFree(st) \notin O
           /\ Owner(Written(st, node), O \union {NextFree(st)})
           /\ Written(st, node).node[NextFree(st)] = node
           /\ SameNodes(Written(st, node), st, Slots \ {NextFree(st)})
  <1> DEFINE s == NextFree(st)
  <1>1. s \in Slots /\ st.free[s] > 0
    BY NextFreeFree
  <1> HIDE DEF s
  <1>2. st.node \in [Slots -> Nodes] /\ st.free \in [Slots -> Nat]
    BY StoreFields
  <1>3. Written(st, node).node = [st.node EXCEPT ![s] = node]
        /\ Written(st, node).free = [st.free EXCEPT ![s] = @ - 1]
    BY DEF Written, s
  <1>4. st.free[s] \in Nat /\ st.free[s] <= 1 /\ s \notin O
    BY <1>1, <1>2 DEF Owner
  <1>5. Owner(Written(st, node), O \union {s})
    <2> SUFFICES ASSUME NEW t \in Slots
                 PROVE  /\ Written(st, node).free[t] <= 1
                        /\ t \in O \union {s} => Written(st, node).free[t] = 0
                        /\ Lossless /\ t \notin O \union {s} => Written(st, node).free[t] = 1
      BY DEF Owner
    <2>1. CASE t = s
      <3>1. Written(st, node).free[t] = st.free[s] - 1
        BY <1>1, <1>2, <1>3, <2>1
      <3> QED
        BY <1>1, <1>4, <2>1, <3>1
    <2>2. CASE t # s
      <3>1. Written(st, node).free[t] = st.free[t]
        BY <1>2, <1>3, <2>2
      <3> QED
        BY <2>2, <3>1 DEF Owner
    <2> QED
      BY <2>1, <2>2
  <1>6. Written(st, node).node[s] = node /\ SameNodes(Written(st, node), st, Slots \ {s})
    BY <1>1, <1>2, <1>3 DEF SameNodes
  <1> QED
    BY <1>1, <1>4, <1>5, <1>6 DEF s

LEMMA OwnerFreed ==
    ASSUME NEW st \in Stores, NEW O, Owner(st, O), NEW s \in Slots, s \in O
    PROVE  /\ Owner(Freed(st, s), O \ {s})
           /\ SameNodes(Freed(st, s), st, Slots \ {s})
  <1>2. st.node \in [Slots -> Nodes] /\ st.free \in [Slots -> Nat]
    BY StoreFields
  <1>3. Freed(st, s).node = [st.node EXCEPT ![s] = Noise]
        /\ Freed(st, s).free = [st.free EXCEPT ![s] = @ + 1]
    BY DEF Freed
  <1>5. Owner(Freed(st, s), O \ {s})
    <2> SUFFICES ASSUME NEW t \in Slots
                 PROVE  /\ Freed(st, s).free[t] <= 1
                        /\ t \in O \ {s} => Freed(st, s).free[t] = 0
                        /\ Lossless /\ t \notin O \ {s} => Freed(st, s).free[t] = 1
      BY DEF Owner
    <2>1. CASE t = s
      <3>1. Freed(st, s).free[t] = st.free[s] + 1 /\ st.free[s] = 0
        BY <1>2, <1>3, <2>1 DEF Owner
      <3> QED
        BY <2>1, <3>1
    <2>2. CASE t # s
      <3>1. Freed(st, s).free[t] = st.free[t]
        BY <1>2, <1>3, <2>2
      <3> QED
        BY <2>2, <3>1 DEF Owner
    <2> QED
      BY <2>1, <2>2
  <1>6. SameNodes(Freed(st, s), st, Slots \ {s})
    BY <1>2, <1>3 DEF SameNodes
  <1> QED
    BY <1>5, <1>6

LEMMA CountOnce ==
    ASSUME NEW ids \in Seq(Slots), Distinct(ids), NEW s
    PROVE  Cardinality({i \in DOMAIN ids : ids[i] = s}) = IF s \in Members(ids) THEN 1 ELSE 0
  <1>1. DOMAIN ids = 1..Len(ids)
    OBVIOUS
  <1>2. CASE s \in Members(ids)
    <2>1. PICK i \in 1..Len(ids) : ids[i] = s
      BY <1>2 DEF Members
    <2>2. {j \in DOMAIN ids : ids[j] = s} = {i}
      BY <1>1, <2>1 DEF Distinct
    <2> QED
      BY <1>2, <2>2, FS_Singleton
  <1>3. CASE s \notin Members(ids)
    <2>1. {j \in DOMAIN ids : ids[j] = s} = {}
      BY <1>1, <1>3 DEF Members
    <2> QED
      BY <1>3, <2>1, FS_EmptySet
  <1> QED
    BY <1>2, <1>3

LEMMA OwnerFreedAll ==
    ASSUME NEW st \in Stores, NEW O, Owner(st, O), NEW ids \in Seq(Slots), Distinct(ids),
           Members(ids) \subseteq O
    PROVE  /\ Owner(FreedAll(st, ids), O \ Members(ids))
           /\ SameNodes(FreedAll(st, ids), st, Slots \ Members(ids))
  <1>1. ToSet(ids) = Members(ids)
    BY DEF ToSet, Members
  <1>2. \A s \in Slots : FreedAll(st, ids).node[s] = (IF s \in Members(ids) THEN Noise ELSE st.node[s])
    BY <1>1 DEF FreedAll
  <1>3. ASSUME NEW s \in Slots
        PROVE  FreedAll(st, ids).free[s] = st.free[s] + (IF s \in Members(ids) THEN 1 ELSE 0)
    <2>1. FreedAll(st, ids).free[s] = st.free[s] + Cardinality({i \in DOMAIN ids : ids[i] = s})
      BY DEF FreedAll
    <2>2. Cardinality({i \in DOMAIN ids : ids[i] = s}) = IF s \in Members(ids) THEN 1 ELSE 0
      BY CountOnce
    <2> QED
      BY <2>1, <2>2
  <1>4. Owner(FreedAll(st, ids), O \ Members(ids))
    <2> SUFFICES ASSUME NEW t \in Slots
                 PROVE  /\ FreedAll(st, ids).free[t] <= 1
                        /\ t \in O \ Members(ids) => FreedAll(st, ids).free[t] = 0
                        /\ Lossless /\ t \notin O \ Members(ids) => FreedAll(st, ids).free[t] = 1
      BY DEF Owner
    <2>1. st.free[t] \in Nat /\ st.free[t] <= 1 /\ (t \in O => st.free[t] = 0)
          /\ (Lossless /\ t \notin O => st.free[t] = 1)
      BY StoreFields DEF Owner
    <2>2. CASE t \in Members(ids)
      <3>1. FreedAll(st, ids).free[t] = st.free[t] + 1 /\ st.free[t] = 0
        BY <1>3, <2>1, <2>2
      <3> QED
        BY <2>2, <3>1
    <2>3. CASE t \notin Members(ids)
      <3>1. FreedAll(st, ids).free[t] = st.free[t]
        BY <1>3, <2>1, <2>3
      <3> QED
        BY <2>1, <2>3, <3>1
    <2> QED
      BY <2>2, <2>3
  <1> QED
    BY <1>2, <1>4 DEF SameNodes

LEMMA SameNodesMore ==
    ASSUME NEW a, NEW b, NEW c, NEW S, NEW T, SameNodes(b, a, S), SameNodes(c, b, T)
    PROVE  SameNodes(c, a, S \intersect T)
  BY DEF SameNodes

-----------------------------------------------------------------------------
(* free_index_chain frees the blocks of a chain, each once.                  *)

(* After i rounds the blocks up to b[i] are free, and b[i + 1] comes next.   *)
Unchained(st, O, n, b, i, r) ==
    /\ r.next = At(n, b, i + 1) /\ Owner(r.st, O \ Upto(n, b, i))
    /\ SameNodes(r.st, st, Slots \ Upto(n, b, i))

LEMMA UptoMembers ==
    ASSUME NEW st, NEW first, NEW n, NEW b, NEW rest, Linked(st, first, n, b, rest), NEW i \in 1..n
    PROVE  b[i] \notin Upto(n, b, i - 1) /\ b[i] \in Among(n, b)
  <1>1. n \in Nat /\ \A k, j \in 1..n : b[k] = b[j] => k = j
    BY DEF Linked
  <1> QED
    BY <1>1 DEF Upto, Among

LEMMA UnchainedOn ==
    ASSUME NEW st \in Stores, NEW first, NEW n, NEW b, NEW rest, Linked(st, first, n, b, rest),
           NEW O, Among(n, b) \subseteq O,
           NEW i \in Nat, i >= 1, NEW r \in Freeings, Unchained(st, O, n, b, i - 1, r)
    PROVE  Unchained(st, O, n, b, i, FreeNext(r))
  <1>1. n \in Nat
    BY LinkedIs
  <1>2. r.next = At(n, b, i) /\ r.st \in Stores
        /\ Owner(r.st, O \ Upto(n, b, i - 1)) /\ SameNodes(r.st, st, Slots \ Upto(n, b, i - 1))
    <2>1. i - 1 + 1 = i
      OBVIOUS
    <2> QED
      BY <2>1 DEF Unchained, Freeings
  <1>3. CASE i <= n
    <2>1. i \in 1..n
      BY <1>1, <1>3
    <2>2. Block(st, n, b, rest, i)
      BY <2>1, LinkedBlock
    <2> DEFINE s == b[i]
               done == Upto(n, b, i - 1)
               new == Freed(r.st, s)
               left == O \ done
    <2>3. s \in Slots /\ s # None /\ r.next = s /\ st.node[s].kind = "index"
          /\ st.node[s].next = At(n, b, i + 1)
      BY <1>2, <2>2 DEF Block
    <2>4. s \notin done /\ s \in O
      BY <2>1, UptoMembers
    <2>5. Upto(n, b, i) = done \union {s}
      BY <1>1, <2>1, UptoIs
    <2>12. left = O \ done /\ s \in left /\ Owner(r.st, left)
      BY <1>2, <2>4
    <2> HIDE DEF s, done, new, left
    <2>6. r.st.node[s] = st.node[s]
      BY <1>2, <2>3, <2>4 DEF SameNodes, done
    <2>7. FreeNext(r) = [st |-> new, next |-> At(n, b, i + 1)]
      BY <2>3, <2>6 DEF FreeNext, new
    <2>8. Owner(new, left \ {s}) /\ SameNodes(new, r.st, Slots \ {s})
      BY <1>2, <2>3, <2>12, OwnerFreed DEF new
    <2>9. left \ {s} = O \ Upto(n, b, i)
      BY <2>5, <2>12
    <2>10. SameNodes(new, st, Slots \ Upto(n, b, i))
      BY <1>2, <2>5, <2>8 DEF SameNodes, done
    <2>11. FreeNext(r).st = new /\ FreeNext(r).next = At(n, b, i + 1)
      BY <2>7
    <2> QED
      BY <2>8, <2>9, <2>10, <2>11 DEF Unchained
  <1>4. CASE ~(i <= n)
    <2>1. r.next = None /\ At(n, b, i + 1) = None
      BY <1>1, <1>2, <1>4, PastTheEnd
    <2>2. FreeNext(r) = r
      BY <2>1 DEF FreeNext
    <2>3. Upto(n, b, i) = Upto(n, b, i - 1)
      <3> DEFINE j == i - 1
      <3>1. i >= n /\ j \in Nat /\ j >= n
        BY <1>1, <1>4
      <3> HIDE DEF j
      <3>2. Upto(n, b, i) = Among(n, b) /\ Upto(n, b, j) = Among(n, b)
        BY <1>1, <3>1, UptoIs
      <3> QED
        BY <3>2 DEF j
    <2> QED
      BY <1>2, <2>1, <2>2, <2>3 DEF Unchained
  <1> QED
    BY <1>3, <1>4

LEMMA ChainFreedOwner ==
    ASSUME NEW st \in Stores, NEW first \in Link, NEW B, NEW ids, Chained(st, first, B, ids),
           NEW O, B \subseteq O, Owner(st, O)
    PROVE  /\ ChainFreed(st, first) \in Stores
           /\ Owner(ChainFreed(st, first), O \ B)
           /\ SameNodes(ChainFreed(st, first), st, Slots \ B)
  <1>1. PICK n, b, rest : Linked(st, first, n, b, rest) /\ B = Among(n, b) /\ ids = rest[1]
    BY ChainedIs
  <1>2. n \in Nat /\ first = At(n, b, 1)
    BY <1>1, LinkedIs
  <1> DEFINE k == Cardinality(Slots) + 1
  <1>3. n <= k /\ k \in Nat
    BY <1>1, LinkedShort
  <1>4. PICK f \in [0..k -> Freeings] :
              /\ f[0] = [st |-> st, next |-> first]
              /\ \A i \in 1..k : f[i] = FreeNext(f[i - 1])
              /\ FreeWalk(st, first) = f[k]
    BY FreeWalked
  <1> HIDE DEF k
  <1> DEFINE Q == {i \in 0..k : Unchained(st, O, n, b, i, f[i])}
  <1>5. 0 \in Q
    <2>1. f[0].st = st /\ f[0].next = first /\ Upto(n, b, 0) = {}
      BY <1>2, <1>4, UptoIs
    <2>2. O \ {} = O /\ SameNodes(st, st, Slots \ {})
      BY DEF SameNodes
    <2>4. f[0].next = At(n, b, 0 + 1) /\ O \ Upto(n, b, 0) = O /\ Slots \ Upto(n, b, 0) = Slots \ {}
      BY <1>2, <2>1
    <2>3. Unchained(st, O, n, b, 0, f[0])
      BY <2>1, <2>2, <2>4 DEF Unchained
    <2> QED
      BY <1>3, <2>3
  <1>6. ASSUME NEW i \in 1..k, i - 1 \in Q PROVE i \in Q
    <2>1. f[i - 1] \in Freeings /\ Unchained(st, O, n, b, i - 1, f[i - 1])
          /\ f[i] = FreeNext(f[i - 1]) /\ i \in Nat /\ i >= 1
      BY <1>3, <1>4, <1>6
    <2>2. Unchained(st, O, n, b, i, f[i])
      BY <1>1, <2>1, UnchainedOn
    <2> QED
      BY <1>3, <2>2
  <1> HIDE DEF Q
  <1>7. \A i \in 0..k : i \in Q
    BY <1>3, <1>5, <1>6, Induction
  <1>8. Unchained(st, O, n, b, k, f[k])
    BY <1>3, <1>7 DEF Q
  <1>9. Upto(n, b, k) = B
    BY <1>1, <1>2, <1>3, UptoIs
  <1>10. ChainFreed(st, first) = f[k].st
    BY <1>4, ChainFreedIs
  <1>11. ChainFreed(st, first) \in Stores
    BY ChainFreedTyped
  <1> QED
    BY <1>8, <1>9, <1>10, <1>11 DEF Unchained

-----------------------------------------------------------------------------
(* A block put in front of a chain makes a longer one.                       *)

Longer(new, s, n, b, rest, part) ==
    \E c, after : /\ Linked(new, s, n + 1, c, after)
                  /\ Among(n + 1, c) = Among(n, b) \union {s}
                  /\ after[1] = part \o rest[1]

LEMMA LinkedMore ==
    ASSUME NEW st \in Stores, NEW first, NEW n, NEW b, NEW rest, Linked(st, first, n, b, rest),
           NEW s \in Slots, s \notin Among(n, b), NEW part \in Seq(Slots), NEW new,
           SameNodes(new, st, Slots \ {s}), new.node[s] = FileIndexBlock(part, first)
    PROVE  Longer(new, s, n, b, rest, part)
  <1> DEFINE m == n + 1
             c == [i \in 1..m |-> IF i = 1 THEN s ELSE b[i - 1]]
             after == [i \in 1..(m + 1) |-> IF i = 1 THEN part \o rest[1] ELSE rest[i - 1]]
  <1>1. /\ n \in Nat /\ b \in [1..n -> Slots] /\ rest \in [1..(n + 1) -> Seq(Slots)]
        /\ \A i, j \in 1..n : b[i] = b[j] => i = j
        /\ first = At(n, b, 1) /\ rest[n + 1] = <<>>
    BY DEF Linked
  <1>2. m \in Nat /\ 1 \in 1..m /\ rest[1] \in Seq(Slots)
    BY <1>1
  <1>3. c \in [1..m -> Slots]
    <2>1. ASSUME NEW i \in 1..m, i # 1 PROVE b[i - 1] \in Slots
      <3>1. i - 1 \in 1..n
        BY <1>1, <2>1
      <3> QED
        BY <1>1, <3>1
    <2> QED
      BY <2>1
  <1>4. after \in [1..(m + 1) -> Seq(Slots)]
    <2>1. ASSUME NEW i \in 1..(m + 1), i # 1 PROVE rest[i - 1] \in Seq(Slots)
      <3>1. i - 1 \in 1..(n + 1)
        BY <1>1, <2>1
      <3> QED
        BY <1>1, <3>1
    <2>2. part \o rest[1] \in Seq(Slots)
      BY <1>2, Concatenations
    <2> QED
      BY <2>1, <2>2
  <1>5. c[1] = s /\ after[1] = part \o rest[1]
    BY <1>2
  <1>6. ASSUME NEW i \in 1..n
        PROVE  i + 1 \in 1..m /\ c[i + 1] = b[i] /\ i + 1 # 1 /\ b[i] \in Among(n, b)
    <2>1. i + 1 \in 1..m /\ i + 1 # 1 /\ i + 1 - 1 = i
      BY <1>1
    <2> QED
      BY <2>1 DEF Among
  <1>7. ASSUME NEW i \in 1..(n + 1) PROVE after[i + 1] = rest[i]
    <2>1. i + 1 \in 1..(m + 1) /\ i + 1 # 1 /\ i + 1 - 1 = i
      BY <1>1
    <2> QED
      BY <2>1
  <1>8. \A i \in 1..m : i = 1 \/ \E j \in 1..n : i = j + 1
    <2>1. ASSUME NEW i \in 1..m, i # 1 PROVE \E j \in 1..n : i = j + 1
      <3>1. i - 1 \in 1..n /\ i = (i - 1) + 1
        BY <1>1, <2>1
      <3> QED
        BY <3>1
    <2> QED
      BY <2>1
  <1> HIDE DEF c, after
  <1>9. \A i, j \in 1..m : c[i] = c[j] => i = j
    <2> SUFFICES ASSUME NEW i \in 1..m, NEW j \in 1..m, c[i] = c[j] PROVE i = j
      OBVIOUS
    <2>1. CASE i = 1 /\ j = 1
      BY <2>1
    <2>2. CASE i = 1 /\ j # 1
      BY <2>2, <1>5, <1>6, <1>8
    <2>3. CASE i # 1 /\ j = 1
      BY <2>3, <1>5, <1>6, <1>8
    <2>4. CASE i # 1 /\ j # 1
      <3>1. PICK k \in 1..n : i = k + 1
        BY <1>8, <2>4
      <3>2. PICK l \in 1..n : j = l + 1
        BY <1>8, <2>4
      <3>3. b[k] = b[l]
        BY <1>6, <3>1, <3>2
      <3> QED
        BY <1>1, <3>1, <3>2, <3>3
    <2> QED
      BY <2>1, <2>2, <2>3, <2>4
  <1>10. ASSUME NEW i \in 1..n PROVE At(m, c, i + 1) = At(n, b, i)
    <2>1. i + 1 <= m /\ i <= n
      BY <1>1
    <2> QED
      BY <2>1, <1>6 DEF At
  <1>11. At(m, c, n + 2) = None /\ At(n, b, n + 1) = None
    <2>1. ~(n + 2 <= m) /\ ~(n + 1 <= n)
      BY <1>1
    <2> QED
      BY <2>1 DEF At
  <1>12. ASSUME NEW i \in 1..n
         PROVE  /\ new.node[c[i + 1]].kind = "index"
                /\ new.node[c[i + 1]].next = At(m, c, i + 1 + 1)
                /\ after[i + 1] = new.node[c[i + 1]].ids \o after[i + 1 + 1]
    <2>1. Block(st, n, b, rest, i)
      BY LinkedBlock
    <2>2. b[i] \in Slots /\ b[i] # s /\ c[i + 1] = b[i]
      BY <1>6, <2>1 DEF Block
    <2>3. new.node[c[i + 1]] = st.node[b[i]]
      BY <2>2 DEF SameNodes
    <2>4. At(m, c, i + 1 + 1) = At(n, b, i + 1)
      <3>1. CASE i = n
        <4>1. i + 1 + 1 = n + 2 /\ i + 1 = n + 1
          BY <1>1, <3>1
        <4> QED
          BY <1>11, <4>1
      <3>2. CASE i # n
        <4> DEFINE l == i + 1
        <4>1. l \in 1..n
          BY <1>1, <3>2
        <4> HIDE DEF l
        <4>2. At(m, c, l + 1) = At(n, b, l)
          BY <1>10, <4>1
        <4> QED
          BY <4>2 DEF l
      <3> QED
        BY <3>1, <3>2
    <2>5. i + 1 \in 1..(n + 1) /\ i \in 1..(n + 1)
      BY <1>1
    <2>6. after[i + 1] = rest[i] /\ after[i + 1 + 1] = rest[i + 1]
      BY <1>7, <2>5
    <2> QED
      BY <2>1, <2>3, <2>4, <2>6 DEF Block
  <1>13. new.node[c[1]].kind = "index" /\ new.node[c[1]].next = At(m, c, 1 + 1)
         /\ after[1] = new.node[c[1]].ids \o after[1 + 1]
    <2>1. new.node[c[1]].kind = "index" /\ new.node[c[1]].next = first /\ new.node[c[1]].ids = part
      BY <1>5, BlockFields
    <2>2. At(m, c, 1 + 1) = At(n, b, 1)
      <3>1. CASE n = 0
        BY <1>11, <3>1
      <3>2. CASE n # 0
        <4>1. 1 \in 1..n
          BY <1>1, <3>2
        <4> QED
          BY <1>10, <4>1
      <3> QED
        BY <3>1, <3>2
    <2>3. after[1 + 1] = rest[1]
      <3>1. 1 \in 1..(n + 1)
        BY <1>1
      <3> QED
        BY <1>7, <3>1
    <2> QED
      BY <1>1, <1>5, <2>1, <2>2, <2>3
  <1>14. ASSUME NEW i \in 1..m
         PROVE  /\ new.node[c[i]].kind = "index" /\ new.node[c[i]].next = At(m, c, i + 1)
                /\ after[i] = new.node[c[i]].ids \o after[i + 1]
    <2>1. CASE i = 1
      BY <1>13, <2>1
    <2>2. CASE i # 1
      <3>1. PICK j \in 1..n : i = j + 1
        BY <1>8, <2>2
      <3> QED
        BY <1>12, <3>1
    <2> QED
      BY <2>1, <2>2
  <1>15. s = At(m, c, 1) /\ after[m + 1] = <<>>
    <2>1. 1 <= m /\ n + 1 \in 1..(n + 1)
      BY <1>1
    <2>2. after[n + 1 + 1] = rest[n + 1]
      BY <1>7, <2>1
    <2> QED
      BY <1>1, <1>5, <2>1, <2>2 DEF At
  <1>16. Linked(new, s, m, c, after)
    BY <1>2, <1>3, <1>4, <1>9, <1>14, <1>15 DEF Linked
  <1>17. Among(m, c) = Among(n, b) \union {s}
    <2>1. ASSUME NEW x \in Among(m, c) PROVE x \in Among(n, b) \union {s}
      <3>1. PICK i \in 1..m : x = c[i]
        BY <2>1 DEF Among
      <3> QED
        BY <1>5, <1>6, <1>8, <3>1
    <2>2. ASSUME NEW x \in Among(n, b) \union {s} PROVE x \in Among(m, c)
      <3>1. CASE x = s
        BY <1>2, <1>5, <3>1 DEF Among
      <3>2. CASE x # s
        <4>1. PICK i \in 1..n : x = b[i]
          BY <2>2, <3>2 DEF Among
        <4> QED
          BY <1>6, <4>1 DEF Among
      <3> QED
        BY <3>1, <3>2
    <2> QED
      BY <2>1, <2>2
  <1> QED
    BY <1>5, <1>16, <1>17 DEF Longer

LEMMA ChainedMore ==
    ASSUME NEW st \in Stores, NEW first, NEW B, NEW ids, Chained(st, first, B, ids),
           NEW s \in Slots, s \notin B, NEW part \in Seq(Slots), NEW new,
           SameNodes(new, st, Slots \ {s}), new.node[s] = FileIndexBlock(part, first)
    PROVE  Chained(new, s, B \union {s}, part \o ids)
  <1>1. PICK n, b, rest : Linked(st, first, n, b, rest) /\ B = Among(n, b) /\ ids = rest[1]
    BY ChainedIs
  <1>2. PICK c, after : /\ Linked(new, s, n + 1, c, after)
                        /\ Among(n + 1, c) = Among(n, b) \union {s}
                        /\ after[1] = part \o rest[1]
    <2>1. s \notin Among(n, b)
      BY <1>1
    <2>2. Longer(new, s, n, b, rest, part)
      BY <1>1, <2>1, LinkedMore
    <2> QED
      BY <2>2 DEF Longer
  <1>3. Chained(new, s, Among(n + 1, c), after[1])
    BY <1>2, ChainedFrom
  <1> QED
    BY <1>1, <1>2, <1>3

-----------------------------------------------------------------------------
(* write_index_chain takes free slots for its blocks, and no others.         *)

Blocks(st, O, new, chain, B, ids) ==
    /\ Chained(new, chain, B, ids) /\ B \subseteq Slots /\ B \intersect O = {}
    /\ Owner(new, O \union B) /\ SameNodes(new, st, Slots \ B)

(* What is written of a chain for ids: its end. *)
Chaining(st, O, ids, r) ==
    \E B, tail : /\ Blocks(st, O, r.st, r.chain, B, tail)
                 /\ tail \in Seq(Slots) /\ r.ids \o tail = ids

Earlier(ids) == SubSeq(ids, 1, Rest(ids))

Later(ids) == SubSeq(ids, Rest(ids) + 1, Len(ids))

LEMMA CutInTwo ==
    ASSUME NEW ids \in Seq(Slots), ids # <<>>
    PROVE  /\ Earlier(ids) \in Seq(Slots) /\ Later(ids) \in Seq(Slots)
           /\ ids = Earlier(ids) \o Later(ids)
           /\ Len(Earlier(ids)) <= Len(ids) - 1 /\ Len(Later(ids)) <= MaxIndex
  <1> DEFINE k == Rest(ids)
  <1>1. /\ k \in 0..(Len(ids) - 1) /\ Len(SubSeq(ids, 1, k)) = k /\ Len(ids) \in Nat
        /\ Len(SubSeq(ids, k + 1, Len(ids))) = Len(ids) - k /\ Len(ids) - k <= MaxIndex
    BY RestBounds
  <1>2. k \in 0..Len(ids)
    BY <1>1
  <1> HIDE DEF k
  <1>3. SubSeq(ids, 1, k) \in Seq(Slots) /\ SubSeq(ids, k + 1, Len(ids)) \in Seq(Slots)
        /\ ids = SubSeq(ids, 1, k) \o SubSeq(ids, k + 1, Len(ids))
    BY <1>2, Split
  <1>4. Earlier(ids) = SubSeq(ids, 1, k) /\ Later(ids) = SubSeq(ids, k + 1, Len(ids))
    BY DEF Earlier, Later, k
  <1>5. Len(Earlier(ids)) = k /\ Len(Later(ids)) = Len(ids) - k
    BY <1>1, <1>4
  <1>6. Len(Earlier(ids)) <= Len(ids) - 1 /\ Len(Later(ids)) <= MaxIndex
    BY <1>1, <1>5
  <1> QED
    BY <1>3, <1>4, <1>6

LEMMA WriteBlockIs ==
    ASSUME NEW r \in Writings
    PROVE  /\ r.ids = <<>> \/ ~r.ok => WriteBlock(r) = r
           /\ r.ids # <<>> /\ r.ok /\ ~HasSpace(r.st) => ~WriteBlock(r).ok
           /\ r.ids # <<>> /\ r.ok /\ HasSpace(r.st) =>
                 /\ WriteBlock(r).ok /\ WriteBlock(r).ids = Earlier(r.ids)
                 /\ WriteBlock(r).chain = NextFree(r.st)
                 /\ WriteBlock(r).st = Written(r.st, FileIndexBlock(Later(r.ids), r.chain))
  <1>1. CASE r.ids = <<>> \/ ~r.ok
    BY <1>1 DEF WriteBlock
  <1>2. CASE r.ids # <<>> /\ r.ok /\ ~HasSpace(r.st)
    <2>1. WriteBlock(r) = [r EXCEPT !.ok = FALSE]
      BY <1>2 DEF WriteBlock
    <2> QED
      BY <1>2, <2>1 DEF Writings
  <1>3. CASE r.ids # <<>> /\ r.ok /\ HasSpace(r.st)
    <2>1. WriteBlock(r) =
             [ok |-> TRUE, ids |-> Earlier(r.ids), chain |-> NextFree(r.st),
              st |-> Written(r.st, FileIndexBlock(Later(r.ids), r.chain))]
      BY <1>3 DEF WriteBlock, Earlier, Later
    <2> QED
      BY <1>3, <2>1
  <1> QED
    BY <1>1, <1>2, <1>3

LEMMA ChainingOn ==
    ASSUME NEW st \in Stores, NEW O, NEW ids \in Seq(Slots), NEW r \in Writings,
           Chaining(st, O, ids, r), WriteBlock(r).ok
    PROVE  /\ r.ok /\ Chaining(st, O, ids, WriteBlock(r))
           /\ r.ids = <<>> => WriteBlock(r).ids = <<>>
           /\ r.ids # <<>> => Len(WriteBlock(r).ids) <= Len(r.ids) - 1
  <1>1. CASE r.ids = <<>> \/ ~r.ok
    <2>1. WriteBlock(r) = r
      BY <1>1, WriteBlockIs
    <2> QED
      BY <1>1, <2>1
  <1>2. CASE ~(r.ids = <<>> \/ ~r.ok)
    <2> DEFINE s == NextFree(r.st)
               keep == Earlier(r.ids)
               part == Later(r.ids)
               block == FileIndexBlock(part, r.chain)
               w == WriteBlock(r)
    <2>1. r.ok /\ HasSpace(r.st) /\ w.ids = keep /\ w.chain = s /\ w.st = Written(r.st, block)
      BY <1>2, WriteBlockIs
    <2>2. PICK B : \E tail : /\ Blocks(st, O, r.st, r.chain, B, tail)
                             /\ tail \in Seq(Slots) /\ r.ids \o tail = ids
      BY DEF Chaining
    <2>3. PICK tail : /\ Blocks(st, O, r.st, r.chain, B, tail)
                      /\ tail \in Seq(Slots) /\ r.ids \o tail = ids
      BY <2>2
    <2>4. r.st \in Stores /\ r.ids \in Seq(Slots)
      BY DEF Writings
    <2>5. keep \in Seq(Slots) /\ part \in Seq(Slots) /\ r.ids = keep \o part
          /\ Len(keep) <= Len(r.ids) - 1
      BY <1>2, <2>4, CutInTwo
    <2>6. Chained(r.st, r.chain, B, tail) /\ B \subseteq Slots /\ B \intersect O = {}
          /\ Owner(r.st, O \union B) /\ SameNodes(r.st, st, Slots \ B)
      BY <2>3 DEF Blocks
    <2> HIDE DEF s, keep, part, block, w
    <2>7. /\ s \in Slots /\ s \notin O \union B
          /\ Owner(w.st, (O \union B) \union {s})
          /\ w.st.node[s] = block
          /\ SameNodes(w.st, r.st, Slots \ {s})
      <3> DEFINE all == O \union B
      <3>1. Owner(r.st, all)
        BY <2>6
      <3> HIDE DEF all
      <3>2. NextFree(r.st) \in Slots /\ NextFree(r.st) \notin all
            /\ Owner(Written(r.st, block), all \union {NextFree(r.st)})
            /\ Written(r.st, block).node[NextFree(r.st)] = block
            /\ SameNodes(Written(r.st, block), r.st, Slots \ {NextFree(r.st)})
        BY <2>1, <2>4, <3>1, OwnerWritten
      <3> QED
        BY <2>1, <3>2 DEF s, all
    <2>8. Chained(w.st, s, B \union {s}, part \o tail)
      <3>1. w.st.node[s] = FileIndexBlock(part, r.chain) /\ s \notin B
        BY <2>7 DEF block
      <3> QED
        BY <2>4, <2>5, <2>6, <2>7, <3>1, ChainedMore
    <2>9. part \o tail \in Seq(Slots) /\ keep \o (part \o tail) = ids
      <3>0. keep \in Seq(Slots) /\ part \in Seq(Slots) /\ tail \in Seq(Slots)
        BY <2>3, <2>5
      <3>1. (keep \o part) \o tail = keep \o (part \o tail)
        BY <3>0, Concatenations
      <3>2. part \o tail \in Seq(Slots)
        BY <2>3, <2>5, Concatenations
      <3> QED
        BY <2>3, <2>5, <3>1, <3>2
    <2>10. Blocks(st, O, w.st, w.chain, B \union {s}, part \o tail)
      <3>1. (O \union B) \union {s} = O \union (B \union {s})
        OBVIOUS
      <3>2. SameNodes(w.st, st, Slots \ (B \union {s}))
        BY <2>6, <2>7 DEF SameNodes
      <3>3. (B \union {s}) \intersect O = {} /\ B \union {s} \subseteq Slots
        BY <2>6, <2>7
      <3> QED
        BY <2>1, <2>7, <2>8, <3>1, <3>2, <3>3 DEF Blocks
    <2>11. w.ids \o (part \o tail) = ids
      BY <2>1, <2>9
    <2>12. Chaining(st, O, ids, w)
      BY <2>9, <2>10, <2>11 DEF Chaining
    <2> QED
      BY <1>2, <2>1, <2>5, <2>12 DEF w
  <1> QED
    BY <1>1, <1>2

LEMMA ChainWrittenOwner ==
    ASSUME NEW st \in Stores, NEW O, Owner(st, O), NEW ids \in Seq(Slots), ChainWritten(st, ids).ok
    PROVE  /\ \E B : Blocks(st, O, ChainWritten(st, ids).st, ChainWritten(st, ids).chain, B, ids)
           /\ ids = <<>> => ChainWritten(st, ids).chain = None
  <1> DEFINE k == Len(ids)
  <1>1. PICK f \in [0..k -> Writings] :
              /\ f[0] = WriteStart(st, ids)
              /\ \A i \in 1..k : f[i] = WriteBlock(f[i - 1])
              /\ ChainWritten(st, ids) = f[k]
    BY ChainWrote
  <1>2. k \in Nat /\ (ids = <<>> => k = 0)
    OBVIOUS
  <1> HIDE DEF k
  <1> DEFINE Q == {i \in 0..k : f[i].ok => Chaining(st, O, ids, f[i]) /\ Len(f[i].ids) <= k - i}
  <1>3. 0 \in Q
    <2>1. f[0].ids = ids /\ f[0].st = st /\ f[0].chain = None
      BY <1>1 DEF WriteStart
    <2>2. Chained(st, None, {}, <<>>)
      BY ChainedNone
    <2>3. O \union {} = O /\ SameNodes(st, st, Slots \ {}) /\ {} \intersect O = {} /\ {} \subseteq Slots
      BY DEF SameNodes
    <2>4. Blocks(st, O, f[0].st, f[0].chain, {}, <<>>)
      BY <2>1, <2>2, <2>3 DEF Blocks
    <2>5. f[0].ids \o <<>> = ids /\ <<>> \in Seq(Slots)
      BY <2>1, Concatenations
    <2>6. Chaining(st, O, ids, f[0])
      BY <2>4, <2>5 DEF Chaining
    <2>7. Len(f[0].ids) <= k - 0
      BY <1>2, <2>1 DEF k
    <2> QED
      BY <1>2, <2>6, <2>7
  <1>4. ASSUME NEW i \in 1..k, i - 1 \in Q PROVE i \in Q
    <2> DEFINE r == f[i - 1]
               w == f[i]
    <2>1. r \in Writings /\ w = WriteBlock(r) /\ i \in 0..k
          /\ (r.ok => Chaining(st, O, ids, r) /\ Len(r.ids) <= k - (i - 1))
      BY <1>1, <1>2, <1>4
    <2> HIDE DEF r, w
    <2>2. ASSUME w.ok PROVE Chaining(st, O, ids, w) /\ Len(w.ids) <= k - i
      <3>1. r.ok
        BY <2>1, <2>2, WriteBlockIs
      <3>2. /\ Chaining(st, O, ids, w)
            /\ r.ids = <<>> => w.ids = <<>>
            /\ r.ids # <<>> => Len(w.ids) <= Len(r.ids) - 1
        BY <2>1, <2>2, <3>1, ChainingOn
      <3>3. CASE r.ids = <<>>
        <4>1. Len(w.ids) = 0
          BY <3>2, <3>3
        <4> QED
          BY <1>2, <3>2, <4>1
      <3>4. CASE r.ids # <<>>
        <4>1. Len(w.ids) <= Len(r.ids) - 1 /\ Len(r.ids) <= k - (i - 1)
          BY <2>1, <3>1, <3>2, <3>4
        <4>2. Len(r.ids) \in Nat /\ Len(w.ids) \in Nat
          BY <2>1, WriteBlockIs, <1>1, <1>2 DEF Writings, w
        <4> QED
          BY <1>2, <3>2, <4>1, <4>2
      <3> QED
        BY <3>3, <3>4
    <2> QED
      BY <2>1, <2>2 DEF w
  <1> HIDE DEF Q
  <1>5. \A i \in 0..k : i \in Q
    BY <1>2, <1>3, <1>4, Induction
  <1>6. f[k].ok /\ k \in Q /\ f[k] \in Writings
    BY <1>1, <1>2, <1>5
  <1>7. Chaining(st, O, ids, f[k]) /\ Len(f[k].ids) <= k - k
    BY <1>6 DEF Q
  <1>8. f[k].ids = <<>>
    <2>1. Len(f[k].ids) = 0 /\ f[k].ids \in Seq(Slots)
      BY <1>2, <1>6, <1>7 DEF Writings
    <2> QED
      BY <2>1
  <1>9. PICK B : \E tail : /\ Blocks(st, O, f[k].st, f[k].chain, B, tail)
                           /\ tail \in Seq(Slots) /\ f[k].ids \o tail = ids
    BY <1>7 DEF Chaining
  <1>10. PICK tail : /\ Blocks(st, O, f[k].st, f[k].chain, B, tail)
                     /\ tail \in Seq(Slots) /\ f[k].ids \o tail = ids
    BY <1>9
  <1>11. tail = ids
    BY <1>8, <1>10, Concatenations
  <1>12. ids = <<>> => ChainWritten(st, ids).chain = None
    <2>1. ids = <<>> => f[k].chain = None
      BY <1>1, <1>2 DEF WriteStart
    <2> QED
      BY <1>1, <2>1
  <1> QED
    BY <1>1, <1>10, <1>11, <1>12

-----------------------------------------------------------------------------
(* The slots of a map.                                                       *)

Mapped(map) == {map[i] : i \in 1..Len(map)} \ {None}

(* No slot twice, though there may be many gaps. *)
Apart(map) == \A i, j \in 1..Len(map) : map[i] # None /\ map[i] = map[j] => i = j

LEMMA MembersAppend ==
    ASSUME NEW ids \in Seq(Slots), NEW x \in Slots
    PROVE  /\ Append(ids, x) \in Seq(Slots) /\ Len(Append(ids, x)) = Len(ids) + 1
           /\ Members(Append(ids, x)) = Members(ids) \union {x}
           /\ Distinct(ids) /\ x \notin Members(ids) => Distinct(Append(ids, x))
  <1> DEFINE n == Len(ids)
             q == Append(ids, x)
  <1>1. /\ n \in Nat /\ q \in Seq(Slots) /\ Len(q) = n + 1
        /\ \A i \in 1..n : q[i] = ids[i]
        /\ q[n + 1] = x
    OBVIOUS
  <1> HIDE DEF n, q
  <1>2. \A i \in 1..(n + 1) : i \in 1..n \/ i = n + 1
    BY <1>1
  <1>3. 1..n \subseteq 1..(n + 1) /\ n + 1 \in 1..(n + 1)
    BY <1>1
  <1>4. Members(q) = Members(ids) \union {x}
    <2>1. Members(q) \subseteq Members(ids) \union {x}
      BY <1>1, <1>2 DEF Members, n
    <2>2. Members(ids) \subseteq Members(q)
      BY <1>1, <1>3 DEF Members, n
    <2>3. x \in Members(q)
      BY <1>1, <1>3 DEF Members
    <2> QED
      BY <2>1, <2>2, <2>3
  <1>5. ASSUME Distinct(ids), x \notin Members(ids) PROVE Distinct(q)
    <2> SUFFICES ASSUME NEW i \in 1..(n + 1), NEW j \in 1..(n + 1), q[i] = q[j] PROVE i = j
      BY <1>1 DEF Distinct
    <2>1. \A k \in 1..n : q[k] # x
      BY <1>1, <1>5 DEF Members, n
    <2>2. CASE i \in 1..n /\ j \in 1..n
      BY <1>1, <1>5, <2>2 DEF Distinct, n
    <2>3. CASE i \in 1..n /\ j = n + 1
      BY <1>1, <2>1, <2>3
    <2>4. CASE i = n + 1 /\ j \in 1..n
      BY <1>1, <2>1, <2>4
    <2> QED
      BY <1>2, <2>2, <2>3, <2>4
  <1> QED
    BY <1>1, <1>4, <1>5 DEF n, q

(* What Present has kept after i rounds. *)
KeptOf(map, i, ids) ==
    /\ Members(ids) = {map[j] : j \in 1..i} \ {None}
    /\ Len(ids) <= i
    /\ Apart(map) => Distinct(ids)

LEMMA PresentOn ==
    ASSUME NEW map \in Seq(Link), NEW i \in 1..Len(map), NEW ids \in Seq(Slots), KeptOf(map, i - 1, ids)
    PROVE  KeptOf(map, i, Keep(map[i], ids))
  <1>1. i \in Nat /\ i - 1 \in Nat /\ map[i] \in Link /\ Len(ids) \in Nat
    OBVIOUS
  <1>2. 1..i = (1..(i - 1)) \union {i} /\ i \notin 1..(i - 1)
    BY <1>1
  <1>3. Members(ids) = {map[j] : j \in 1..(i - 1)} \ {None} /\ Len(ids) <= i - 1
        /\ (Apart(map) => Distinct(ids))
    BY DEF KeptOf
  <1>4. CASE map[i] = None
    <2>1. Keep(map[i], ids) = ids
      BY <1>4 DEF Keep
    <2>2. Members(ids) = {map[j] : j \in 1..i} \ {None}
      BY <1>2, <1>3, <1>4
    <2>3. Len(ids) <= i
      BY <1>1, <1>3
    <2> QED
      BY <1>3, <2>1, <2>2, <2>3 DEF KeptOf
  <1>5. CASE map[i] # None
    <2>1. Keep(map[i], ids) = Append(ids, map[i]) /\ map[i] \in Slots
      BY <1>1, <1>5 DEF Keep, Link
    <2>2. /\ Len(Append(ids, map[i])) = Len(ids) + 1
          /\ Members(Append(ids, map[i])) = Members(ids) \union {map[i]}
          /\ Distinct(ids) /\ map[i] \notin Members(ids) => Distinct(Append(ids, map[i]))
      BY <2>1, MembersAppend
    <2>3. Members(Append(ids, map[i])) = {map[j] : j \in 1..i} \ {None}
      BY <1>2, <1>3, <1>5, <2>2
    <2>4. Len(Append(ids, map[i])) <= i
      BY <1>1, <1>3, <2>2
    <2>5. ASSUME Apart(map) PROVE map[i] \notin Members(ids)
      <3>1. ASSUME NEW j \in 1..(i - 1) PROVE map[j] # map[i]
        <4>1. j \in 1..Len(map) /\ j # i
          BY <1>1, <1>2
        <4> QED
          BY <1>5, <2>5, <4>1 DEF Apart
      <3> QED
        BY <1>3, <3>1
    <2> QED
      BY <1>3, <2>1, <2>2, <2>3, <2>4, <2>5 DEF KeptOf
  <1> QED
    BY <1>4, <1>5

LEMMA PresentIs ==
    ASSUME NEW map \in Seq(Link)
    PROVE  /\ Present(map) \in Seq(Slots) /\ Members(Present(map)) = Mapped(map)
           /\ Len(Present(map)) <= Len(map)
           /\ Apart(map) => Distinct(Present(map))
  <1>1. PICK f \in [0..Len(map) -> Seq(Slots)] :
              /\ f[0] = <<>>
              /\ \A i \in 1..Len(map) : f[i] = Keep(map[i], f[i - 1])
              /\ Present(map) = f[Len(map)] /\ Present(map) \in Seq(Slots)
    BY PresentKept
  <1> DEFINE k == Len(map)
             Q == {i \in 0..k : KeptOf(map, i, f[i])}
  <1>2. k \in Nat
    OBVIOUS
  <1>3. 0 \in Q
    <2>1. Members(<<>>) = {} /\ Distinct(<<>>) /\ {map[j] : j \in 1..0} = {} /\ Len(<<>>) = 0
      BY DEF Members, Distinct
    <2>2. KeptOf(map, 0, f[0])
      BY <1>1, <2>1 DEF KeptOf
    <2> QED
      BY <1>2, <2>2
  <1>4. ASSUME NEW i \in 1..k, i - 1 \in Q PROVE i \in Q
    <2>1. f[i - 1] \in Seq(Slots) /\ KeptOf(map, i - 1, f[i - 1]) /\ f[i] = Keep(map[i], f[i - 1])
      BY <1>1, <1>4
    <2>2. KeptOf(map, i, f[i])
      BY <2>1, PresentOn
    <2> QED
      BY <1>2, <2>2
  <1> HIDE DEF Q
  <1>5. \A i \in 0..k : i \in Q
    BY <1>2, <1>3, <1>4, Induction
  <1>6. KeptOf(map, k, f[k])
    BY <1>2, <1>5 DEF Q
  <1> QED
    BY <1>1, <1>6 DEF KeptOf, Mapped

(* A map cut in two. *)
LEMMA MappedCut ==
    ASSUME NEW map \in Seq(Link), NEW k \in 0..Len(map)
    PROVE  LET low  == SubSeq(map, 1, k)
               high == SubSeq(map, k + 1, Len(map))
           IN  /\ low \in Seq(Link) /\ high \in Seq(Link)
               /\ Mapped(map) = Mapped(low) \union Mapped(high)
               /\ Apart(map) => /\ Apart(low) /\ Apart(high)
                                /\ Mapped(low) \intersect Mapped(high) = {}
  <1> DEFINE low == SubSeq(map, 1, k)
             high == SubSeq(map, k + 1, Len(map))
             n == Len(map)
  <1>1. /\ low \in Seq(Link) /\ Len(low) = k /\ high \in Seq(Link) /\ Len(high) = n - k
        /\ \A i \in 1..k : low[i] = map[i]
        /\ \A i \in 1..(n - k) : high[i] = map[k + i]
    BY Split
  <1>2. n \in Nat /\ k \in Nat /\ k <= n
    OBVIOUS
  <1> HIDE DEF low, high, n
  <1>3. \A i \in 1..n : i \in 1..k \/ \E j \in 1..(n - k) : i = k + j
    <2>1. ASSUME NEW i \in 1..n, i \notin 1..k PROVE i - k \in 1..(n - k) /\ i = k + (i - k)
      BY <1>2, <2>1
    <2> QED
      BY <2>1
  <1>4. 1..k \subseteq 1..n /\ \A j \in 1..(n - k) : k + j \in 1..n /\ k + j \notin 1..k
    BY <1>2
  <1>5. Mapped(map) = Mapped(low) \union Mapped(high)
    <2>1. ASSUME NEW x \in Mapped(map) PROVE x \in Mapped(low) \union Mapped(high)
      <3>1. PICK i \in 1..n : x = map[i] /\ x # None
        BY <2>1 DEF Mapped, n
      <3>2. CASE i \in 1..k
        <4>1. x = low[i] /\ i \in 1..Len(low)
          BY <1>1, <3>1, <3>2
        <4> QED
          BY <3>1, <4>1 DEF Mapped
      <3>3. CASE \E j \in 1..(n - k) : i = k + j
        <4>1. PICK j \in 1..(n - k) : i = k + j
          BY <3>3
        <4>2. x = high[j] /\ j \in 1..Len(high)
          BY <1>1, <3>1, <4>1
        <4> QED
          BY <3>1, <4>2 DEF Mapped
      <3> QED
        BY <1>3, <3>2, <3>3
    <2>2. Mapped(low) \subseteq Mapped(map)
      BY <1>1, <1>4 DEF Mapped, n
    <2>3. Mapped(high) \subseteq Mapped(map)
      BY <1>1, <1>4 DEF Mapped, n
    <2> QED
      BY <2>1, <2>2, <2>3
  <1>6. ASSUME Apart(map)
        PROVE  Apart(low) /\ Apart(high) /\ Mapped(low) \intersect Mapped(high) = {}
    <2>1. \A i, j \in 1..n : map[i] # None /\ map[i] = map[j] => i = j
      BY <1>6 DEF Apart, n
    <2>2. Apart(low)
      BY <1>1, <1>4, <2>1 DEF Apart
    <2>3. Apart(high)
      <3> SUFFICES ASSUME NEW i \in 1..(n - k), NEW j \in 1..(n - k), high[i] # None, high[i] = high[j]
                   PROVE  i = j
        BY <1>1 DEF Apart
      <3>1. k + i = k + j
        BY <1>1, <1>4, <2>1
      <3> QED
        BY <1>2, <3>1
    <2>4. ASSUME NEW x \in Mapped(low), x \in Mapped(high) PROVE FALSE
      <3>1. PICK i \in 1..k : x = map[i] /\ x # None
        BY <1>1, <2>4 DEF Mapped
      <3>2. PICK j \in 1..(n - k) : x = map[k + j]
        BY <1>1, <2>4 DEF Mapped
      <3>3. i = k + j
        BY <1>4, <2>1, <3>1, <3>2
      <3> QED
        BY <1>4, <3>3
    <2> QED
      BY <2>2, <2>3, <2>4
  <1> QED
    BY <1>1, <1>5, <1>6 DEF low, high, n

(* A gap filled with a slot from outside. *)
LEMMA MappedFilled ==
    ASSUME NEW map \in Seq(Link), NEW i \in 1..Len(map), map[i] = None,
           NEW s \in Slots, s \notin Mapped(map)
    PROVE  /\ Mapped([map EXCEPT ![i] = s]) = Mapped(map) \union {s}
           /\ Apart(map) => Apart([map EXCEPT ![i] = s])
  <1> DEFINE new == [map EXCEPT ![i] = s]
             n == Len(map)
  <1>1. Len(new) = n /\ new[i] = s /\ n \in Nat /\ \A j \in 1..n : j # i => new[j] = map[j]
    OBVIOUS
  <1>2. s # None
    BY SlotNumbers
  <1>3. \A j \in 1..n : map[j] # s
    BY <1>2 DEF Mapped
  <1> HIDE DEF new, n
  <1>4. Mapped(new) = Mapped(map) \union {s}
    <2>1. Mapped(new) \subseteq Mapped(map) \union {s}
      BY <1>1 DEF Mapped, n
    <2>2. Mapped(map) \subseteq Mapped(new)
      BY <1>1 DEF Mapped, n
    <2>3. s \in Mapped(new)
      BY <1>1, <1>2 DEF Mapped, n
    <2> QED
      BY <2>1, <2>2, <2>3
  <1>5. ASSUME Apart(map) PROVE Apart(new)
    <2> SUFFICES ASSUME NEW j \in 1..n, NEW l \in 1..n, new[j] # None, new[j] = new[l] PROVE j = l
      BY <1>1 DEF Apart
    <2> QED
      BY <1>1, <1>3, <1>5 DEF Apart, n
  <1> QED
    BY <1>4, <1>5 DEF new

(* Gaps at the end say nothing. *)
LEMMA MappedExtended ==
    ASSUME NEW map \in Seq(Link), NEW new \in Seq(Link), Len(new) >= Len(map),
           \A i \in 1..Len(map) : new[i] = map[i],
           \A i \in (Len(map) + 1)..Len(new) : new[i] = None
    PROVE  Mapped(new) = Mapped(map) /\ (Apart(map) => Apart(new))
  <1>1. Len(map) \in Nat /\ Len(new) \in Nat
    OBVIOUS
  <1>2. \A i \in 1..Len(new) : i \in 1..Len(map) \/ new[i] = None
    BY <1>1
  <1>3. 1..Len(map) \subseteq 1..Len(new)
    BY <1>1
  <1>4. Mapped(new) = Mapped(map)
    BY <1>2, <1>3 DEF Mapped
  <1>5. ASSUME Apart(map) PROVE Apart(new)
    BY <1>2, <1>5 DEF Apart
  <1> QED
    BY <1>4, <1>5

-----------------------------------------------------------------------------
(* The slots of the one handle.                                              *)

DataIn(st, S) == \A s \in S : s \in Slots /\ st.node[s].kind = "data"

(* The head block n names, directly and along the blocks B, the slots ids.   *)
Names(st, n, B, ids) ==
    /\ n \in Slots /\ st.node[n].kind = "file"
    /\ ids \in Seq(Slots) /\ Distinct(ids) /\ DataIn(st, Members(ids))
    /\ FitsDirect => st.node[n].chain = None
    /\ \E cids : Chained(st, st.node[n].chain, B, cids) /\ ids = st.node[n].slots \o cids

(* An open handle: what is on disk is in its map, and the other way round    *)
(* but for what it has yet to flush.                                         *)
Held(st, of, B, ids) ==
    /\ Names(st, of.head, B, ids) /\ of.chain = st.node[of.head].chain
    /\ Apart(of.map) /\ DataIn(st, Mapped(of.map))
    /\ Members(ids) \subseteq Mapped(of.map)
    /\ ~of.metaDirty => Mapped(of.map) \subseteq Members(ids)
    /\ Owner(st, ({of.head} \union B) \union Mapped(of.map))

(* A file that no handle is open on.                                         *)
Rests(st, n, B, ids) ==
    Names(st, n, B, ids) /\ Owner(st, ({n} \union B) \union Members(ids))

(* The ids that open finds. *)
Listed(st, n, ids) ==
    ids = st.node[n].slots \o IndexChain(st, st.node[n].chain).ids

LEMMA NamesIs ==
    ASSUME NEW st \in Stores, NEW n, NEW B, NEW ids, Names(st, n, B, ids)
    PROVE  /\ n \in Slots /\ n # None /\ st.node[n] \in Nodes /\ st.node[n].chain \in Link
           /\ st.node[n].slots \in Seq(Slots) /\ B \subseteq Slots
           /\ \A s \in B : st.node[s].kind = "index"
           /\ n \notin B /\ n \notin Members(ids) /\ B \intersect Members(ids) = {}
           /\ IndexChain(st, st.node[n].chain).ok
           /\ IndexChain(st, st.node[n].chain).blocks = B
           /\ Listed(st, n, ids)
           /\ Chained(st, st.node[n].chain, B, IndexChain(st, st.node[n].chain).ids)
           /\ IndexChain(st, st.node[n].chain).ids \in Seq(Slots)
  <1>1. PICK cids : Chained(st, st.node[n].chain, B, cids) /\ ids = st.node[n].slots \o cids
    BY DEF Names
  <1>2. n \in Slots /\ st.node[n].kind = "file" /\ st.node[n] \in Nodes /\ n # None
    BY StoreFields, SlotNumbers DEF Names
  <1>3. st.node[n].chain \in Link /\ st.node[n].slots \in Seq(Slots)
    BY <1>2, NodeFields
  <1>4. /\ IndexChain(st, st.node[n].chain).ok /\ IndexChain(st, st.node[n].chain).ids = cids
        /\ IndexChain(st, st.node[n].chain).blocks = B
        /\ cids \in Seq(Slots) /\ B \subseteq Slots
        /\ \A s \in B : st.node[s].kind = "index"
    BY <1>1, <1>3, ChainRead
  <1>5. \A s \in Members(ids) : st.node[s].kind = "data"
    BY DEF Names, DataIn
  <1>6. n \notin B /\ n \notin Members(ids) /\ B \intersect Members(ids) = {}
    BY <1>2, <1>4, <1>5
  <1> QED
    BY <1>1, <1>2, <1>3, <1>4, <1>6 DEF Listed

(* Names depends on the head, its chain and the kind of the others. *)
LEMMA NamesSame ==
    ASSUME NEW st \in Stores, NEW new, NEW n, NEW B, NEW ids, Names(st, n, B, ids),
           SameNodes(new, st, {n} \union B), DataIn(new, Members(ids))
    PROVE  Names(new, n, B, ids)
  <1>1. new.node[n] = st.node[n] /\ \A s \in B : new.node[s] = st.node[s]
    BY DEF SameNodes
  <1>2. PICK cids : Chained(st, st.node[n].chain, B, cids) /\ ids = st.node[n].slots \o cids
    BY DEF Names
  <1>3. Chained(new, new.node[n].chain, B, cids) /\ ids = new.node[n].slots \o cids
    BY <1>1, <1>2, ChainedSame
  <1> QED
    BY <1>1, <1>3 DEF Names

(* What keeps the slots of a handle in order. *)
LEMMA HeldKept ==
    ASSUME NEW st \in Stores, NEW of, NEW B, NEW ids, Held(st, of, B, ids), NEW new, NEW next,
           next.head = of.head, next.chain = of.chain,
           SameNodes(new, st, {of.head} \union B),
           Owner(new, ({of.head} \union B) \union Mapped(next.map)),
           Apart(next.map), DataIn(new, Mapped(next.map)),
           Mapped(of.map) \subseteq Mapped(next.map),
           ~next.metaDirty => ~of.metaDirty /\ Mapped(next.map) = Mapped(of.map)
    PROVE  Held(new, next, B, ids)
  <1>1. Members(ids) \subseteq Mapped(next.map)
    BY DEF Held
  <1>2. DataIn(new, Members(ids))
    BY <1>1 DEF DataIn
  <1>3. Names(st, of.head, B, ids)
    BY DEF Held
  <1>4. Names(new, of.head, B, ids)
    BY <1>2, <1>3, NamesSame
  <1>5. new.node[of.head] = st.node[of.head]
    BY DEF SameNodes
  <1>6. ~next.metaDirty => Mapped(next.map) \subseteq Members(ids)
    BY DEF Held
  <1>7. of.chain = st.node[of.head].chain
    BY DEF Held
  <1> QED
    BY <1>1, <1>4, <1>5, <1>6, <1>7 DEF Held

(* The slots of a handle exclude one another. *)
LEMMA HeldIs ==
    ASSUME NEW st \in Stores, NEW of, NEW B, NEW ids, Held(st, of, B, ids)
    PROVE  /\ of.head \in Slots /\ of.head # None /\ B \subseteq Slots
           /\ of.head \notin B /\ of.head \notin Mapped(of.map) /\ B \intersect Mapped(of.map) = {}
           /\ Mapped(of.map) \subseteq Slots
  <1>1. Names(st, of.head, B, ids) /\ DataIn(st, Mapped(of.map))
    BY DEF Held
  <1>2. /\ of.head \in Slots /\ of.head # None /\ B \subseteq Slots
        /\ \A s \in B : st.node[s].kind = "index"
        /\ of.head \notin B
    BY <1>1, NamesIs
  <1>3. st.node[of.head].kind = "file"
    BY <1>1 DEF Names
  <1>4. \A s \in Mapped(of.map) : s \in Slots /\ st.node[s].kind = "data"
    BY <1>1 DEF DataIn
  <1> QED
    BY <1>2, <1>3, <1>4

-----------------------------------------------------------------------------
(* One chunk written back.                                                   *)

WroteNothing(st, of, w) == w.st = st /\ w.of = of

WroteOver(st, of, ci, w) ==
    /\ ci \in DOMAIN of.cache /\ ci + 1 \in 1..Len(of.map) /\ of.map[ci + 1] # None
    /\ w.ok /\ w.of = of /\ w.st = Updated(st, of.map[ci + 1], FileDataBlock(of.cache[ci]))

WroteNew(st, of, ci, w) ==
    /\ ci \in DOMAIN of.cache /\ ci + 1 \in 1..Len(of.map) /\ of.map[ci + 1] = None
    /\ HasSpace(st) /\ w.ok /\ w.st = Written(st, FileDataBlock(of.cache[ci]))
    /\ w.of.map = [of.map EXCEPT ![ci + 1] = NextFree(st)]
    /\ w.of.metaDirty /\ w.of.head = of.head /\ w.of.chain = of.chain

LEMMA WriteBackIs ==
    ASSUME NEW st \in Stores, NEW of \in OpenFiles, NEW ci \in Numbers
    PROVE  LET w == WriteBack(st, of, ci)
           IN  \/ WroteNothing(st, of, w) /\ (w.ok => ci \notin DOMAIN of.cache \/ ci >= Len(of.map))
               \/ WroteOver(st, of, ci, w) \/ WroteNew(st, of, ci, w)
  <1>1. ci \in Nat /\ Len(of.map) \in Nat
    BY Fields, Sizes DEF Numbers
  <1>2. CASE ci \notin DOMAIN of.cache \/ ci >= Len(of.map)
    BY <1>2 DEF WriteBack, WroteNothing
  <1>3. CASE ci \in DOMAIN of.cache /\ ~(ci >= Len(of.map))
    <2>1. ci + 1 \in 1..Len(of.map)
      BY <1>1, <1>3
    <2>2. CASE of.map[ci + 1] # None
      BY <1>3, <2>1, <2>2 DEF WriteBack, WroteOver
    <2>3. CASE of.map[ci + 1] = None /\ HasSpace(st)
      BY <1>3, <2>1, <2>3 DEF WriteBack, WroteNew, OpenFiles
    <2>4. CASE of.map[ci + 1] = None /\ ~HasSpace(st)
      BY <1>3, <2>1, <2>4 DEF WriteBack, WroteNothing
    <2> QED
      BY <2>2, <2>3, <2>4
  <1> QED
    BY <1>2, <1>3

LEMMA WriteBackHeld ==
    ASSUME NEW st \in Stores, NEW of \in OpenFiles, NEW ci \in Numbers,
           NEW B, NEW ids, Held(st, of, B, ids)
    PROVE  Held(WriteBack(st, of, ci).st, WriteBack(st, of, ci).of, B, ids)
  <1> DEFINE w == WriteBack(st, of, ci)
             O == ({of.head} \union B) \union Mapped(of.map)
  <1>1. WroteNothing(st, of, w) \/ WroteOver(st, of, ci, w) \/ WroteNew(st, of, ci, w)
    BY WriteBackIs
  <1> HIDE DEF w
  <1>2. of.map \in Seq(Link)
    BY Fields
  <1>3. /\ of.head \in Slots /\ of.head # None /\ B \subseteq Slots
        /\ of.head \notin B /\ of.head \notin Mapped(of.map) /\ B \intersect Mapped(of.map) = {}
        /\ Mapped(of.map) \subseteq Slots
    BY HeldIs
  <1>4. Owner(st, O) /\ Apart(of.map) /\ DataIn(st, Mapped(of.map))
    BY DEF Held
  <1>5. CASE WroteNothing(st, of, w)
    BY <1>5 DEF WroteNothing, w
  <1>6. CASE WroteOver(st, of, ci, w)
    <2> DEFINE s == of.map[ci + 1]
               node == FileDataBlock(of.cache[ci])
    <2>1. s \in Mapped(of.map) /\ w.of = of /\ w.st = Updated(st, s, node)
      BY <1>6 DEF WroteOver, Mapped
    <2>2. node.kind = "data"
      BY BlockFields
    <2> HIDE DEF s, node, O
    <2>3. s \in Slots
      BY <1>3, <2>1
    <2>4. /\ Owner(w.st, O) /\ w.st.node[s] = node
          /\ SameNodes(w.st, st, Slots \ {s})
      BY <1>4, <2>1, <2>3, OwnerUpdated
    <2>5. SameNodes(w.st, st, {of.head} \union B)
      BY <1>3, <2>1, <2>4 DEF SameNodes
    <2>6. DataIn(w.st, Mapped(of.map))
      BY <1>3, <1>4, <2>2, <2>4 DEF SameNodes, DataIn
    <2>7. Owner(w.st, ({of.head} \union B) \union Mapped(w.of.map))
      BY <2>1, <2>4 DEF O
    <2> QED
      BY <1>4, <2>1, <2>5, <2>6, <2>7, HeldKept DEF w
  <1>7. CASE WroteNew(st, of, ci, w)
    <2> DEFINE s == NextFree(st)
               node == FileDataBlock(of.cache[ci])
               i == ci + 1
    <2>1. /\ i \in 1..Len(of.map) /\ of.map[i] = None /\ HasSpace(st)
          /\ w.st = Written(st, node) /\ w.of.map = [of.map EXCEPT ![i] = s]
          /\ w.of.metaDirty /\ w.of.head = of.head /\ w.of.chain = of.chain
      BY <1>7 DEF WroteNew
    <2>2. node.kind = "data"
      BY BlockFields
    <2> HIDE DEF node, i, O
    <2>3. /\ s \in Slots /\ s \notin O /\ Owner(w.st, O \union {s}) /\ w.st.node[s] = node
          /\ SameNodes(w.st, st, Slots \ {s})
      <3>1. Owner(st, O) /\ HasSpace(st) /\ w.st = Written(st, node)
        BY <1>4, <2>1
      <3>2. /\ NextFree(st) \in Slots /\ NextFree(st) \notin O
            /\ Owner(Written(st, node), O \union {NextFree(st)})
            /\ Written(st, node).node[NextFree(st)] = node
            /\ SameNodes(Written(st, node), st, Slots \ {NextFree(st)})
        BY <3>1, OwnerWritten
      <3> QED
        BY <3>1, <3>2
    <2> HIDE DEF s
    <2>4. s \notin {of.head} /\ s \notin B /\ s \notin Mapped(of.map)
      BY <2>3 DEF O
    <2>5. Mapped(w.of.map) = Mapped(of.map) \union {s} /\ Apart(w.of.map)
      BY <1>2, <1>4, <2>1, <2>3, <2>4, MappedFilled
    <2>6. SameNodes(w.st, st, {of.head} \union B)
      BY <1>3, <2>3, <2>4 DEF SameNodes
    <2>7. DataIn(w.st, Mapped(w.of.map))
      BY <1>3, <1>4, <2>2, <2>3, <2>5 DEF SameNodes, DataIn
    <2>8. ({of.head} \union B) \union Mapped(w.of.map) = O \union {s}
      BY <2>5 DEF O
    <2>9. Owner(w.st, ({of.head} \union B) \union Mapped(w.of.map))
      BY <2>3, <2>8
    <2> QED
      BY <2>1, <2>5, <2>6, <2>7, <2>9, HeldKept DEF w
  <1> QED
    BY <1>1, <1>5, <1>6, <1>7

-----------------------------------------------------------------------------
(* The loops of a write and of a flush keep the slots of the handle.         *)

LEMMA HeldSame ==
    ASSUME NEW st \in Stores, NEW of, NEW B, NEW ids, Held(st, of, B, ids), NEW next,
           next.head = of.head, next.chain = of.chain,
           Mapped(next.map) = Mapped(of.map), Apart(of.map) => Apart(next.map),
           ~next.metaDirty => ~of.metaDirty
    PROVE  Held(st, next, B, ids)
  <1>1. Apart(of.map) /\ DataIn(st, Mapped(of.map))
        /\ Owner(st, ({of.head} \union B) \union Mapped(of.map))
    BY DEF Held
  <1>2. SameNodes(st, st, {of.head} \union B)
    BY DEF SameNodes
  <1> QED
    BY <1>1, <1>2, HeldKept

LEMMA SpillHeld ==
    ASSUME NEW st \in Stores, NEW of \in OpenFiles, NEW order \in Seq(Numbers),
           NEW k \in 0..Len(order), NEW B, NEW ids, Held(st, of, B, ids)
    PROVE  Held(SpillRun(order, st, of, k).st, SpillRun(order, st, of, k).of, B, ids)
  <1> DEFINE P == {p \in Nat \X Results : Held(p[2].st, p[2].of, B, ids)}
  <1>1. <<0, RunStart(st, of)>> \in P
    BY DEF RunStart, Results
  <1>2. ASSUME NEW i \in 1..k, NEW q \in Results, q.st \in Stores, q.of \in OpenFiles,
               order[i] \in Numbers, <<i - 1, q>> \in P
        PROVE  <<i, SpillNext(order, i, q)>> \in P
    <2> DEFINE w == WriteBack(q.st, q.of, order[i])
               d == Dropped(w.of, order[i])
    <2>1. Held(q.st, q.of, B, ids) /\ i \in Nat
      BY <1>2
    <2>2. w \in Results /\ w.st \in Stores /\ w.of \in OpenFiles
      BY <1>2, WriteBackKeeps DEF Results
    <2>3. Held(w.st, w.of, B, ids)
      BY <1>2, <2>1, WriteBackHeld
    <2> HIDE DEF w
    <2>4. SpillNext(order, i, q) = IF ~q.ok THEN q ELSE IF ~w.ok THEN w ELSE [w EXCEPT !.of = d]
      BY DEF SpillNext, w
    <2>5. /\ d \in OpenFiles /\ d.map = w.of.map /\ d.head = w.of.head /\ d.chain = w.of.chain
          /\ d.metaDirty = w.of.metaDirty
      BY <2>2, DroppedKeeps
    <2> HIDE DEF d
    <2>6. Held(w.st, d, B, ids)
      BY <2>2, <2>3, <2>5, HeldSame
    <2>7. [w EXCEPT !.of = d] \in Results /\ [w EXCEPT !.of = d].st = w.st
          /\ [w EXCEPT !.of = d].of = d
      BY <2>2, <2>5 DEF Results
    <2>8. SpillNext(order, i, q) \in Results
          /\ Held(SpillNext(order, i, q).st, SpillNext(order, i, q).of, B, ids)
      BY <1>2, <2>1, <2>2, <2>3, <2>4, <2>6, <2>7
    <2> QED
      BY <2>1, <2>8
  <1> HIDE DEF P
  <1>3. <<k, SpillRun(order, st, of, k)>> \in P
    BY <1>1, <1>2, SpillInduction
  <1> QED
    BY <1>3 DEF P

LEMMA FlushRunHeld ==
    ASSUME NEW st \in Stores, NEW of \in OpenFiles, NEW order \in Seq(Numbers),
           NEW B, NEW ids, Held(st, of, B, ids)
    PROVE  Held(FlushRun(order, st, of).st, FlushRun(order, st, of).of, B, ids)
  <1> DEFINE P == {p \in Nat \X Results : Held(p[2].st, p[2].of, B, ids)}
             n == Len(order)
  <1>1. <<0, RunStart(st, of)>> \in P
    BY DEF RunStart, Results
  <1>2. ASSUME NEW i \in 1..n, NEW q \in Results, q.st \in Stores, q.of \in OpenFiles,
               order[i] \in Numbers, <<i - 1, q>> \in P
        PROVE  <<i, FlushNext(order, i, q)>> \in P
    <2> DEFINE w == WriteBack(q.st, q.of, order[i])
    <2>1. Held(q.st, q.of, B, ids) /\ i \in Nat
      BY <1>2
    <2>2. w \in Results
      BY <1>2, WriteBackKeeps
    <2>3. Held(w.st, w.of, B, ids)
      BY <1>2, <2>1, WriteBackHeld
    <2> HIDE DEF w
    <2>4. FlushNext(order, i, q) = IF q.ok THEN w ELSE q
      BY DEF FlushNext, w
    <2>5. FlushNext(order, i, q) \in Results
          /\ Held(FlushNext(order, i, q).st, FlushNext(order, i, q).of, B, ids)
      BY <1>2, <2>1, <2>2, <2>3, <2>4
    <2> QED
      BY <2>1, <2>5
  <1> HIDE DEF P
  <1>3. <<n, FlushRun(order, st, of)>> \in P
    BY <1>1, <1>2, FlushInduction
  <1> QED
    BY <1>3 DEF P

LEMMA WriteChunksHeld ==
    ASSUME NEW st \in Stores, NEW of \in OpenFiles, NEW from \in 0..MaxSize,
           NEW to \in 0..MaxSize, from < to, NEW tag \in Byte,
           NEW B, NEW ids, Held(st, of, B, ids),
           NEW r \in WriteChunks(st, of, from, to, tag)
    PROVE  r \in Reached /\ (r.ok => Held(st, r.of, B, ids))
  <1> DEFINE n == Chunks(to) - from \div ChunkSize
             Inv(q) == q.ok => Held(st, q.of, B, ids)
             P == {p \in Nat \X Reached : Inv(p[2])}
  <1>1. <<0, [ok |-> TRUE, of |-> of]>> \in P
    BY DEF Reached
  <1>2. ASSUME NEW i \in 1..n, NEW q \in Reached, <<i - 1, q>> \in P,
               q.of \in OpenFiles, from \div ChunkSize + i - 1 \in 0..MaxSize
        PROVE  /\ ~q.ok => <<i, q>> \in P
               /\ q.ok => \A r2 \in WriteChunk(st, q.of, from \div ChunkSize + i - 1, from, to, tag) :
                             <<i, r2>> \in P
    <2>1. Inv(q) /\ i \in Nat
      BY <1>2
    <2>2. ASSUME q.ok, NEW r2 \in WriteChunk(st, q.of, from \div ChunkSize + i - 1, from, to, tag)
          PROVE  r2 \in Reached /\ Inv(r2)
      <3> DEFINE ci == from \div ChunkSize + i - 1
      <3>1. ci \in 0..MaxSize /\ r2 \in WriteChunk(st, q.of, ci, from, to, tag)
        BY <1>2, <2>2
      <3> HIDE DEF ci
      <3>2. /\ r2 \in Reached /\ r2.of.head = q.of.head /\ r2.of.chain = q.of.chain
            /\ r2.of.map = MapExtended(q.of, ci).map
            /\ r2.ok => r2.of.metaDirty = (q.of.metaDirty \/ ci >= Len(q.of.map) \/ to > q.of.total)
        BY <1>2, <3>1, WriteChunkKeeps
      <3>3. /\ q.of.map \in Seq(Link) /\ r2.of.map \in Seq(Link)
            /\ Len(q.of.map) \in Nat /\ Len(r2.of.map) \in Nat /\ ci \in Nat
        BY <1>2, <3>1, <3>2, Fields DEF Reached
      <3>4. /\ Len(r2.of.map) = (IF ci < Len(q.of.map) THEN Len(q.of.map) ELSE ci + 1)
            /\ \A j \in 1..Len(q.of.map) : r2.of.map[j] = q.of.map[j]
            /\ \A j \in (Len(q.of.map) + 1)..Len(r2.of.map) : r2.of.map[j] = None
        <4> DEFINE m == MapExtended(q.of, ci).map
        <4>1. /\ Len(m) = (IF ci < Len(q.of.map) THEN Len(q.of.map) ELSE ci + 1)
              /\ \A j \in 1..Len(q.of.map) : m[j] = q.of.map[j]
              /\ \A j \in (Len(q.of.map) + 1)..Len(m) : m[j] = None
          BY <1>2, <3>1, MapExtendedIs
        <4> HIDE DEF m
        <4>2. r2.of.map = m
          BY <3>2 DEF m
        <4> QED
          BY <4>1, <4>2
      <3>5. Len(r2.of.map) >= Len(q.of.map)
        BY <3>3, <3>4
      <3>6. Mapped(r2.of.map) = Mapped(q.of.map) /\ (Apart(q.of.map) => Apart(r2.of.map))
        BY <3>3, <3>4, <3>5, MappedExtended
      <3> QED
        BY <2>1, <2>2, <3>2, <3>6, HeldSame
    <2> QED
      BY <2>1, <2>2
  <1> HIDE DEF P
  <1>3. n \in Nat /\ r \in Reached /\ <<n, r>> \in P
    BY <1>1, <1>2, WriteChunksInduction
  <1> QED
    BY <1>3 DEF P

(* What a write that succeeds did after its chunks. *)
LEMMA WriteRequestIs ==
    ASSUME NEW st \in Stores, NEW of \in OpenFiles, NEW from \in 0..MaxSize,
           NEW to \in 0..MaxSize, from < to, NEW tag \in Byte,
           NEW r \in WriteRequest(st, of, from, to, tag), r.ok
    PROVE  \E w \in WriteChunks(st, of, from, to, tag) :
              /\ w.ok /\ w \in Reached /\ w.of \in OpenFiles
              /\ \/ r = RunStart(st, w.of)
                 \/ \E order \in SetToSeqs(Continuation(w.of)) : \E k \in Nat :
                       /\ order \in Seq(Numbers) /\ k \in 0..Len(order)
                       /\ r = SpillRun(order, st, w.of, k)
  <1>1. PICK w \in WriteChunks(st, of, from, to, tag) :
           r \in IF w.ok THEN WrittenThrough(st, w.of) ELSE {[ok |-> FALSE, st |-> st, of |-> w.of]}
    BY DEF WriteRequest
  <1>2. w.ok /\ r \in WrittenThrough(st, w.of)
    BY <1>1
  <1>3. w \in Reached /\ w.of \in OpenFiles
    <2>1. WriteChunks(st, of, from, to, tag) \in SUBSET Reached
      BY ChunksWritten
    <2> QED
      BY <2>1 DEF Reached
  <1>4. /\ IsFiniteSet(Continuation(w.of)) /\ Waiting(w.of) \in Nat /\ WriteThrough \in Nat
    BY <1>3, Fields, ContinuationFinite, Sizes DEF Waiting
  <1>5. CASE Waiting(w.of) > WriteThrough
    <2> DEFINE k == Waiting(w.of) - WriteThrough \div 2
    <2>1. r \in WriteThroughFlush(st, w.of, k)
      BY <1>2, <1>5 DEF WrittenThrough, Waiting
    <2>2. k \in 0..Waiting(w.of)
      BY <1>4, <1>5, WriteThroughBounds
    <2>3. PICK order \in SetToSeqs(Continuation(w.of)) : r = SpillRun(order, st, w.of, k)
      BY <2>1, SpillOrders
    <2>4. k \in 0..Len(order) /\ order \in Seq(Numbers) /\ k \in Nat
      BY <1>3, <1>4, <2>2, OrderIs, FlushOrderTyped DEF Waiting
    <2> HIDE DEF k
    <2> QED
      BY <1>2, <1>3, <2>3, <2>4
  <1>6. CASE ~(Waiting(w.of) > WriteThrough)
    <2>1. r = RunStart(st, w.of)
      BY <1>2, <1>6 DEF WrittenThrough, Waiting, RunStart
    <2> QED
      BY <1>2, <1>3, <2>1
  <1> QED
    BY <1>5, <1>6

LEMMA WriteRequestHeld ==
    ASSUME NEW st \in Stores, NEW of \in OpenFiles, NEW from \in 0..MaxSize,
           NEW to \in 0..MaxSize, from < to, NEW tag \in Byte,
           NEW B, NEW ids, Held(st, of, B, ids),
           NEW r \in WriteRequest(st, of, from, to, tag), r.ok
    PROVE  Held(r.st, r.of, B, ids)
  <1>1. PICK w \in WriteChunks(st, of, from, to, tag) :
              /\ w.ok /\ w \in Reached /\ w.of \in OpenFiles
              /\ \/ r = RunStart(st, w.of)
                 \/ \E order \in SetToSeqs(Continuation(w.of)) : \E k \in Nat :
                       /\ order \in Seq(Numbers) /\ k \in 0..Len(order)
                       /\ r = SpillRun(order, st, w.of, k)
    BY WriteRequestIs
  <1>2. Held(st, w.of, B, ids)
    BY <1>1, WriteChunksHeld
  <1>3. CASE r = RunStart(st, w.of)
    BY <1>2, <1>3 DEF RunStart
  <1>4. ASSUME NEW order \in SetToSeqs(Continuation(w.of)), NEW k \in Nat,
               order \in Seq(Numbers), k \in 0..Len(order), r = SpillRun(order, st, w.of, k)
        PROVE  Held(r.st, r.of, B, ids)
    BY <1>1, <1>2, <1>4, SpillHeld
  <1> QED
    BY <1>1, <1>3, <1>4

-----------------------------------------------------------------------------
(* A flush gives back what is beyond the end and writes a new head.          *)

(* After step 2 the head on disk may name slots that are free again.         *)
Trimmed(st, of, B) ==
    /\ of.head \in Slots /\ st.node[of.head].kind = "file"
    /\ (\E ids : Chained(st, of.chain, B, ids)) /\ B \subseteq Slots
    /\ of.head \notin B /\ of.head \notin Mapped(of.map) /\ B \intersect Mapped(of.map) = {}
    /\ Apart(of.map) /\ DataIn(st, Mapped(of.map))
    /\ Owner(st, ({of.head} \union B) \union Mapped(of.map))
    /\ Len(of.map) <= Kept(of.total)

LEMMA CutHeld ==
    ASSUME NEW st \in Stores, NEW of \in OpenFiles, NEW B, NEW ids, Held(st, of, B, ids)
    PROVE  Trimmed(Cut(st, of).st, Cut(st, of).of, B)
  <1> DEFINE c == Cut(st, of)
             k == Kept(of.total)
             low == SubSeq(of.map, 1, k)
             high == SubSeq(of.map, k + 1, Len(of.map))
             O == ({of.head} \union B) \union Mapped(of.map)
  <1>1. /\ c.of.head = of.head /\ c.of.total = of.total /\ c.of.chain = of.chain
        /\ Len(of.map) <= k => c.st = st /\ c.of = of
        /\ Len(of.map) > k =>
              c.st = FreedAll(st, Present(high)) /\ c.of.map = low
    BY CutIs
  <1>2. of.map \in Seq(Link) /\ Len(of.map) \in Nat /\ of.total \in Nat
    BY Fields, Sizes
  <1>3. k \in Nat /\ k >= 1
    BY <1>2, KeptIs
  <1>4. /\ of.head \in Slots /\ of.head # None /\ B \subseteq Slots
        /\ of.head \notin B /\ of.head \notin Mapped(of.map) /\ B \intersect Mapped(of.map) = {}
        /\ Mapped(of.map) \subseteq Slots
    BY HeldIs
  <1>5. /\ Owner(st, O) /\ Apart(of.map) /\ DataIn(st, Mapped(of.map))
        /\ Names(st, of.head, B, ids) /\ of.chain = st.node[of.head].chain
    BY DEF Held
  <1>6. st.node[of.head].kind = "file" /\ \E cids : Chained(st, of.chain, B, cids)
    BY <1>5 DEF Names
  <1> HIDE DEF c, k
  <1>7. CASE Len(of.map) <= k
    BY <1>1, <1>4, <1>5, <1>6, <1>7 DEF Trimmed, k, c
  <1>8. CASE ~(Len(of.map) <= k)
    <2>1. k \in 0..Len(of.map) /\ Len(of.map) > k
      BY <1>2, <1>3, <1>8
    <2>2. /\ low \in Seq(Link) /\ high \in Seq(Link)
          /\ Mapped(of.map) = Mapped(low) \union Mapped(high)
          /\ Apart(low) /\ Apart(high) /\ Mapped(low) \intersect Mapped(high) = {}
      BY <1>2, <1>5, <2>1, MappedCut
    <2>3. Len(low) = k
      BY <1>2, <2>1
    <2> HIDE DEF low, high, O
    <2>4. Present(high) \in Seq(Slots) /\ Members(Present(high)) = Mapped(high)
          /\ Distinct(Present(high))
      BY <2>2, PresentIs
    <2>5. Members(Present(high)) \subseteq O
      BY <2>2, <2>4 DEF O
    <2>6. /\ Owner(c.st, O \ Mapped(high)) /\ SameNodes(c.st, st, Slots \ Mapped(high))
          /\ c.of.map = low
      <3>1. Owner(FreedAll(st, Present(high)), O \ Members(Present(high)))
            /\ SameNodes(FreedAll(st, Present(high)), st, Slots \ Members(Present(high)))
        BY <1>5, <2>4, <2>5, OwnerFreedAll
      <3> QED
        BY <1>1, <2>1, <2>4, <3>1
    <2>7. O \ Mapped(high) = ({of.head} \union B) \union Mapped(low)
      BY <1>4, <2>2 DEF O
    <2>8. \A s \in ({of.head} \union B) \union Mapped(low) : c.st.node[s] = st.node[s]
      BY <1>4, <2>2, <2>6 DEF SameNodes
    <2>9. DataIn(c.st, Mapped(low))
      BY <1>5, <2>2, <2>8 DEF DataIn
    <2>10. PICK cids : Chained(st, of.chain, B, cids)
      BY <1>6
    <2>11. Chained(c.st, of.chain, B, cids)
      BY <2>8, <2>10, ChainedSame
    <2>12. Len(c.of.map) <= Kept(c.of.total)
      BY <1>1, <1>3, <2>3, <2>6 DEF k
    <2>13. Owner(c.st, ({of.head} \union B) \union Mapped(low))
      BY <2>6, <2>7
    <2>14. of.head \notin Mapped(low) /\ B \intersect Mapped(low) = {}
      BY <1>4, <2>2
    <2> QED
      BY <1>1, <1>4, <1>6, <2>2, <2>6, <2>8, <2>9, <2>11, <2>12, <2>13, <2>14 DEF Trimmed, c
  <1> QED
    BY <1>7, <1>8 DEF c

LEMMA ChunksMonotone ==
    ASSUME NEW a \in Nat, NEW b \in Nat, a <= b
    PROVE  Chunks(a) <= Chunks(b)
  <1>1. Chunks(a) \in Nat /\ Chunks(b) \in Nat
    BY ChunksBound
  <1>2. ASSUME Chunks(b) < Chunks(a) PROVE FALSE
    <2>1. Chunks(b) * ChunkSize < a
      BY <1>1, <1>2, ChunksBound
    <2>2. b <= Chunks(b) * ChunkSize
      BY ChunksBound
    <2>3. Chunks(b) * ChunkSize \in Nat
      BY <1>1, Sizes
    <2> QED
      BY <2>1, <2>2, <2>3
  <1> QED
    BY <1>1, <1>2

(* The new head and its chain name what is in the map. *)
LEMMA NamedIs ==
    ASSUME NEW of \in OpenFiles, Len(of.map) <= Kept(of.total), Apart(of.map)
    PROVE  /\ Named(of) \in Seq(Slots) /\ Members(Named(of)) = Mapped(of.map)
           /\ Distinct(Named(of))
           /\ Named(of) = Present(SubSeq(of.map, 2, Len(of.map)))
           /\ FitsDirect => Indirect(Named(of)) = <<>>
  <1>1. /\ of.map \in Seq(Link) /\ Len(of.map) \in Nat /\ Len(of.map) >= 1 /\ of.map[1] = None
        /\ of.total \in Nat /\ MaxSize \in Nat /\ of.total <= MaxSize /\ MaxDirect \in Nat
    BY Fields, Sizes
  <1>2. Chunks(of.total) \in Nat /\ Chunks(MaxSize) \in Nat
        /\ Chunks(of.total) <= Chunks(MaxSize)
    BY <1>1, ChunksBound, ChunksMonotone
  <1>3. Kept(of.total) = IF Chunks(of.total) >= 1 THEN Chunks(of.total) ELSE 1
    BY <1>1, KeptIs
  <1>4. Max({1, Min({Len(of.map), Chunks(of.total)})}) = Len(of.map)
    <2>1. Min({Len(of.map), Chunks(of.total)})
             = IF Len(of.map) <= Chunks(of.total) THEN Len(of.map) ELSE Chunks(of.total)
      BY <1>1, <1>2, MinOfTwo
    <2> DEFINE m == Min({Len(of.map), Chunks(of.total)})
    <2>2. m \in Int
      BY <1>1, <1>2, <2>1
    <2>4. m = IF Len(of.map) <= Chunks(of.total) THEN Len(of.map) ELSE Chunks(of.total)
      BY <2>1
    <2> HIDE DEF m
    <2>3. Max({1, m}) = IF 1 >= m THEN 1 ELSE m
      BY <2>2, MaxOfTwo
    <2>5. (IF 1 >= m THEN 1 ELSE m) = Len(of.map)
      BY <1>1, <1>2, <1>3, <2>4
    <2>6. Max({1, m}) = Len(of.map)
      BY <2>3, <2>5
    <2> QED
      BY <2>6 DEF m
  <1> DEFINE low == SubSeq(of.map, 1, 1)
             high == SubSeq(of.map, 1 + 1, Len(of.map))
  <1>5. 1 \in 0..Len(of.map) /\ SubSeq(of.map, 2, Len(of.map)) = high
    BY <1>1
  <1>6. /\ low \in Seq(Link) /\ high \in Seq(Link)
        /\ Mapped(of.map) = Mapped(low) \union Mapped(high) /\ Apart(high)
    BY <1>1, <1>5, MappedCut
  <1>7. Len(low) = 1 /\ low[1] = None /\ Len(high) = Len(of.map) - 1
    BY <1>1, <1>5, Split
  <1>8. Named(of) = Present(high)
    BY <1>4, <1>5 DEF Named
  <1> HIDE DEF low, high
  <1>9. Mapped(low) = {}
    BY <1>7 DEF Mapped
  <1>10. /\ Present(high) \in Seq(Slots) /\ Members(Present(high)) = Mapped(high)
         /\ Len(Present(high)) <= Len(high) /\ Distinct(Present(high))
    BY <1>6, PresentIs
  <1>11. ASSUME FitsDirect PROVE Indirect(Named(of)) = <<>>
    <2>1. Len(Named(of)) \in Nat /\ Len(Named(of)) <= Len(of.map) - 1
      BY <1>7, <1>8, <1>10
    <2>2. Chunks(MaxSize) <= MaxDirect + 1
      BY <1>11 DEF FitsDirect
    <2>3. Len(of.map) - 1 <= MaxDirect
      BY <1>1, <1>2, <1>3, <2>2
    <2>4. Len(Named(of)) <= MaxDirect
      BY <1>1, <2>1, <2>3
    <2> QED
      BY <1>8, <1>10, <2>4, DirectIndirect
  <1> QED
    BY <1>5, <1>6, <1>8, <1>9, <1>10, <1>11

(* What step 3 leaves: the new head names what is in the map. *)
Renewed(st, of, B, ids) ==
    /\ Names(st, of.head, B, ids) /\ of.chain = st.node[of.head].chain
    /\ Members(ids) = Mapped(of.map)
    /\ Apart(of.map) /\ DataIn(st, Mapped(of.map))
    /\ Owner(st, ({of.head} \union B) \union Mapped(of.map))

LEMMA FlushHeadRenewed ==
    ASSUME NEW st \in Stores, NEW of \in OpenFiles, NEW B, Trimmed(st, of, B),
           FlushHead(st, of).ok
    PROVE  /\ \E B2 : Renewed(FlushHead(st, of).st, FlushHead(st, of).of, B2, Named(of))
           /\ \A s \in Mapped(of.map) : FlushHead(st, of).st.node[s] = st.node[s]
           /\ FlushHead(st, of).st.node[of.head] = NewHead(st, of)
  <1> DEFINE n == of.head
             M == Mapped(of.map)
             O == ({n} \union B) \union M
             st1 == ChainFreed(st, of.chain)
             ids == Named(of)
             w == Rewritten(st, of)
             new == FlushHead(st, of)
             node == NewHead(st, of)
  <1>1. /\ n \in Slots /\ st.node[n].kind = "file" /\ B \subseteq Slots
        /\ n \notin B /\ n \notin M /\ B \intersect M = {}
        /\ Apart(of.map) /\ DataIn(st, M) /\ Owner(st, O) /\ Len(of.map) <= Kept(of.total)
    BY DEF Trimmed
  <1>2. PICK old : Chained(st, of.chain, B, old)
    BY DEF Trimmed
  <1>3. /\ ids \in Seq(Slots) /\ Members(ids) = M /\ Distinct(ids)
        /\ FitsDirect => Indirect(ids) = <<>>
    BY <1>1, NamedIs
  <1>4. /\ Direct(ids) \in Seq(Slots) /\ Indirect(ids) \in Seq(Slots)
        /\ ids = Direct(ids) \o Indirect(ids)
    BY <1>3, DirectIndirect
  <1>5. /\ w \in Writings /\ st1 \in Stores /\ w.ok /\ w = ChainWritten(st1, Indirect(ids))
        /\ new.st = Updated(w.st, n, node) /\ node \in Nodes
        /\ new.of = [of EXCEPT !.chain = w.chain]
    BY FlushHeadIs DEF Rewritten
  <1>6. of.chain \in Link
    BY Fields
  <1>7. node.kind = "file" /\ node.slots = Direct(ids) /\ node.chain = w.chain
    BY BlockFields DEF NewHead
  <1>8. new.of.head = n /\ new.of.chain = w.chain /\ new.of.map = of.map
    BY <1>5 DEF OpenFiles
  <1> HIDE DEF O, M, st1, ids, w, new, node
  <1>9. Owner(st1, O \ B) /\ SameNodes(st1, st, Slots \ B)
    BY <1>1, <1>2, <1>6, ChainFreedOwner DEF O, st1
  <1> DEFINE O1 == {n} \union M
  <1>10. O \ B = O1
    BY <1>1 DEF O
  <1>11. Owner(st1, O1)
    BY <1>9, <1>10
  <1> HIDE DEF O1
  <1>12. /\ \E B2 : Blocks(st1, O1, w.st, w.chain, B2, Indirect(ids))
         /\ Indirect(ids) = <<>> => w.chain = None
    BY <1>4, <1>5, <1>11, ChainWrittenOwner
  <1>13. PICK B2 : Blocks(st1, O1, w.st, w.chain, B2, Indirect(ids))
    BY <1>12
  <1>14. /\ Chained(w.st, w.chain, B2, Indirect(ids)) /\ B2 \subseteq Slots /\ B2 \intersect O1 = {}
         /\ Owner(w.st, O1 \union B2) /\ SameNodes(w.st, st1, Slots \ B2)
    BY <1>13 DEF Blocks
  <1>15. w.st \in Stores
    BY <1>5 DEF Writings
  <1>16. /\ Owner(new.st, O1 \union B2) /\ new.st.node[n] = node
         /\ SameNodes(new.st, w.st, Slots \ {n})
    <2> DEFINE Q == O1 \union B2
               st2 == w.st
    <2>1. st2 \in Stores /\ Owner(st2, Q) /\ n \in Slots /\ new.st = Updated(st2, n, node)
      BY <1>1, <1>5, <1>14, <1>15
    <2> HIDE DEF Q, st2, n
    <2>2. /\ Owner(Updated(st2, n, node), Q) /\ Updated(st2, n, node).node[n] = node
          /\ SameNodes(Updated(st2, n, node), st2, Slots \ {n})
      BY <2>1, OwnerUpdated
    <2> QED
      BY <2>1, <2>2 DEF Q, st2
  <1>17. n \notin B2 /\ M \intersect B2 = {} /\ M \subseteq Slots
    BY <1>1, <1>14 DEF O1, DataIn
  <1>18. Chained(new.st, w.chain, B2, Indirect(ids))
    <2>1. \A s \in B2 : new.st.node[s] = w.st.node[s]
      BY <1>14, <1>16, <1>17 DEF SameNodes
    <2> QED
      BY <1>14, <2>1, ChainedSame
  <1>19. \A s \in M : new.st.node[s] = st.node[s]
    BY <1>1, <1>9, <1>14, <1>16, <1>17 DEF SameNodes
  <1>20. DataIn(new.st, M)
    BY <1>1, <1>19 DEF DataIn
  <1>21. Names(new.st, n, B2, ids)
    BY <1>1, <1>3, <1>4, <1>7, <1>12, <1>16, <1>18, <1>20 DEF Names
  <1>22. O1 \union B2 = ({n} \union B2) \union M
    BY DEF O1
  <1>23. Owner(new.st, ({n} \union B2) \union M)
    BY <1>16, <1>22
  <1>24. Renewed(new.st, new.of, B2, ids)
    BY <1>1, <1>3, <1>7, <1>8, <1>16, <1>20, <1>21, <1>23 DEF Renewed, M
  <1> QED
    BY <1>16, <1>19, <1>24 DEF M, ids, new, node

LEMMA RenewedHeld ==
    ASSUME NEW st, NEW of, NEW B, NEW ids, Renewed(st, of, B, ids), NEW next,
           next.head = of.head, next.chain = of.chain, next.map = of.map
    PROVE  Held(st, next, B, ids)
  BY DEF Renewed, Held

(* What is left of a handle that has nothing to flush. *)
LEMMA HeldRests ==
    ASSUME NEW st, NEW of, NEW B, NEW ids, Held(st, of, B, ids), ~of.metaDirty
    PROVE  Rests(st, of.head, B, ids)
  <1>1. Names(st, of.head, B, ids) /\ Mapped(of.map) = Members(ids)
        /\ Owner(st, ({of.head} \union B) \union Mapped(of.map))
    BY DEF Held
  <1> QED
    BY <1>1 DEF Rests

LEMMA FlushTailHeld ==
    ASSUME NEW st \in Stores, NEW of \in OpenFiles, NEW B, NEW ids, Held(st, of, B, ids),
           FlushTail(st, of).ok
    PROVE  /\ \E B2, ids2 : Held(FlushTail(st, of).st, FlushTail(st, of).of, B2, ids2)
           /\ ~FlushTail(st, of).of.metaDirty
  <1> DEFINE c == Cut(st, of)
             t == FlushTail(st, of)
  <1>1. /\ t.of.head = of.head /\ t.of.map = c.of.map /\ ~t.of.metaDirty
        /\ ~HeadDue(c.of) => t.st = c.st /\ t.of.chain = of.chain
    BY FlushTailKeeps
  <1>2. /\ c.st \in Stores /\ c.of \in OpenFiles
        /\ HeadDue(c.of) => /\ t.ok = FlushHead(c.st, c.of).ok
                            /\ t.st = FlushHead(c.st, c.of).st
                            /\ t.ok => t.of = Settled(FlushHead(c.st, c.of).of)
    BY FlushTailIs
  <1>3. Trimmed(c.st, c.of, B)
    BY CutHeld
  <1>4. /\ Len(of.map) <= Kept(of.total) => c.st = st /\ c.of = of
        /\ Len(of.map) > Kept(of.total) => c.of.metaDirty
        /\ c.of.head = of.head
    BY CutIs
  <1>5. Len(of.map) \in Nat /\ Kept(of.total) \in Nat
    BY Fields, Sizes, KeptIs
  <1>6. t.ok
    OBVIOUS
  <1> HIDE DEF c, t
  <1>7. CASE ~HeadDue(c.of)
    <2>1. ~c.of.metaDirty
      BY <1>7 DEF HeadDue
    <2>2. c.st = st /\ c.of = of
      BY <1>4, <1>5, <2>1
    <2>3. Held(t.st, t.of, B, ids)
      BY <1>1, <1>7, <2>1, <2>2, HeldSame
    <2> QED
      BY <1>1, <2>3 DEF t
  <1>8. CASE HeadDue(c.of)
    <2> DEFINE f == FlushHead(c.st, c.of)
    <2>1. f.ok /\ t.st = f.st /\ t.of = Settled(f.of) /\ f \in Results
      BY <1>2, <1>6, <1>8, FlushHeadIs
    <2>2. PICK B2 : Renewed(f.st, f.of, B2, Named(c.of))
      BY <1>2, <1>3, <2>1, FlushHeadRenewed
    <2> HIDE DEF f
    <2>3. t.of.head = f.of.head /\ t.of.chain = f.of.chain /\ t.of.map = f.of.map
      BY <2>1 DEF Settled, Results, OpenFiles
    <2>4. Held(t.st, t.of, B2, Named(c.of))
      BY <2>1, <2>2, <2>3, RenewedHeld
    <2> QED
      BY <1>1, <2>4 DEF t
  <1> QED
    BY <1>7, <1>8

LEMMA FlushFhHeld ==
    ASSUME NEW st \in Stores, NEW of \in OpenFiles, NEW B, NEW ids, Held(st, of, B, ids),
           NEW r \in FlushFh(st, of), r.ok
    PROVE  (\E B2, ids2 : Held(r.st, r.of, B2, ids2)) /\ ~r.of.metaDirty
  <1>1. CASE Clean(of)
    <2>1. r = RunStart(st, of)
      BY <1>1, FlushFhTyped
    <2> QED
      BY <1>1, <2>1 DEF RunStart, Clean
  <1>2. CASE ~Clean(of)
    <2>1. PICK order \in SetToSeqs(Continuation(of)) :
                    /\ order \in Seq(Numbers)
                    /\ FlushRun(order, st, of) \in Results
                    /\ FlushRun(order, st, of).ok =>
                          r = FlushTail(FlushRun(order, st, of).st, FlushRun(order, st, of).of)
                    /\ ~FlushRun(order, st, of).ok => r = FlushRun(order, st, of)
      BY <1>2, FlushFhTyped
    <2> DEFINE w == FlushRun(order, st, of)
    <2>2. w.ok /\ r = FlushTail(w.st, w.of) /\ w.st \in Stores /\ w.of \in OpenFiles
      BY <2>1 DEF Results
    <2>3. Held(w.st, w.of, B, ids)
      BY <2>1, FlushRunHeld
    <2> HIDE DEF w
    <2> QED
      BY <2>2, <2>3, FlushTailHeld
  <1> QED
    BY <1>1, <1>2

-----------------------------------------------------------------------------
(* A file without a handle.                                                  *)

LEMMA Joined ==
    ASSUME NEW p \in Seq(Slots), NEW q \in Seq(Slots)
    PROVE  /\ p \o q \in Seq(Slots) /\ Members(p \o q) = Members(p) \union Members(q)
           /\ Distinct(p \o q) => /\ Distinct(p) /\ Distinct(q)
                                  /\ Members(p) \intersect Members(q) = {}
  <1> DEFINE m == Len(p)
             n == Len(q)
             c == p \o q
  <1>1. /\ m \in Nat /\ n \in Nat /\ c \in Seq(Slots) /\ Len(c) = m + n
        /\ \A i \in 1..m : c[i] = p[i]
        /\ \A i \in 1..n : c[m + i] = q[i]
    OBVIOUS
  <1> HIDE DEF m, n, c
  <1>2. \A i \in 1..(m + n) : i \in 1..m \/ \E j \in 1..n : i = m + j
    <2>1. ASSUME NEW i \in 1..(m + n), i \notin 1..m PROVE i - m \in 1..n /\ i = m + (i - m)
      BY <1>1, <2>1
    <2> QED
      BY <2>1
  <1>3. 1..m \subseteq 1..(m + n) /\ \A j \in 1..n : m + j \in 1..(m + n) /\ m + j \notin 1..m
    BY <1>1
  <1>4. Members(c) = Members(p) \union Members(q)
    <2>1. ASSUME NEW x \in Members(c) PROVE x \in Members(p) \union Members(q)
      <3>1. PICK i \in 1..(m + n) : x = c[i]
        BY <1>1, <2>1 DEF Members
      <3>2. CASE i \in 1..m
        BY <1>1, <3>1, <3>2 DEF Members, m
      <3>3. CASE \E j \in 1..n : i = m + j
        <4>1. PICK j \in 1..n : i = m + j
          BY <3>3
        <4>2. x = q[j]
          BY <1>1, <3>1, <4>1
        <4> QED
          BY <4>2 DEF Members, n
      <3> QED
        BY <1>2, <3>2, <3>3
    <2>2. Members(p) \subseteq Members(c)
      BY <1>1, <1>3 DEF Members, m
    <2>3. Members(q) \subseteq Members(c)
      BY <1>1, <1>3 DEF Members, n
    <2> QED
      BY <2>1, <2>2, <2>3
  <1>5. ASSUME Distinct(c)
        PROVE  Distinct(p) /\ Distinct(q) /\ Members(p) \intersect Members(q) = {}
    <2>1. \A i, j \in 1..(m + n) : c[i] = c[j] => i = j
      BY <1>1, <1>5 DEF Distinct
    <2>2. Distinct(p)
      BY <1>1, <1>3, <2>1 DEF Distinct, m
    <2>3. ASSUME NEW i \in 1..n, NEW j \in 1..n, q[i] = q[j] PROVE i = j
      <3>1. m + i = m + j
        BY <1>1, <1>3, <2>1, <2>3
      <3> QED
        BY <1>1, <3>1
    <2>4. Distinct(q)
      BY <2>3 DEF Distinct, n
    <2>5. ASSUME NEW x \in Members(p), x \in Members(q) PROVE FALSE
      <3>1. PICK i \in 1..m : x = p[i]
        BY <2>5 DEF Members, m
      <3>2. PICK j \in 1..n : x = q[j]
        BY <2>5 DEF Members, n
      <3>3. i = m + j
        BY <1>1, <1>3, <2>1, <3>1, <3>2
      <3> QED
        BY <1>3, <3>3
    <2> QED
      BY <2>2, <2>4, <2>5
  <1> QED
    BY <1>1, <1>4, <1>5 DEF c

LEMMA OwnerLess ==
    ASSUME NEW st, NEW O, Owner(st, O), NEW P \in SUBSET O, Lossless => P = O
    PROVE  Owner(st, P)
  BY DEF Owner

(* Where no chain is needed there is none. *)
LEMMA NoChain ==
    ASSUME NEW st \in Stores, NEW n, NEW B, NEW ids, Names(st, n, B, ids), FitsDirect
    PROVE  B = {} /\ ids = st.node[n].slots
  <1>1. PICK cids : Chained(st, st.node[n].chain, B, cids) /\ ids = st.node[n].slots \o cids
    BY DEF Names
  <1>2. st.node[n].chain = None
    BY DEF Names
  <1>3. B = {} /\ cids = <<>>
    BY <1>1, <1>2, ChainedNone
  <1>4. st.node[n].slots \in Seq(Slots)
    BY NamesIs
  <1> QED
    BY <1>1, <1>3, <1>4, Concatenations

(* Some of the direct slots and the chain of a head are given back. *)
Given(st, ids, chain) == ChainFreed(FreedAll(st, ids), chain)

LEMMA GivenOwner ==
    ASSUME NEW st \in Stores, NEW n, NEW B, NEW ids, Names(st, n, B, ids),
           NEW O, B \subseteq O, Owner(st, O),
           NEW part \in Seq(Slots), Distinct(part), Members(part) \subseteq Members(ids),
           Members(part) \subseteq O
    PROVE  /\ Given(st, part, st.node[n].chain) \in Stores
           /\ Owner(Given(st, part, st.node[n].chain), (O \ Members(part)) \ B)
           /\ SameNodes(Given(st, part, st.node[n].chain), st, (Slots \ Members(part)) \ B)
  <1> DEFINE first == st.node[n].chain
             st1 == FreedAll(st, part)
             O1 == O \ Members(part)
             st2 == ChainFreed(st1, first)
  <1>1. /\ first \in Link /\ B \subseteq Slots /\ B \intersect Members(ids) = {}
        /\ Chained(st, first, B, IndexChain(st, first).ids)
    BY NamesIs
  <1>2. st1 \in Stores /\ Owner(st1, O1) /\ SameNodes(st1, st, Slots \ Members(part))
    BY StoreTyped, OwnerFreedAll
  <1> HIDE DEF first, st1, O1
  <1>3. \A s \in B : st1.node[s] = st.node[s]
    BY <1>1, <1>2 DEF SameNodes
  <1>4. Chained(st1, first, B, IndexChain(st, first).ids)
    BY <1>1, <1>3, ChainedSame
  <1>5. B \subseteq O1
    BY <1>1 DEF O1
  <1>6. st2 \in Stores /\ Owner(st2, O1 \ B) /\ SameNodes(st2, st1, Slots \ B)
    BY <1>1, <1>2, <1>4, <1>5, ChainFreedOwner
  <1> HIDE DEF st2
  <1>7. SameNodes(st2, st, (Slots \ Members(part)) \ B)
    BY <1>2, <1>6 DEF SameNodes
  <1> QED
    BY <1>6, <1>7 DEF Given, first, st1, st2, O1

(* op_unlink. *)
LEMMA UnlinkedOwner ==
    ASSUME NEW st \in Stores, NEW n, NEW B, NEW ids, Names(st, n, B, ids),
           NEW O, ({n} \union B) \union Members(ids) \subseteq O, Owner(st, O),
           Lossless => O = ({n} \union B) \union Members(st.node[n].slots)
    PROVE  Owner(Freed(Given(st, st.node[n].slots, st.node[n].chain), n), {})
  <1> DEFINE slots == st.node[n].slots
             g == Given(st, slots, st.node[n].chain)
             cids == IndexChain(st, st.node[n].chain).ids
             O1 == (O \ Members(slots)) \ B
  <1>1. /\ n \in Slots /\ slots \in Seq(Slots) /\ cids \in Seq(Slots) /\ ids = slots \o cids
        /\ n \notin B /\ n \notin Members(ids)
    <2>1. ids = slots \o cids
      <3>1. Listed(st, n, ids)
        BY NamesIs
      <3> QED
        BY <3>1 DEF Listed
    <2>2. slots \in Seq(Slots) /\ cids \in Seq(Slots)
      BY NamesIs
    <2>3. n \in Slots /\ n \notin B /\ n \notin Members(ids)
      BY NamesIs
    <2> QED
      BY <2>1, <2>2, <2>3
  <1>2. Distinct(ids)
    BY DEF Names
  <1> HIDE DEF slots, cids
  <1>3. Members(ids) = Members(slots) \union Members(cids) /\ Distinct(slots)
    BY <1>1, <1>2, Joined
  <1>4. g \in Stores /\ Owner(g, O1)
    BY <1>1, <1>3, GivenOwner
  <1> HIDE DEF g
  <1>5. n \in O1
    BY <1>1, <1>3
  <1> HIDE DEF O1
  <1>6. Owner(Freed(g, n), O1 \ {n})
    BY <1>1, <1>4, <1>5, OwnerFreed
  <1>7. Lossless => O1 \ {n} = {}
    BY DEF O1, slots
  <1>8. Owner(Freed(g, n), {})
    BY <1>6, <1>7, OwnerLess
  <1> QED
    BY <1>8 DEF g, slots

(* setattr(size) with no handle open. *)
LEMMA CutRests ==
    ASSUME NEW st \in Stores, NEW n, NEW B, NEW ids, Rests(st, n, B, ids),
           NEW size \in 0..MaxSize, Lossless => FitsDirect, NEW new,
           new = Updated(Given(st, Beyond(st.node[n], size), st.node[n].chain), n,
                         CutHead(st.node[n], size))
    PROVE  LET low == SubSeq(st.node[n].slots, 1, KeptDirect(st.node[n], size))
           IN  /\ Rests(new, n, {}, low) /\ new.node[n] = CutHead(st.node[n], size)
               /\ \A s \in Members(low) : new.node[s] = st.node[s]
  <1> DEFINE fb == st.node[n]
             k == KeptDirect(fb, size)
             low == SubSeq(fb.slots, 1, k)
             high == Beyond(fb, size)
             g == Given(st, high, fb.chain)
             O == ({n} \union B) \union Members(ids)
             O1 == (O \ Members(high)) \ B
             cids == IndexChain(st, fb.chain).ids
             cut == CutHead(fb, size)
  <1>1. Names(st, n, B, ids) /\ Owner(st, O)
    BY DEF Rests
  <1>2. /\ n \in Slots /\ fb.slots \in Seq(Slots) /\ cids \in Seq(Slots) /\ ids = fb.slots \o cids
        /\ n \notin B /\ n \notin Members(ids) /\ B \intersect Members(ids) = {}
        /\ fb \in Nodes
    <2>1. ids = fb.slots \o cids
      <3>1. Listed(st, n, ids)
        BY <1>1, NamesIs
      <3> QED
        BY <3>1 DEF Listed
    <2>2. fb.slots \in Seq(Slots) /\ cids \in Seq(Slots) /\ fb \in Nodes
      BY <1>1, NamesIs
    <2>3. n \in Slots /\ n \notin B /\ n \notin Members(ids) /\ B \intersect Members(ids) = {}
      BY <1>1, NamesIs
    <2> QED
      BY <2>1, <2>2, <2>3
  <1>3. fb.kind = "file" /\ Distinct(ids) /\ DataIn(st, Members(ids))
    BY <1>1 DEF Names
  <1>4. size \in Nat
    BY Sizes
  <1>5. k \in 0..Len(fb.slots)
    BY <1>2, <1>4, KeptDirectIs
  <1>6. /\ low \in Seq(Slots) /\ high \in Seq(Slots) /\ fb.slots = low \o high
    BY <1>2, <1>5, Split DEF Beyond
  <1>7. cut.kind = "file" /\ cut.slots = low /\ cut.chain = None
    <2> DEFINE data == SubSeq(fb.data, 1, Min({Len(fb.data), size}))
    <2>1. cut = FileBlock(size, low, None, data)
      BY DEF CutHead
    <2> HIDE DEF cut, low, data
    <2> QED
      BY <2>1, BlockFields
  <1> HIDE DEF k, low, high, cids, cut
  <1>8. Members(ids) = Members(fb.slots) \union Members(cids) /\ Distinct(fb.slots)
        /\ Members(fb.slots) \intersect Members(cids) = {}
    BY <1>2, <1>3, Joined
  <1>9. Members(fb.slots) = Members(low) \union Members(high) /\ Distinct(low) /\ Distinct(high)
        /\ Members(low) \intersect Members(high) = {}
    BY <1>6, <1>8, Joined
  <1>10. Members(high) \subseteq Members(ids) /\ Members(high) \subseteq O /\ B \subseteq O
    BY <1>8, <1>9
  <1> HIDE DEF O
  <1>11. /\ g \in Stores /\ Owner(g, O1)
         /\ SameNodes(g, st, (Slots \ Members(high)) \ B)
    BY <1>1, <1>6, <1>9, <1>10, GivenOwner
  <1> HIDE DEF g, O1
  <1>12. new = Updated(g, n, cut)
    BY DEF g, high, cut
  <1>13. /\ Owner(new, O1) /\ new.node[n] = cut /\ SameNodes(new, g, Slots \ {n})
    BY <1>2, <1>11, <1>12, OwnerUpdated
  <1>14. \A s \in Members(low) : s \in Slots /\ new.node[s] = st.node[s]
    <2>1. \A s \in Members(low) : s \in Members(ids) /\ s \notin Members(high)
      BY <1>8, <1>9
    <2>2. \A s \in Members(low) : s \in Slots /\ s # n /\ s \notin B
      BY <1>2, <1>3, <2>1 DEF DataIn
    <2> QED
      BY <1>11, <1>13, <2>1, <2>2 DEF SameNodes
  <1>15. DataIn(new, Members(low))
    BY <1>3, <1>8, <1>9, <1>14 DEF DataIn
  <1>16. Chained(new, None, {}, <<>>) /\ low = low \o <<>>
    BY <1>6, ChainedNone, Concatenations
  <1>17. Names(new, n, {}, low)
    BY <1>2, <1>6, <1>7, <1>9, <1>13, <1>15, <1>16 DEF Names
  <1>18. ({n} \union {}) \union Members(low) \subseteq O1
    BY <1>2, <1>8, <1>9 DEF O1, O
  <1>19. ASSUME Lossless PROVE ({n} \union {}) \union Members(low) = O1
    <2>1. B = {} /\ ids = fb.slots
      BY <1>1, <1>19, NoChain
    <2>2. Members(ids) = Members(low) \union Members(high)
      BY <1>9, <2>1
    <2> QED
      BY <1>2, <1>9, <2>1, <2>2 DEF O1, O
  <1>20. Owner(new, ({n} \union {}) \union Members(low))
    BY <1>13, <1>18, <1>19, OwnerLess
  <1>21. Rests(new, n, {}, low)
    BY <1>17, <1>20 DEF Rests
  <1> QED
    BY <1>13, <1>14, <1>21 DEF k, low, cut

-----------------------------------------------------------------------------
(* NoSlotFreedTwice and NoSlotLeaked, for one handle at a time.              *)

OneHandle == \A g, h \in Handles : g = h

OneSlots(st, hd, fs) ==
    /\ hd = None => DOMAIN fs = {} /\ Owner(st, {})
    /\ hd # None /\ DOMAIN fs = {} => \E B, ids : Rests(st, hd, B, ids)
    /\ hd # None => \A h \in DOMAIN fs : fs[h].head = hd /\ \E B, ids : Held(st, fs[h], B, ids)

SlotsInv == ~failed => OneSlots(store, head, files)

(* What a step that leaves one handle must show. *)
LEMMA OneSlotsBy ==
    ASSUME OneHandle, NEW st, NEW hd \in Slots, NEW fs, DOMAIN fs \subseteq Handles,
           NEW h \in DOMAIN fs, fs[h].head = hd, NEW B, NEW ids, Held(st, fs[h], B, ids)
    PROVE  OneSlots(st, hd, fs)
  <1>1. hd # None /\ \A g \in DOMAIN fs : g = h
    BY SlotNumbers DEF OneHandle
  <1> QED
    BY <1>1 DEF OneSlots

LEMMA StartSlots == Init => SlotsInv
  <1> SUFFICES ASSUME Init PROVE SlotsInv
    OBVIOUS
  <1>1. \A s \in Slots : store.free[s] = 1
    BY DEF Init
  <1>2. Owner(store, {})
    BY <1>1 DEF Owner
  <1>3. head = None /\ DOMAIN files = {}
    BY DEF Init
  <1> QED
    BY <1>2, <1>3 DEF SlotsInv, OneSlots

LEMMA MappedNone == Mapped(<<None>>) = {} /\ Apart(<<None>>) /\ Members(<<>>) = {} /\ Distinct(<<>>)
  BY DEF Mapped, Apart, Members, Distinct

(* A file just created. *)
LEMMA CreatedHeld ==
    ASSUME NEW st \in Stores, Owner(st, {}), HasSpace(st)
    PROVE  Held(Written(st, EmptyHead), NewHandle(NextFree(st)), {}, <<>>)
  <1> DEFINE n == NextFree(st)
             new == Written(st, EmptyHead)
             of == NewHandle(n)
             O == {}
  <1>1. /\ n \in Slots /\ Owner(new, O \union {n}) /\ new.node[n] = EmptyHead
    BY OwnerWritten
  <1>2. EmptyHead.kind = "file" /\ EmptyHead.chain = None /\ EmptyHead.slots = <<>>
    BY BlockFields DEF EmptyHead
  <1>3. of.head = n /\ of.chain = None /\ of.map = <<None>> /\ of.metaDirty = FALSE
    BY DEF NewHandle
  <1> HIDE DEF n, new, of
  <1>4. Chained(new, None, {}, <<>>)
    BY ChainedNone
  <1>5. <<>> \in Seq(Slots) /\ <<>> \o <<>> = <<>>
    OBVIOUS
  <1>6. DataIn(new, {})
    BY DEF DataIn
  <1>7. Names(new, n, {}, <<>>)
    BY <1>1, <1>2, <1>4, <1>5, <1>6, MappedNone DEF Names
  <1>8. Owner(new, ({n} \union {}) \union {})
    BY <1>1
  <1>9. Held(new, of, {}, <<>>)
    BY <1>1, <1>2, <1>3, <1>6, <1>7, <1>8, MappedNone DEF Held
  <1> QED
    BY <1>9 DEF n, new, of

(* The map of a handle just opened. *)
LEMMA MapOfIds ==
    ASSUME NEW ids \in Seq(Slots), NEW map \in Seq(Link), map = <<None>> \o ids
    PROVE  Mapped(map) = Members(ids) /\ (Distinct(ids) => Apart(map))
  <1> DEFINE n == Len(ids)
  <1>1. /\ n \in Nat /\ Len(map) = n + 1 /\ map[1] = None
        /\ \A i \in 1..n : map[i + 1] = ids[i] /\ ids[i] \in Slots
    OBVIOUS
  <1> HIDE DEF n
  <1>2. \A i \in 1..(n + 1) : i = 1 \/ \E j \in 1..n : i = j + 1
    <2>1. ASSUME NEW i \in 1..(n + 1), i # 1 PROVE i - 1 \in 1..n /\ i = (i - 1) + 1
      BY <1>1, <2>1
    <2> QED
      BY <2>1
  <1>3. None \notin Slots
    BY SlotNumbers
  <1>4. \A j \in 1..n : j + 1 \in 1..(n + 1) /\ map[j + 1] # None
    BY <1>1, <1>3
  <1>5. ASSUME NEW x \in Mapped(map) PROVE x \in Members(ids)
    <2>1. PICK i \in 1..(n + 1) : x = map[i] /\ x # None
      BY <1>1, <1>5 DEF Mapped
    <2>2. PICK j \in 1..n : i = j + 1
      BY <1>1, <1>2, <2>1
    <2>3. x = ids[j]
      BY <1>1, <2>1, <2>2
    <2> QED
      BY <2>3 DEF Members, n
  <1>6. ASSUME NEW x \in Members(ids) PROVE x \in Mapped(map)
    <2>1. PICK j \in 1..n : x = ids[j]
      BY <1>6 DEF Members, n
    <2>2. x = map[j + 1] /\ x # None /\ j + 1 \in 1..Len(map)
      BY <1>1, <1>4, <2>1
    <2> QED
      BY <2>2 DEF Mapped
  <1>7. ASSUME Distinct(ids), NEW i \in 1..(n + 1), NEW j \in 1..(n + 1),
               map[i] # None, map[i] = map[j]
        PROVE  i = j
    <2>1. PICK k \in 1..n : i = k + 1
      BY <1>1, <1>2, <1>7
    <2>2. PICK l \in 1..n : j = l + 1
      BY <1>1, <1>2, <1>7
    <2>3. ids[k] = ids[l]
      BY <1>1, <1>7, <2>1, <2>2
    <2>4. k = l
      BY <1>7, <2>3 DEF Distinct, n
    <2> QED
      BY <2>1, <2>2, <2>4
  <1>8. Distinct(ids) => Apart(map)
    BY <1>1, <1>7 DEF Apart
  <1> QED
    BY <1>5, <1>6, <1>8

LEMMA OpenedHeld ==
    ASSUME NEW st \in Stores, head \in Slots, NEW B, NEW ids, Rests(st, head, B, ids), Opened(st).ok
    PROVE  Held(st, Opened(st).of, B, ids) /\ Opened(st).of.head = head
  <1> DEFINE of == Opened(st).of
             fb == st.node[head]
             cids == IndexChain(st, fb.chain).ids
  <1>1. Names(st, head, B, ids) /\ Owner(st, ({head} \union B) \union Members(ids))
    BY DEF Rests
  <1>2. ids \in Seq(Slots) /\ Distinct(ids) /\ DataIn(st, Members(ids))
    BY <1>1 DEF Names
  <1>3. fb.slots \in Seq(Slots) /\ cids \in Seq(Slots)
    BY <1>1, NamesIs
  <1>4. Listed(st, head, ids)
    BY <1>1, NamesIs
  <1>5. /\ of \in OpenFiles /\ of.head = head /\ of.chain = fb.chain /\ ~of.metaDirty
    BY OpenedIs
  <1>6. of.map = <<None>> \o fb.slots \o cids
    BY OpenedIs, Zenon
  <1>7. ids = fb.slots \o cids
    BY <1>4 DEF Listed
  <1> HIDE DEF of, cids
  <1> DEFINE p == <<None>>
             q == fb.slots
  <1>8. p \in Seq(Link) /\ q \in Seq(Link) /\ cids \in Seq(Link)
    BY <1>3 DEF Link
  <1>9. of.map = (p \o q) \o cids
    BY <1>6
  <1> HIDE DEF p, q
  <1>10. (p \o q) \o cids = p \o (q \o cids)
    BY <1>8, Concatenations
  <1>11. of.map = <<None>> \o ids
    BY <1>7, <1>9, <1>10 DEF p, q
  <1>12. of.map \in Seq(Link)
    BY <1>5, Fields
  <1>13. Mapped(of.map) = Members(ids) /\ Apart(of.map)
    BY <1>2, <1>11, <1>12, MapOfIds
  <1>14. Held(st, of, B, ids)
    BY <1>1, <1>2, <1>5, <1>13 DEF Held
  <1> QED
    BY <1>5, <1>14 DEF of

(* With one handle a flush of all is the flush of one. *)
LEMMA FlushAllOne ==
    ASSUME OneHandle, Typed, NEW r \in FlushAll(store)
    PROVE  \/ DOMAIN files = {} /\ r = [ok |-> TRUE, st |-> store]
           \/ \E h \in DOMAIN files : \E f \in FlushFh(store, files[h]) :
                 r = [ok |-> f.ok, st |-> f.st] /\ f \in Results
  <1>1. IsFiniteSet(DOMAIN files) /\ store \in Stores /\ DOMAIN files \subseteq Handles
        /\ \A h \in DOMAIN files : files[h] \in OpenFiles
    BY StateTyped
  <1>2. PICK order \in SetToSeqs(DOMAIN files) : r \in FlushAllRun(order, store)
    BY FlushAllOrders
  <1>3. /\ order \in Seq(DOMAIN files) /\ Len(order) = Cardinality(DOMAIN files)
        /\ \A i, j \in 1..Len(order) : order[i] = order[j] => i = j
        /\ \A x \in DOMAIN files : \E i \in 1..Len(order) : order[i] = x
    <2> DEFINE D == DOMAIN files
    <2>1. IsFiniteSet(D) /\ order \in SetToSeqs(D)
      BY <1>1, <1>2
    <2> HIDE DEF D
    <2>2. /\ order \in Seq(D) /\ Len(order) = Cardinality(D)
          /\ \A i, j \in 1..Len(order) : order[i] = order[j] => i = j
          /\ \A x \in D : \E i \in 1..Len(order) : order[i] = x
      BY <2>1, OrderIs
    <2> QED
      BY <2>2 DEF D
  <1> DEFINE n == Len(order)
  <1>4. PICK f \in [0..n -> SUBSET Flushed] :
              /\ f[0] = {[ok |-> TRUE, st |-> store]}
              /\ \A i \in 1..n : f[i] = FlushEach(order, i, f[i - 1])
              /\ FlushAllRun(order, store) = f[n]
    BY <1>1, <1>3, FlushedAll
  <1>5. n \in Nat /\ \A i \in 1..n : order[i] \in DOMAIN files
    BY <1>3
  <1> HIDE DEF n
  <1>6. n = 0 \/ n = 1
    <2>1. ASSUME n >= 2 PROVE FALSE
      <3>1. 1 \in 1..n /\ 2 \in 1..n
        BY <1>5, <2>1
      <3>2. order[1] \in Handles /\ order[2] \in Handles
        BY <1>1, <1>5, <3>1
      <3>3. order[1] = order[2]
        BY <3>2 DEF OneHandle
      <3> QED
        BY <1>3, <3>1, <3>3 DEF n
    <2> QED
      BY <1>5, <2>1
  <1>7. CASE n = 0
    <2>1. r = [ok |-> TRUE, st |-> store]
      BY <1>2, <1>4, <1>7
    <2>2. DOMAIN files = {}
      <3>1. 1..n = {}
        BY <1>7
      <3> QED
        BY <1>3, <3>1 DEF n
    <2> QED
      BY <2>1, <2>2
  <1>8. CASE n = 1
    <2>1. 1 \in 1..n /\ order[1] \in DOMAIN files /\ f[1] = FlushEach(order, 1, f[0])
      BY <1>4, <1>5, <1>8
    <2>2. r \in FlushEach(order, 1, {[ok |-> TRUE, st |-> store]})
      BY <1>2, <1>4, <1>8, <2>1
    <2>3. PICK g \in FlushFh(store, files[order[1]]) : r = [ok |-> TRUE /\ g.ok, st |-> g.st]
      BY <2>2 DEF FlushEach
    <2>4. g \in Results /\ g.ok \in BOOLEAN
      BY <1>1, <2>1, <2>3, FlushFhTyped DEF Results
    <2>5. r = [ok |-> g.ok, st |-> g.st]
      BY <2>3, <2>4
    <2> QED
      BY <2>1, <2>3, <2>4, <2>5
  <1> QED
    BY <1>6, <1>7, <1>8

LEMMA MountedIs ==
    ASSUME NEW st \in Stores
    PROVE  /\ Mounted(st).node = st.node
           /\ \A O : Owner(st, O) => Owner(Mounted(st), O)
  <1>1. Mounted(st).node = st.node /\ Mounted(st).free = [s \in Slots |-> Min({st.free[s], 1})]
    BY DEF Mounted, Stores
  <1>2. ASSUME NEW s \in Slots, st.free[s] <= 1 PROVE Mounted(st).free[s] = st.free[s]
    <2>1. st.free[s] \in Nat
      BY StoreFields
    <2>2. Min({st.free[s], 1}) = IF st.free[s] <= 1 THEN st.free[s] ELSE 1
      BY <2>1, MinOfTwo
    <2> QED
      BY <1>1, <1>2, <2>2
  <1>3. ASSUME NEW O, Owner(st, O) PROVE Owner(Mounted(st), O)
    BY <1>2, <1>3 DEF Owner
  <1> QED
    BY <1>1, <1>3

LEMMA RestsMounted ==
    ASSUME NEW st \in Stores, NEW n, NEW B, NEW ids, Rests(st, n, B, ids)
    PROVE  Rests(Mounted(st), n, B, ids)
  <1>1. Names(st, n, B, ids) /\ Owner(st, ({n} \union B) \union Members(ids))
    BY DEF Rests
  <1>2. Mounted(st).node = st.node /\ Owner(Mounted(st), ({n} \union B) \union Members(ids))
    BY <1>1, MountedIs
  <1>3. DataIn(st, Members(ids))
    BY <1>1 DEF Names
  <1>4. SameNodes(Mounted(st), st, {n} \union B) /\ DataIn(Mounted(st), Members(ids))
    BY <1>2, <1>3 DEF SameNodes, DataIn
  <1> QED
    BY <1>1, <1>2, <1>4, NamesSame DEF Rests

(* A head whose end moves away. *)
LEMMA ExtendedRests ==
    ASSUME NEW st \in Stores, NEW n, NEW B, NEW ids, Rests(st, n, B, ids), NEW size
    PROVE  Rests(Updated(st, n, [st.node[n] EXCEPT !.total = size]), n, B, ids)
  <1> DEFINE fb == st.node[n]
             node == [fb EXCEPT !.total = size]
             new == Updated(st, n, node)
             O == ({n} \union B) \union Members(ids)
  <1>1. Names(st, n, B, ids) /\ Owner(st, O)
    BY DEF Rests
  <1>2. n \in Slots /\ fb \in Nodes /\ n \notin B /\ n \notin Members(ids) /\ B \subseteq Slots
    BY <1>1, NamesIs
  <1>3. fb.kind = "file" /\ DataIn(st, Members(ids))
    BY <1>1 DEF Names
  <1>4. fb \in [kind: {"file"}, total: 0..MaxSize, slots: {q \in Seq(Slots) : Len(q) <= MaxDirect},
                chain: Link, data: Chunk]
    BY <1>2, <1>3 DEF Nodes, Noise
  <1>5. node.kind = "file" /\ node.slots = fb.slots /\ node.chain = fb.chain
    BY <1>4
  <1> HIDE DEF node, O
  <1>6. /\ Owner(new, O) /\ new.node[n] = node /\ SameNodes(new, st, Slots \ {n})
    BY <1>1, <1>2, OwnerUpdated
  <1> HIDE DEF new
  <1>7. PICK cids : Chained(st, fb.chain, B, cids) /\ ids = fb.slots \o cids
    BY <1>1 DEF Names
  <1>8. \A s \in B : new.node[s] = st.node[s]
    BY <1>2, <1>6 DEF SameNodes
  <1>9. Chained(new, fb.chain, B, cids)
    BY <1>7, <1>8, ChainedSame
  <1>10. DataIn(new, Members(ids))
    BY <1>2, <1>3, <1>6 DEF DataIn, SameNodes
  <1>11. Names(new, n, B, ids)
    BY <1>1, <1>5, <1>6, <1>7, <1>9, <1>10 DEF Names
  <1> QED
    BY <1>6, <1>11 DEF Rests, O, new, node

(* Neither a write nor setattr(size) gives a handle another head. *)
LEMMA WriteChunksHead ==
    ASSUME NEW st \in Stores, NEW of \in OpenFiles, NEW from \in 0..MaxSize,
           NEW to \in 0..MaxSize, from < to, NEW tag \in Byte,
           NEW r \in WriteChunks(st, of, from, to, tag)
    PROVE  r.of.head = of.head
  <1> DEFINE n == Chunks(to) - from \div ChunkSize
             P == {p \in Nat \X Reached : p[2].of.head = of.head}
  <1>1. <<0, [ok |-> TRUE, of |-> of]>> \in P
    BY DEF Reached
  <1>2. ASSUME NEW i \in 1..n, NEW q \in Reached, <<i - 1, q>> \in P,
               q.of \in OpenFiles, from \div ChunkSize + i - 1 \in 0..MaxSize
        PROVE  /\ ~q.ok => <<i, q>> \in P
               /\ q.ok => \A r2 \in WriteChunk(st, q.of, from \div ChunkSize + i - 1, from, to, tag) :
                             <<i, r2>> \in P
    <2>1. q.of.head = of.head /\ i \in Nat
      BY <1>2
    <2>2. ASSUME q.ok, NEW r2 \in WriteChunk(st, q.of, from \div ChunkSize + i - 1, from, to, tag)
          PROVE  r2 \in Reached /\ r2.of.head = of.head
      BY <1>2, <2>1, <2>2, WriteChunkKeeps
    <2> QED
      BY <2>1, <2>2
  <1> HIDE DEF P
  <1>3. <<n, r>> \in P
    BY <1>1, <1>2, WriteChunksInduction
  <1> QED
    BY <1>3 DEF P

LEMMA WriteRequestHead ==
    ASSUME NEW st \in Stores, NEW of \in OpenFiles, NEW from \in 0..MaxSize,
           NEW to \in 0..MaxSize, from < to, NEW tag \in Byte,
           NEW B, NEW ids, Held(st, of, B, ids),
           NEW r \in WriteRequest(st, of, from, to, tag), r.ok
    PROVE  r.of.head = of.head
  <1>1. PICK w \in WriteChunks(st, of, from, to, tag) :
              /\ w.ok /\ w \in Reached /\ w.of \in OpenFiles
              /\ \/ r = RunStart(st, w.of)
                 \/ \E order \in SetToSeqs(Continuation(w.of)) : \E k \in Nat :
                       /\ order \in Seq(Numbers) /\ k \in 0..Len(order)
                       /\ r = SpillRun(order, st, w.of, k)
    BY WriteRequestIs
  <1>2. w.of.head = of.head
    BY <1>1, WriteChunksHead
  <1>3. CASE r = RunStart(st, w.of)
    BY <1>2, <1>3 DEF RunStart
  <1>4. ASSUME NEW order \in SetToSeqs(Continuation(w.of)), NEW k \in Nat,
               order \in Seq(Numbers), k \in 0..Len(order), r = SpillRun(order, st, w.of, k)
        PROVE  r.of.head = of.head
    BY <1>1, <1>2, <1>4, SpillKeeps
  <1> QED
    BY <1>1, <1>3, <1>4

LEMMA ResizedSlots ==
    ASSUME NEW of \in OpenFiles, NEW size \in 0..MaxSize
    PROVE  /\ Resized(of, size).head = of.head /\ Resized(of, size).chain = of.chain
           /\ Resized(of, size).map = of.map
           /\ ~Resized(of, size).metaDirty => ~of.metaDirty
  <1>1. size \in Nat /\ of.total \in Nat
    BY Fields, Sizes
  <1>2. CASE size = of.total
    BY <1>2, ResizedIs
  <1>3. CASE size > of.total
    <2>1. Resized(of, size) = [of EXCEPT !.total = size, !.metaDirty = TRUE]
      BY <1>3, ResizedIs
    <2> QED
      BY <2>1 DEF OpenFiles
  <1>4. CASE size < of.total
    <2> DEFINE dirty == {ci \in of.dirty : ci <= LastChunk(size)}
                        \union (IF size > 0 THEN {LastChunk(size)} ELSE {})
               cache == CutCache(of.cache, size)
    <2>1. Resized(of, size) = [of EXCEPT !.total = size, !.metaDirty = TRUE,
                                         !.dirty = dirty, !.cache = cache]
      BY <1>4, ResizedIs
    <2> HIDE DEF dirty, cache
    <2> QED
      BY <2>1 DEF OpenFiles
  <1> QED
    BY <1>1, <1>2, <1>3, <1>4

LEMMA UnlinkedSlots ==
    ASSUME OneHandle, Typed, Unlink, OneSlots(store, head, files)
    PROVE  Owner(store', {})
  <1>1. /\ head \in Slots /\ store' = Unlinked(store, head) /\ store \in Stores
        /\ DOMAIN files = {} => "unlink" \in Requests
        /\ DOMAIN files # {} => "unlink open" \in Requests
        /\ head # None
    BY StateTyped, UnlinkIs, SlotNumbers
  <1>2. ASSUME NEW B, NEW ids, Names(store, head, B, ids)
        PROVE  store' = Freed(Given(store, store.node[head].slots, store.node[head].chain), head)
    <2>1. store.node[head].kind = "file"
      BY <1>2 DEF Names
    <2> QED
      BY <1>1, <2>1 DEF Unlinked, Given
  <1>3. CASE DOMAIN files = {}
    <2>1. PICK B, ids : Rests(store, head, B, ids)
      BY <1>1, <1>3 DEF OneSlots
    <2> DEFINE O == ({head} \union B) \union Members(ids)
    <2>2. Names(store, head, B, ids) /\ Owner(store, O)
      BY <2>1 DEF Rests
    <2>3. Lossless => O = ({head} \union B) \union Members(store.node[head].slots)
      <3>1. Lossless => FitsDirect
        BY <1>1, <1>3 DEF Lossless
      <3> QED
        BY <1>1, <2>2, <3>1, NoChain
    <2>4. ({head} \union B) \union Members(ids) \subseteq O
      OBVIOUS
    <2> HIDE DEF O
    <2> QED
      BY <1>1, <1>2, <2>2, <2>3, <2>4, UnlinkedOwner
  <1>4. CASE DOMAIN files # {}
    <2>1. PICK h \in DOMAIN files : TRUE
      BY <1>4
    <2>2. files[h].head = head
      BY <1>1, <2>1 DEF OneSlots
    <2>3. PICK B, ids : Held(store, files[h], B, ids)
      BY <1>1, <2>1 DEF OneSlots
    <2> DEFINE O == ({head} \union B) \union Mapped(files[h].map)
    <2>4. Names(store, head, B, ids) /\ Owner(store, O) /\ Members(ids) \subseteq Mapped(files[h].map)
      BY <2>2, <2>3 DEF Held
    <2>5. ({head} \union B) \union Members(ids) \subseteq O
      BY <2>4
    <2>6. ~Lossless
      BY <1>1, <1>4 DEF Lossless
    <2> HIDE DEF O
    <2> QED
      BY <1>1, <1>2, <2>4, <2>5, <2>6, UnlinkedOwner
  <1> QED
    BY <1>3, <1>4

LEMMA SetSizeOnDiskSlots ==
    ASSUME Typed, SetSizeOnDisk, OneSlots(store, head, files)
    PROVE  \E B, ids : Rests(store', head, B, ids)
  <1>1. PICK size \in SizesAsked : content' = SizeOf(content, size) /\ store' = ResizedOnDisk(store, size)
    BY SetSizeOnDiskIs
  <1>2. /\ DOMAIN files = {} /\ head \in Slots /\ "closed size" \in Requests /\ store \in Stores
        /\ store.node[head].kind = "file" /\ head # None
    BY StateTyped, SetSizeOnDiskIs, SlotNumbers
  <1>3. size \in 0..MaxSize /\ size \in Nat
    BY <1>1, SizesAskedIs
  <1>4. PICK B, ids : Rests(store, head, B, ids)
    BY <1>2 DEF OneSlots
  <1>5. store.node[head].total \in Nat
    <2> DEFINE node == store.node[head]
    <2>1. node \in Nodes /\ node.kind = "file"
      BY <1>2, StoreFields
    <2> HIDE DEF node
    <2>2. node.total \in 0..MaxSize
      BY <2>1, NodeFields
    <2> QED
      BY <2>2, Sizes DEF node
  <1>6. CASE size < store.node[head].total
    <2>1. store' = Updated(Given(store, Beyond(store.node[head], size), store.node[head].chain),
                           head, CutHead(store.node[head], size))
      BY <1>1, <1>2, <1>3, <1>6, ResizedOnDiskIs DEF Given
    <2>2. Lossless => FitsDirect
      BY <1>2 DEF Lossless
    <2> DEFINE low == SubSeq(store.node[head].slots, 1, KeptDirect(store.node[head], size))
    <2>3. Rests(store', head, {}, low)
      BY <1>2, <1>3, <1>4, <2>1, <2>2, CutRests
    <2> QED
      BY <2>3
  <1>7. CASE ~(size < store.node[head].total)
    <2>1. size >= store.node[head].total
      BY <1>3, <1>5, <1>7
    <2>2. store' = Updated(store, head, [store.node[head] EXCEPT !.total = size])
      BY <1>1, <1>2, <1>3, <2>1, ResizedOnDiskIs
    <2> QED
      BY <1>2, <1>4, <2>2, ExtendedRests
  <1> QED
    BY <1>6, <1>7

LEMMA RemountSlots ==
    ASSUME OneHandle, Typed, NEW r \in FlushAll(store), r.ok, OneSlots(store, head, files)
    PROVE  OneSlots(Mounted(r.st), head, <<>>)
  <1>1. store \in Stores /\ \A h \in DOMAIN files : files[h] \in OpenFiles
    BY StateTyped
  <1>2. DOMAIN <<>> = {}
    OBVIOUS
  <1>3. CASE DOMAIN files = {} /\ r = [ok |-> TRUE, st |-> store]
    <2>1. head = None => Owner(Mounted(r.st), {})
      BY <1>1, <1>3, MountedIs DEF OneSlots
    <2>2. ASSUME head # None PROVE \E B, ids : Rests(Mounted(r.st), head, B, ids)
      <3>1. PICK B, ids : Rests(store, head, B, ids)
        BY <1>3, <2>2 DEF OneSlots
      <3> QED
        BY <1>1, <1>3, <3>1, RestsMounted
    <2> QED
      BY <1>2, <2>1, <2>2 DEF OneSlots
  <1>4. ASSUME NEW h \in DOMAIN files, NEW f \in FlushFh(store, files[h]),
               r = [ok |-> f.ok, st |-> f.st], f \in Results
        PROVE  OneSlots(Mounted(r.st), head, <<>>)
    <2>1. head # None /\ files[h].head = head
      BY <1>4 DEF OneSlots
    <2>2. PICK B, ids : Held(store, files[h], B, ids)
      BY <1>4, <2>1 DEF OneSlots
    <2>3. f.ok /\ r.st = f.st
      BY <1>4
    <2>4. (\E B2, ids2 : Held(f.st, f.of, B2, ids2)) /\ ~f.of.metaDirty
      BY <1>1, <1>4, <2>2, <2>3, FlushFhHeld
    <2>5. PICK B2, ids2 : Held(f.st, f.of, B2, ids2)
      BY <2>4
    <2>6. f.of.head = head
      BY <1>1, <1>4, <2>1, <2>3, FlushFhKeeps
    <2>7. Rests(f.st, head, B2, ids2)
      BY <2>4, <2>5, <2>6, HeldRests
    <2>8. f.st \in Stores
      BY <1>4 DEF Results
    <2>9. Rests(Mounted(f.st), head, B2, ids2)
      BY <2>7, <2>8, RestsMounted
    <2> QED
      BY <1>2, <2>1, <2>3, <2>9 DEF OneSlots
  <1> QED
    BY <1>3, <1>4, FlushAllOne

LEMMA SlotsStep ==
    ASSUME OneHandle, Typed, Typed', SlotsInv, [Next]_vars
    PROVE  SlotsInv'
  <1> SUFFICES ASSUME ~failed' PROVE OneSlots(store', head', files')
    BY DEF SlotsInv
  <1>1. /\ store \in Stores /\ head \in Link /\ DOMAIN files \subseteq Handles
        /\ \A h \in DOMAIN files : files[h] \in OpenFiles
        /\ held \subseteq DOMAIN files
    BY StateTyped
  <1>2. ~failed => OneSlots(store, head, files)
    BY DEF SlotsInv
  <1>3. ASSUME NEW h \in DOMAIN files, OneSlots(store, head, files)
        PROVE  /\ head # None /\ head \in Slots /\ files[h].head = head /\ h \in Handles
               /\ \E B, ids : Held(store, files[h], B, ids)
    BY <1>1, <1>3 DEF OneSlots, Link
  <1>4. ASSUME NEW h, NEW of, Changed(h, of), head' = head, head \in Slots, of.head = head,
               NEW B, NEW ids, Held(store', of, B, ids)
        PROVE  OneSlots(store', head', files')
    <2>1. h \in DOMAIN files' /\ files'[h] = of /\ DOMAIN files' \subseteq Handles
      BY <1>1, <1>4 DEF Changed
    <2> QED
      BY <1>4, <2>1, OneSlotsBy
  <1>5. ASSUME NEW h, NEW of, Added(h, of), DOMAIN files = {}, head' \in Slots, of.head = head',
               NEW B, NEW ids, Held(store', of, B, ids)
        PROVE  OneSlots(store', head', files')
    <2>1. h \in DOMAIN files' /\ files'[h] = of /\ DOMAIN files' \subseteq Handles
      BY <1>5 DEF Added
    <2> QED
      BY <1>5, <2>1, OneSlotsBy
  <1>6. CASE Create
    <2>1. /\ head = None /\ HasSpace(store) /\ head' = NextFree(store) /\ head' \in Slots
          /\ store' = Written(store, EmptyHead) /\ failed' = failed
      BY <1>6, CreateIs
    <2>2. PICK h \in Handles : Added(h, NewHandle(head'))
      BY <1>6, CreateIs
    <2>3. DOMAIN files = {} /\ Owner(store, {})
      BY <1>2, <2>1 DEF OneSlots
    <2>4. Held(store', NewHandle(head'), {}, <<>>)
      BY <1>1, <2>1, <2>3, CreatedHeld
    <2>5. NewHandle(head').head = head'
      BY DEF NewHandle
    <2> QED
      BY <1>5, <2>1, <2>2, <2>3, <2>4, <2>5
  <1>7. CASE Open
    <2>1. /\ head \in Slots /\ Opened(store).ok /\ UNCHANGED <<store, head, content, failed>>
          /\ head # None
      BY <1>7, OpenIs, SlotNumbers
    <2>2. PICK h \in Handles : Added(h, Opened(store).of)
      BY <1>7, OpenIs
    <2>3. DOMAIN files = {}
      BY <1>1, <2>2 DEF Added, OneHandle
    <2>4. PICK B, ids : Rests(store, head, B, ids)
      BY <1>2, <2>1, <2>3 DEF OneSlots
    <2>5. Held(store, Opened(store).of, B, ids) /\ Opened(store).of.head = head
      BY <1>1, <2>1, <2>4, OpenedHeld
    <2> QED
      BY <1>5, <2>1, <2>2, <2>3, <2>5
  <1>8. CASE Read
    <2>1. UNCHANGED <<store, head, failed>>
      BY <1>8, ReadIs
    <2>2. PICK h \in held, ci \in 0..MaxSize : \E r \in EnsureCached(store, files[h], ci) :
             r \in Reached /\ Changed(h, r.of)
      BY <1>8, ReadIs
    <2>3. PICK r \in EnsureCached(store, files[h], ci) : r \in Reached /\ Changed(h, r.of)
      BY <2>2
    <2>4. h \in DOMAIN files /\ files[h] \in OpenFiles /\ head \in Slots /\ files[h].head = head
      BY <1>1, <1>2, <1>3, <2>1
    <2>5. PICK B, ids : Held(store, files[h], B, ids)
      BY <1>2, <1>3, <2>1, <2>4
    <2>6. SameButCache(r.of, files[h])
      BY <1>1, <2>4, EnsureCachedKeeps
    <2>7. Held(store, r.of, B, ids)
      BY <1>1, <2>5, <2>6, HeldSame DEF SameButCache
    <2>8. r.of.head = head
      BY <2>4, <2>6 DEF SameButCache
    <2> QED
      BY <1>4, <2>1, <2>3, <2>4, <2>7, <2>8
  <1>9. CASE Write
    <2>1. PICK h \in held, from \in 0..MaxSize, to \in 0..MaxSize :
                 /\ from < to
                 /\ \E r \in WriteRequest(store, files[h], from, to, writes') :
                       /\ r \in Results /\ Changed(h, r.of)
                       /\ store' = r.st /\ failed' = (failed \/ ~r.ok)
      BY <1>9, WriteIs
    <2>2. PICK r \in WriteRequest(store, files[h], from, to, writes') :
                       /\ r \in Results /\ Changed(h, r.of)
                       /\ store' = r.st /\ failed' = (failed \/ ~r.ok)
      BY <2>1
    <2>3. writes' \in Byte /\ head' = head
      BY <1>9, WriteIs
    <2>4. ~failed /\ r.ok
      BY <2>2
    <2>5. h \in DOMAIN files /\ files[h] \in OpenFiles /\ head \in Slots /\ files[h].head = head
      BY <1>1, <1>2, <1>3, <2>4
    <2>6. PICK B, ids : Held(store, files[h], B, ids)
      BY <1>2, <1>3, <2>4, <2>5
    <2>7. Held(r.st, r.of, B, ids)
      BY <1>1, <2>1, <2>3, <2>4, <2>5, <2>6, WriteRequestHeld
    <2>8. r.of.head = head
      BY <1>1, <2>1, <2>3, <2>4, <2>5, <2>6, WriteRequestHead
    <2> QED
      BY <1>4, <2>2, <2>3, <2>5, <2>7, <2>8
  <1>10. CASE SetSize
    <2>1. PICK h \in DOMAIN files, size \in SizesAsked :
             content' = SizeOf(content, size) /\ Changed(h, Resized(files[h], size))
      BY <1>10, SetSizeIs
    <2>2. UNCHANGED <<store, head, failed>>
      BY <1>10, SetSizeIs
    <2>3. files[h] \in OpenFiles /\ head \in Slots /\ files[h].head = head
      BY <1>1, <1>2, <1>3, <2>1, <2>2
    <2>4. PICK B, ids : Held(store, files[h], B, ids)
      BY <1>2, <1>3, <2>2
    <2>5. size \in 0..MaxSize
      BY SizesAskedIs
    <2> DEFINE new == Resized(files[h], size)
    <2>6. /\ new.head = files[h].head /\ new.chain = files[h].chain /\ new.map = files[h].map
          /\ ~new.metaDirty => ~files[h].metaDirty
      BY <2>3, <2>5, ResizedSlots
    <2> HIDE DEF new
    <2>7. Held(store, new, B, ids)
      BY <1>1, <2>4, <2>6, HeldSame
    <2> QED
      BY <1>4, <2>1, <2>2, <2>3, <2>6, <2>7 DEF new
  <1>11. CASE SetSizeOnDisk
    <2>1. UNCHANGED <<head, files, failed>> /\ DOMAIN files = {} /\ head \in Slots /\ head # None
      BY <1>11, SetSizeOnDiskIs, SlotNumbers
    <2>2. \E B, ids : Rests(store', head, B, ids)
      BY <1>2, <1>11, <2>1, SetSizeOnDiskSlots
    <2> QED
      BY <2>1, <2>2 DEF OneSlots
  <1>12. CASE Flush
    <2>1. PICK h \in held : \E r \in FlushFh(store, files[h]) :
             r \in Results /\ Changed(h, r.of) /\ store' = r.st /\ failed' = (failed \/ ~r.ok)
      BY <1>12, FlushIs
    <2>2. PICK r \in FlushFh(store, files[h]) :
             r \in Results /\ Changed(h, r.of) /\ store' = r.st /\ failed' = (failed \/ ~r.ok)
      BY <2>1
    <2>3. head' = head /\ ~failed /\ r.ok
      BY <1>12, <2>2, FlushIs
    <2>4. h \in DOMAIN files /\ files[h] \in OpenFiles /\ head \in Slots /\ files[h].head = head
      BY <1>1, <1>2, <1>3, <2>3
    <2>5. PICK B, ids : Held(store, files[h], B, ids)
      BY <1>2, <1>3, <2>3, <2>4
    <2>6. \E B2, ids2 : Held(r.st, r.of, B2, ids2)
      BY <1>1, <2>3, <2>4, <2>5, FlushFhHeld
    <2>7. PICK B2, ids2 : Held(r.st, r.of, B2, ids2)
      BY <2>6
    <2>8. r.of.head = head
      BY <1>1, <2>3, <2>4, FlushFhKeeps
    <2> QED
      BY <1>4, <2>2, <2>3, <2>4, <2>7, <2>8
  <1>13. CASE Release
    <2>1. PICK h \in held : \E r \in FlushFh(store, files[h]) :
                 /\ store' = r.st /\ failed' = (failed \/ ~r.ok)
                 /\ r.ok => DOMAIN files' = DOMAIN files \ {h}
      BY <1>13, ReleaseIs
    <2>2. PICK r \in FlushFh(store, files[h]) :
                 /\ store' = r.st /\ failed' = (failed \/ ~r.ok)
                 /\ r.ok => DOMAIN files' = DOMAIN files \ {h}
      BY <2>1
    <2>3. head' = head /\ ~failed /\ r.ok
      BY <1>13, <2>2, ReleaseIs
    <2>4. h \in DOMAIN files /\ files[h] \in OpenFiles /\ head \in Slots /\ files[h].head = head
          /\ head # None
      BY <1>1, <1>2, <1>3, <2>3
    <2>5. PICK B, ids : Held(store, files[h], B, ids)
      BY <1>2, <1>3, <2>3, <2>4
    <2>6. (\E B2, ids2 : Held(r.st, r.of, B2, ids2)) /\ ~r.of.metaDirty
      BY <1>1, <2>3, <2>4, <2>5, FlushFhHeld
    <2>7. PICK B2, ids2 : Held(r.st, r.of, B2, ids2)
      BY <2>6
    <2>8. r.of.head = head
      BY <1>1, <2>3, <2>4, FlushFhKeeps
    <2>9. Rests(store', head, B2, ids2)
      BY <2>2, <2>6, <2>7, <2>8, HeldRests
    <2>10. DOMAIN files' = {}
      BY <1>1, <2>2, <2>3, <2>4 DEF OneHandle
    <2> QED
      BY <2>3, <2>4, <2>9, <2>10 DEF OneSlots
  <1>14. CASE Unlink
    <2>1. head' = None /\ failed' = failed /\ DOMAIN files' = {}
      BY <1>14, UnlinkIs DEF NoHandles
    <2>2. Owner(store', {})
      BY <1>2, <1>14, <2>1, UnlinkedSlots
    <2> QED
      BY <2>1, <2>2 DEF OneSlots
  <1>15. CASE Remount
    <2>1. PICK r \in FlushAll(store) : store' = Mounted(r.st) /\ failed' = (failed \/ ~r.ok)
      BY <1>15, RemountIs
    <2>2. head' = head /\ DOMAIN files' = {}
      BY <1>15, RemountIs DEF NoHandles
    <2>3. ~failed /\ r.ok
      BY <2>1
    <2>4. OneSlots(store', head', <<>>)
      BY <1>2, <2>1, <2>2, <2>3, RemountSlots
    <2>5. DOMAIN <<>> = {}
      OBVIOUS
    <2> QED
      BY <2>2, <2>4, <2>5 DEF OneSlots
  <1>16. CASE UNCHANGED vars
    BY <1>2, <1>16 DEF vars
  <1> QED
    BY <1>6, <1>7, <1>8, <1>9, <1>10, <1>11, <1>12, <1>13, <1>14, <1>15, <1>16 DEF Next

LEMMA SlotsAlways == OneHandle /\ Spec => []SlotsInv
  <1> SUFFICES ASSUME OneHandle PROVE Spec => []SlotsInv
    OBVIOUS
  <1>1. Init => Typed /\ SlotsInv
    BY TypedStart, StartSlots
  <1>2. Typed /\ SlotsInv /\ [Next]_vars => (Typed /\ SlotsInv)'
    <2>1. Typed /\ [Next]_vars => Typed'
      BY TypedStep
    <2> QED
      BY <2>1, SlotsStep
  <1> QED
    BY <1>1, <1>2, PTL DEF Spec

LEMMA RangeMembers == ASSUME NEW S, NEW ids \in Seq(S) PROVE Range(ids) = Members(ids)
  BY DEF Range, Members

LEMMA RangeMapped == ASSUME NEW S, NEW map \in Seq(S) PROVE Range(map) \ {None} = Mapped(map)
  BY DEF Range, Mapped

(* What the head on disk names, in the terms of Names.                       *)
LEMMA SlotsOnDiskAre ==
    ASSUME Typed, head # None, NEW B, NEW ids, Names(store, head, B, ids)
    PROVE  SlotsOnDisk = ({head} \union B) \union Members(ids)
  <1> DEFINE slots == store.node[head].slots
             index == IndexChain(store, store.node[head].chain)
             cids  == index.ids
  <1>1. store \in Stores /\ store.node[head].kind = "file"
    BY StateTyped DEF Names
  <1>2. /\ slots \in Seq(Slots) /\ index.ok /\ index.blocks = B
        /\ Listed(store, head, ids) /\ cids \in Seq(Slots)
    BY <1>1, NamesIs
  <1>3. SlotsOnDisk = {head} \union Range(slots) \union index.blocks \union Range(cids)
    BY <1>1, <1>2 DEF SlotsOnDisk
  <1>4. Range(slots) = Members(slots) /\ Range(cids) = Members(cids)
    BY <1>2, RangeMembers
  <1>5. ids = slots \o cids
    BY <1>2 DEF Listed
  <1> HIDE DEF slots, cids
  <1>6. Members(ids) = Members(slots) \union Members(cids)
    BY <1>2, <1>5, Joined
  <1> HIDE DEF index
  <1> QED
    BY <1>2, <1>3, <1>4, <1>6

LEMMA OneSlotInHand ==
    ASSUME Typed, NEW h \in DOMAIN files, DOMAIN files = {h}
    PROVE  SlotsInHand = Mapped(files[h].map)
  <1>1. files[h] \in OpenFiles
    BY StateTyped
  <1>2. files[h].map \in Seq(Slots \union {None})
    BY <1>1 DEF OpenFiles, Maps, Link
  <1>3. Range(files[h].map) \ {None} = Mapped(files[h].map)
    BY <1>2, RangeMapped
  <1> QED
    BY <1>3 DEF SlotsInHand

LEMMA OwnerApart ==
    ASSUME NEW st, NEW O, NEW Q, Q \subseteq O, Owner(st, O), Q \subseteq Slots
    PROVE  (\A s \in Slots : st.free[s] <= 1) /\ \A s \in Q : st.free[s] = 0
  BY DEF Owner

(* While nothing fails the slots of SlotsInv say both properties. *)
LEMMA SlotsMean ==
    ASSUME OneHandle, Typed, SlotsInv, ~failed
    PROVE  NoSlotFreedTwice /\ (Lossless => NoSlotLeaked)
  <1>1. OneSlots(store, head, files)
    BY DEF SlotsInv
  <1>2. /\ store \in Stores /\ DOMAIN files \subseteq Handles
        /\ head # None => head \in Slots
    BY StateTyped
  <1>3. ASSUME NEW O, Owner(store, O), O \subseteq Slots, SlotsOnDisk \union SlotsInHand \subseteq O,
               AllClean => O \subseteq SlotsOnDisk
        PROVE  NoSlotFreedTwice /\ (Lossless => NoSlotLeaked)
    <2>1. NoSlotFreedTwice
      BY <1>3 DEF NoSlotFreedTwice, Owner
    <2>2. ASSUME Lossless, AllClean, NEW s \in Slots \ SlotsOnDisk PROVE store.free[s] > 0
      <3>1. s \in Slots /\ s \notin O
        BY <1>3, <2>2
      <3>2. store.free[s] = 1
        BY <1>3, <2>2, <3>1 DEF Owner
      <3> QED
        BY <3>2
    <2> QED
      BY <2>1, <2>2 DEF NoSlotLeaked
  <1>4. CASE head = None
    <2>1. DOMAIN files = {} /\ Owner(store, {})
      BY <1>1, <1>4 DEF OneSlots
    <2>2. SlotsOnDisk = {} /\ SlotsInHand = {}
      BY <1>4, <2>1 DEF SlotsOnDisk, SlotsInHand
    <2> QED
      BY <1>3, <2>1, <2>2
  <1>5. CASE head # None /\ DOMAIN files = {}
    <2>1. PICK B, ids : Rests(store, head, B, ids)
      BY <1>1, <1>5 DEF OneSlots
    <2> DEFINE O == ({head} \union B) \union Members(ids)
    <2>2. Names(store, head, B, ids) /\ Owner(store, O)
      BY <2>1 DEF Rests
    <2>3. B \subseteq Slots /\ \A s \in Members(ids) : s \in Slots
      BY <1>2, <2>2, NamesIs DEF Names, DataIn
    <2>4. O \subseteq Slots
      BY <1>2, <1>5, <2>3
    <2>5. SlotsOnDisk = O
      BY <1>5, <2>2, SlotsOnDiskAre
    <2>6. SlotsInHand = {}
      BY <1>5 DEF SlotsInHand
    <2> HIDE DEF O
    <2> QED
      BY <1>3, <2>2, <2>4, <2>5, <2>6
  <1>6. CASE head # None /\ DOMAIN files # {}
    <2>1. PICK h \in DOMAIN files : TRUE
      BY <1>6
    <2>2. DOMAIN files = {h} /\ h \in Handles
      BY <1>2, <2>1 DEF OneHandle
    <2>3. files[h].head = head /\ \E B, ids : Held(store, files[h], B, ids)
      BY <1>1, <1>6, <2>1 DEF OneSlots
    <2>4. PICK B, ids : Held(store, files[h], B, ids)
      BY <2>3
    <2> DEFINE map == files[h].map
               O   == ({head} \union B) \union Mapped(map)
    <2>5. /\ Names(store, head, B, ids) /\ Owner(store, O)
          /\ Members(ids) \subseteq Mapped(map)
          /\ ~files[h].metaDirty => Mapped(map) \subseteq Members(ids)
      BY <2>3, <2>4 DEF Held
    <2>6. B \subseteq Slots /\ Mapped(map) \subseteq Slots
      BY <1>2, <2>4, HeldIs
    <2>7. O \subseteq Slots
      BY <1>2, <1>6, <2>6
    <2>8. SlotsOnDisk = ({head} \union B) \union Members(ids)
      BY <1>6, <2>5, SlotsOnDiskAre
    <2>9. SlotsInHand = Mapped(map)
      BY <2>1, <2>2, OneSlotInHand
    <2>10. AllClean => ~files[h].metaDirty
      BY <2>1 DEF AllClean, Clean
    <2> HIDE DEF map
    <2>11. SlotsOnDisk \union SlotsInHand \subseteq O
      BY <2>5, <2>8, <2>9
    <2>12. AllClean => O \subseteq SlotsOnDisk
      BY <2>5, <2>8, <2>10
    <2> HIDE DEF O
    <2> QED
      BY <1>3, <2>5, <2>7, <2>11, <2>12
  <1> QED
    BY <1>4, <1>5, <1>6

(* With one handle at a time and until a request fails, whatever is asked:   *)
(* no slot is on the free list twice, and none that the head on disk or the  *)
(* handle names is on it, so alloc hands out no slot of the file (op_write,  *)
(* flush_fh, op_setattr, op_unlink). A flush that fails at its last write    *)
(* has freed slots that the head still names.                                *)
THEOREM FreedOnce ==
    ASSUME OneHandle
    PROVE  Spec => [](~failed => NoSlotFreedTwice)
  <1>1. Typed /\ SlotsInv => (~failed => NoSlotFreedTwice)
    BY SlotsMean
  <1>2. Spec => []Typed /\ []SlotsInv
    BY TypedAlways, SlotsAlways
  <1> QED
    BY <1>1, <1>2, PTL

(* With one handle at a time every slot that the flushed file does not name  *)
(* is on the free list, where nothing asked for makes the code forget one:   *)
(* an unlink while open, or one, or a truncation, of a closed file that has  *)
(* an index chain (flush_fh, op_setattr, op_unlink).                         *)
THEOREM NothingLeaks ==
    ASSUME OneHandle, Lossless
    PROVE  Spec => []NoSlotLeaked
  <1>1. Typed /\ SlotsInv => NoSlotLeaked
    <2>1. failed => NoSlotLeaked
      BY DEF NoSlotLeaked
    <2> QED
      BY <2>1, SlotsMean
  <1>2. Spec => []Typed /\ []SlotsInv
    BY TypedAlways, SlotsAlways
  <1> QED
    BY <1>1, <1>2, PTL
==============================================================================
