------------------------- MODULE FuseContentProofs -------------------------
(***************************************************************************)
(* That a file of FuseFile says what was written to it: for every number   *)
(* of slots, every size of chunks, of the cache and of the head, and every *)
(* order of requests, with one handle at a time (see Plain for what may    *)
(* be asked).  To the slots of FuseFileProofs comes the text: which chunk  *)
(* is right in memory, which on disk, and that each is right in one of the *)
(* two (Holds), what of it a head names (Fresh), and that what no handle   *)
(* holds is all on disk (Restful).                                         *)
(***************************************************************************)
EXTENDS FuseFileProofs

-----------------------------------------------------------------------------
(* ReadsSeeWrites and FlushedIsOnDisk.                                       *)

(* The bytes data of chunk ci are those of text, as far as text goes.        *)
Shows(data, ci, text) ==
    \A k \in 1..ChunkSize :
        ci * ChunkSize + k <= Len(text) => k <= Len(data) /\ data[k] = text[ci * ChunkSize + k]

(* Chunk ci is on disk, in the head block n or in the slot that map gives.   *)
Saved(st, n, map, ci, text) ==
    IF ci = 0 THEN Shows(st.node[n].data, 0, text)
    ELSE ci + 1 \in 1..Len(map) /\ map[ci + 1] # None /\ Shows(st.node[map[ci + 1]].data, ci, text)

(* Cached it shows text; on disk it does so unless it is among the cached    *)
(* chunks of D, which are still to be written.                               *)
Has(st, of, D, ci, text) ==
    /\ ci < Len(of.map)
    /\ ci \in DOMAIN of.cache => Shows(of.cache[ci], ci, text)
    /\ (ci \in DOMAIN of.cache /\ ci \in D) \/ Saved(st, of.head, of.map, ci, text)

Holds(st, of, D, text) ==
    \A ci \in Nat : ci * ChunkSize < Len(text) => Has(st, of, D, ci, text)

(* Two texts agree on chunk ci. *)
SameAt(ci, text, next) ==
    \A k \in 1..ChunkSize :
        ci * ChunkSize + k <= Len(next) =>
            ci * ChunkSize + k <= Len(text) /\ next[ci * ChunkSize + k] = text[ci * ChunkSize + k]

LEMMA ShowsSame ==
    ASSUME NEW data, NEW ci, NEW text, NEW next, Shows(data, ci, text), SameAt(ci, text, next)
    PROVE  Shows(data, ci, next)
  BY DEF Shows, SameAt

LEMMA HasSame ==
    ASSUME NEW st, NEW of, NEW D, NEW ci, NEW text, NEW next, Has(st, of, D, ci, text),
           SameAt(ci, text, next)
    PROVE  Has(st, of, D, ci, next)
  <1>1. \A data : Shows(data, ci, text) => Shows(data, ci, next)
    BY ShowsSame
  <1>2. Saved(st, of.head, of.map, ci, text) => Saved(st, of.head, of.map, ci, next)
    BY <1>1 DEF Saved
  <1> QED
    BY <1>1, <1>2 DEF Has

(* Chunks do not overlap. *)
LEMMA ChunksApart ==
    ASSUME NEW a \in Nat, NEW b \in Nat
    PROVE  /\ a * ChunkSize \in Nat /\ b * ChunkSize \in Nat
           /\ a < b => a * ChunkSize + ChunkSize <= b * ChunkSize
           /\ b < a => b * ChunkSize + ChunkSize <= a * ChunkSize
           /\ (a + 1) * ChunkSize = a * ChunkSize + ChunkSize
  <1>1. ChunkSize \in Nat
    BY Sizes
  <1>2. a * ChunkSize \in Nat /\ b * ChunkSize \in Nat
    BY <1>1
  <1>3. a < b => a * ChunkSize + ChunkSize <= b * ChunkSize
    BY <1>1, Products
  <1>4. b < a => b * ChunkSize + ChunkSize <= a * ChunkSize
    BY <1>1, Products
  <1>5. (a + 1) * ChunkSize = a * ChunkSize + ChunkSize
    BY <1>1
  <1> QED
    BY <1>2, <1>3, <1>4, <1>5

(* What is loaded on a miss is what the file holds. *)
LEMMA LoadedShows ==
    ASSUME NEW st, NEW of, NEW D, NEW ci \in Nat, NEW text, Has(st, of, D, ci, text),
           ci \notin DOMAIN of.cache, Loaded(st, of, ci) # EIO
    PROVE  Shows(Loaded(st, of, ci), ci, text)
  <1>1. ci < Len(of.map) /\ Saved(st, of.head, of.map, ci, text)
    BY DEF Has
  <1>2. CASE ci = 0
    <2>1. Loaded(st, of, ci) = st.node[of.head].data
      BY <1>1, <1>2 DEF Loaded
    <2> QED
      BY <1>1, <1>2, <2>1 DEF Saved
  <1>3. CASE ci # 0
    <2>1. of.map[ci + 1] # None /\ Shows(st.node[of.map[ci + 1]].data, ci, text)
      BY <1>1, <1>3 DEF Saved
    <2>2. Loaded(st, of, ci) = st.node[of.map[ci + 1]].data
      <3> DEFINE s == of.map[ci + 1]
      <3>1. s # None
        BY <2>1
      <3>2. ~(ci >= Len(of.map))
        BY <1>1
      <3>3. Loaded(st, of, ci) = IF st.node[s].kind = "data" THEN st.node[s].data ELSE EIO
        BY <1>3, <3>1, <3>2, Zenon DEF Loaded
      <3> QED
        BY <3>3
    <2> QED
      BY <2>1, <2>2
  <1> QED
    BY <1>2, <1>3

(* A cache that grew by what was loaded, or lost what is saved. *)
LEMMA CacheHas ==
    ASSUME NEW st, NEW of, NEW ci, NEW text, Has(st, of, of.dirty, ci, text),
           NEW next, next.head = of.head, next.map = of.map, next.dirty = of.dirty,
           of.dirty \intersect DOMAIN of.cache \subseteq DOMAIN next.cache,
           ci \in DOMAIN next.cache =>
              \/ ci \in DOMAIN of.cache /\ next.cache[ci] = of.cache[ci]
              \/ Shows(next.cache[ci], ci, text)
    PROVE  Has(st, next, next.dirty, ci, text)
  BY DEF Has

LEMMA EnsureCachedHolds ==
    ASSUME NEW st \in Stores, NEW of \in OpenFiles, NEW ci \in 0..MaxSize, NEW text,
           Holds(st, of, of.dirty, text), NEW r \in EnsureCached(st, of, ci)
    PROVE  Holds(st, r.of, r.of.dirty, text)
  <1>1. /\ SameButCache(r.of, of)
        /\ of.dirty \intersect DOMAIN of.cache \subseteq DOMAIN r.of.cache
        /\ \A k \in DOMAIN r.of.cache :
              \/ k \in DOMAIN of.cache /\ r.of.cache[k] = of.cache[k]
              \/ /\ k = ci /\ k \notin DOMAIN of.cache /\ Loaded(st, of, ci) # EIO
                 /\ r.of.cache[k] = Loaded(st, of, ci)
    BY EnsureCachedKeeps
  <1> SUFFICES ASSUME NEW k \in Nat, k * ChunkSize < Len(text)
               PROVE  Has(st, r.of, r.of.dirty, k, text)
    BY DEF Holds
  <1>2. Has(st, of, of.dirty, k, text)
    BY DEF Holds
  <1>3. ASSUME k \in DOMAIN r.of.cache, k \notin DOMAIN of.cache
        PROVE  Shows(r.of.cache[k], k, text)
    <2>1. k = ci /\ Loaded(st, of, k) # EIO /\ r.of.cache[k] = Loaded(st, of, k)
      BY <1>1, <1>3
    <2> QED
      BY <1>2, <1>3, <2>1, LoadedShows
  <1>4. r.of.head = of.head /\ r.of.map = of.map /\ r.of.dirty = of.dirty
    BY <1>1 DEF SameButCache
  <1>5. k \in DOMAIN r.of.cache =>
           \/ k \in DOMAIN of.cache /\ r.of.cache[k] = of.cache[k]
           \/ Shows(r.of.cache[k], k, text)
    BY <1>1, <1>3
  <1> QED
    BY <1>1, <1>2, <1>4, <1>5, CacheHas

(* A brand-new chunk is beyond the end of the file. *)
LEMMA WriteReadyHolds ==
    ASSUME NEW st \in Stores, NEW of \in OpenFiles, NEW ci \in 0..MaxSize, NEW text,
           Holds(st, of, of.dirty, text), NEW r \in WriteReady(st, of, ci)
    PROVE  Holds(st, r.of, r.of.dirty, text)
  <1>1. CASE ci # 0 /\ ci \notin DOMAIN of.cache /\ of.map[ci + 1] = None
    <2>1. /\ SameButCache(r.of, of)
          /\ of.dirty \intersect DOMAIN of.cache \subseteq DOMAIN r.of.cache
          /\ \A k \in DOMAIN r.of.cache :
                k = ci \/ (k \in DOMAIN of.cache /\ r.of.cache[k] = of.cache[k])
      BY WriteReadyKeeps
    <2> SUFFICES ASSUME NEW k \in Nat, k * ChunkSize < Len(text)
                 PROVE  Has(st, r.of, r.of.dirty, k, text)
      BY DEF Holds
    <2>2. Has(st, of, of.dirty, k, text)
      BY DEF Holds
    <2>3. k # ci
      BY <1>1, <2>2 DEF Has, Saved
    <2>4. r.of.head = of.head /\ r.of.map = of.map /\ r.of.dirty = of.dirty
      BY <2>1 DEF SameButCache
    <2> QED
      BY <2>1, <2>2, <2>3, <2>4, CacheHas
  <1>2. CASE ~(ci # 0 /\ ci \notin DOMAIN of.cache /\ of.map[ci + 1] = None)
    <2>1. r \in EnsureCached(st, of, ci)
      BY <1>2, Zenon DEF WriteReady
    <2> QED
      BY <2>1, EnsureCachedHolds
  <1> QED
    BY <1>1, <1>2

LEMMA MapExtendedHolds ==
    ASSUME NEW st, NEW of \in OpenFiles, NEW ci \in 0..MaxSize, NEW text,
           Holds(st, of, of.dirty, text)
    PROVE  Holds(st, MapExtended(of, ci), MapExtended(of, ci).dirty, text)
  <1> DEFINE ext == MapExtended(of, ci)
  <1>1. /\ Len(ext.map) >= ci + 1
        /\ Len(ext.map) = IF ci < Len(of.map) THEN Len(of.map) ELSE ci + 1
        /\ \A i \in 1..Len(of.map) : ext.map[i] = of.map[i]
        /\ ext \in OpenFiles
    BY MapExtendedIs
  <1>2. ext.head = of.head /\ ext.cache = of.cache /\ ext.dirty = of.dirty
    BY DEF MapExtended, OpenFiles
  <1>3. Len(of.map) \in Nat /\ Len(ext.map) \in Nat /\ Len(ext.map) >= Len(of.map)
    BY <1>1, Fields
  <1> HIDE DEF ext
  <1>4. ASSUME NEW k \in Nat, Has(st, of, of.dirty, k, text)
        PROVE  Has(st, ext, ext.dirty, k, text)
    <2>1. k < Len(of.map) /\ k < Len(ext.map) /\ k + 1 \in 1..Len(of.map) /\ k + 1 \in 1..Len(ext.map)
          /\ ext.map[k + 1] = of.map[k + 1]
      BY <1>1, <1>3, <1>4 DEF Has
    <2>2. Saved(st, of.head, of.map, k, text) => Saved(st, ext.head, ext.map, k, text)
      BY <1>2, <2>1 DEF Saved
    <2> QED
      BY <1>2, <1>4, <2>1, <2>2 DEF Has
  <1>5. Holds(st, ext, ext.dirty, text)
    BY <1>4 DEF Holds
  <1> QED
    BY <1>5 DEF ext

LEMMA SequenceFacts ==
    ASSUME NEW S, NEW q \in Seq(S)
    PROVE  Len(q) \in Nat /\ \A i \in 1..Len(q) : q[i] \in S
  OBVIOUS

(* One chunk overwritten. *)
LEMMA OverwriteShows ==
    ASSUME NEW data \in Seq(Byte), NEW text \in Seq(Byte), NEW ci \in Nat,
           NEW lo \in Nat, NEW hi \in Nat, lo <= hi, hi <= ChunkSize,
           ci * ChunkSize + lo <= Len(text), NEW tag \in Byte,
           ci * ChunkSize < Len(text) => Shows(data, ci, text)
    PROVE  Shows(Overlaid(data, lo, hi, tag), ci,
                 Overlaid(text, ci * ChunkSize + lo, ci * ChunkSize + hi, tag))
  <1> DEFINE c == ci * ChunkSize
             new == Overlaid(data, lo, hi, tag)
             next == Overlaid(text, c + lo, c + hi, tag)
  <1>1. c \in Nat /\ ChunkSize \in Nat
    BY Sizes, ChunksApart
  <1>2. /\ Len(new) = (IF Len(data) >= hi THEN Len(data) ELSE hi)
        /\ \A i \in 1..Len(new) :
              new[i] = IF i \in (lo + 1)..hi THEN tag ELSE IF i <= Len(data) THEN data[i] ELSE 0
    BY OverlaidIs
  <1>3. /\ Len(next) = (IF Len(text) >= c + hi THEN Len(text) ELSE c + hi)
        /\ \A i \in 1..Len(next) :
              next[i] = IF i \in (c + lo + 1)..(c + hi) THEN tag
                        ELSE IF i <= Len(text) THEN text[i] ELSE 0
    BY <1>1, OverlaidIs
  <1>4. Len(data) \in Nat /\ Len(text) \in Nat
    OBVIOUS
  <1>5. c + lo <= Len(text) /\ (c < Len(text) => Shows(data, ci, text))
    OBVIOUS
  <1>6. Shows(data, ci, text) <=>
           \A k \in 1..ChunkSize : c + k <= Len(text) => k <= Len(data) /\ data[k] = text[c + k]
    BY DEF Shows
  <1> HIDE DEF c, new, next
  <1>7. ASSUME NEW k \in 1..ChunkSize, c + k <= Len(next)
        PROVE  k <= Len(new) /\ new[k] = next[c + k]
    <2>1. k \in Nat /\ k >= 1 /\ c + k \in 1..Len(next)
      BY <1>1, <1>3, <1>4, <1>7
    <2>2. CASE k \in (lo + 1)..hi
      <3>1. k <= Len(new) /\ k \in 1..Len(new)
        BY <1>2, <1>4, <2>1, <2>2
      <3>2. c + k \in (c + lo + 1)..(c + hi)
        BY <1>1, <2>1, <2>2
      <3> QED
        BY <1>2, <1>3, <2>1, <2>2, <3>1, <3>2
    <2>3. CASE k \notin (lo + 1)..hi
      <3>1. c + k <= Len(text)
        BY <1>1, <1>3, <1>4, <1>5, <1>7, <2>1, <2>3
      <3>2. k <= Len(data) /\ data[k] = text[c + k]
        BY <1>1, <1>4, <1>5, <1>6, <2>1, <3>1
      <3>3. k \in 1..Len(new) /\ new[k] = data[k]
        BY <1>2, <1>4, <2>1, <2>3, <3>2
      <3>4. c + k \notin (c + lo + 1)..(c + hi)
        BY <1>1, <2>1, <2>3
      <3> QED
        BY <1>3, <2>1, <3>1, <3>2, <3>3, <3>4
    <2> QED
      BY <2>2, <2>3
  <1> QED
    BY <1>7 DEF Shows, c, new, next

LEMMA OverwriteSameAt ==
    ASSUME NEW text \in Seq(Byte), NEW ci \in Nat, NEW lo \in Nat, NEW hi \in Nat, lo <= hi,
           hi <= ChunkSize, ci * ChunkSize + lo <= Len(text), NEW tag \in Byte,
           NEW k \in Nat, k # ci,
           k * ChunkSize < Len(Overlaid(text, ci * ChunkSize + lo, ci * ChunkSize + hi, tag))
    PROVE  /\ k * ChunkSize < Len(text)
           /\ SameAt(k, text, Overlaid(text, ci * ChunkSize + lo, ci * ChunkSize + hi, tag))
  <1> DEFINE c == ci * ChunkSize
             d == k * ChunkSize
             next == Overlaid(text, c + lo, c + hi, tag)
  <1>1. /\ c \in Nat /\ d \in Nat /\ ChunkSize \in Nat /\ ChunkSize >= 1
        /\ (d + ChunkSize <= c \/ c + ChunkSize <= d)
    BY Sizes, ChunksApart
  <1>2. /\ Len(next) = (IF Len(text) >= c + hi THEN Len(text) ELSE c + hi)
        /\ \A i \in 1..Len(next) :
              next[i] = IF i \in (c + lo + 1)..(c + hi) THEN tag
                        ELSE IF i <= Len(text) THEN text[i] ELSE 0
    BY <1>1, OverlaidIs
  <1>3. Len(text) \in Nat /\ c + lo <= Len(text) /\ d < Len(next)
    OBVIOUS
  <1> HIDE DEF c, d, next
  <1>4. d < Len(text)
    BY <1>1, <1>2, <1>3
  <1>5. ASSUME NEW j \in 1..ChunkSize, d + j <= Len(next)
        PROVE  d + j <= Len(text) /\ next[d + j] = text[d + j]
    <2>1. d + j <= Len(text) /\ d + j \in 1..Len(next)
      BY <1>1, <1>2, <1>3, <1>5
    <2>2. d + j \notin (c + lo + 1)..(c + hi)
      BY <1>1, <1>3, <1>5
    <2> QED
      BY <1>2, <2>1, <2>2
  <1>6. SameAt(k, text, next)
    BY <1>5 DEF SameAt, d
  <1> QED
    BY <1>4, <1>6 DEF c, d, next

LEMMA OverwriteHolds ==
    ASSUME NEW st, NEW of \in OpenFiles, NEW ci \in DOMAIN of.cache, ci < Len(of.map),
           NEW text \in Seq(Byte), Holds(st, of, of.dirty, text),
           NEW lo \in Nat, NEW hi \in Nat, lo <= hi, hi <= ChunkSize,
           ci * ChunkSize + lo <= Len(text), NEW tag \in Byte,
           NEW next, next.head = of.head, next.map = of.map, next.dirty = of.dirty \union {ci},
           next.cache = Caching(of.cache, ci, Overlaid(of.cache[ci], lo, hi, tag))
    PROVE  Holds(st, next, next.dirty,
                 Overlaid(text, ci * ChunkSize + lo, ci * ChunkSize + hi, tag))
  <1> DEFINE after == Overlaid(text, ci * ChunkSize + lo, ci * ChunkSize + hi, tag)
             data == of.cache[ci]
             new == Overlaid(data, lo, hi, tag)
  <1>1. ci \in Nat /\ data \in Seq(Byte)
    BY Fields, CacheFields, ChunkFields
  <1>2. DOMAIN next.cache = DOMAIN of.cache \union {ci} /\ next.cache[ci] = new
        /\ \A k \in DOMAIN of.cache : k # ci => next.cache[k] = of.cache[k]
    BY DEF Caching
  <1> SUFFICES ASSUME NEW k \in Nat, k * ChunkSize < Len(after)
               PROVE  Has(st, next, next.dirty, k, after)
    BY DEF Holds
  <1>3. CASE k = ci
    <2>1. ci * ChunkSize < Len(text) => Shows(data, ci, text)
      BY <1>1 DEF Holds, Has
    <2>2. Shows(new, ci, after)
      BY <1>1, <2>1, OverwriteShows
    <2> HIDE DEF after, new, data
    <2> QED
      BY <1>2, <1>3, <2>2 DEF Has
  <1>4. CASE k # ci
    <2>1. k * ChunkSize < Len(text) /\ SameAt(k, text, after)
      BY <1>1, <1>4, OverwriteSameAt
    <2> HIDE DEF after, new, data
    <2>2. Has(st, of, of.dirty, k, text)
      BY <2>1 DEF Holds
    <2>3. Has(st, of, of.dirty, k, after)
      BY <2>1, <2>2, HasSame
    <2> QED
      BY <1>2, <1>4, <2>3 DEF Has
  <1> QED
    BY <1>3, <1>4

(* Parts of a write add up. *)
LEMMA OverlaidTwice ==
    ASSUME NEW text \in Seq(Byte), NEW from \in Nat, NEW a \in Nat, NEW b \in Nat,
           from <= a, a <= b, from <= Len(text), NEW tag \in Byte
    PROVE  /\ Overlaid(Overlaid(text, from, a, tag), a, b, tag) = Overlaid(text, from, b, tag)
           /\ Overlaid(text, from, from, tag) = text
           /\ Overlaid(text, from, a, tag) \in Seq(Byte)
           /\ Len(Overlaid(text, from, a, tag)) = IF Len(text) >= a THEN Len(text) ELSE a
  <1> DEFINE p == Overlaid(text, from, a, tag)
             q == Overlaid(p, a, b, tag)
             r == Overlaid(text, from, b, tag)
             s == Overlaid(text, from, from, tag)
  <1>1. /\ p \in Seq(Byte) /\ Len(p) = (IF Len(text) >= a THEN Len(text) ELSE a)
        /\ \A i \in 1..Len(p) :
              p[i] = IF i \in (from + 1)..a THEN tag ELSE IF i <= Len(text) THEN text[i] ELSE 0
    BY OverlaidIs
  <1>2. /\ r \in Seq(Byte) /\ Len(r) = (IF Len(text) >= b THEN Len(text) ELSE b)
        /\ \A i \in 1..Len(r) :
              r[i] = IF i \in (from + 1)..b THEN tag ELSE IF i <= Len(text) THEN text[i] ELSE 0
    BY OverlaidIs
  <1>3. /\ s \in Seq(Byte) /\ Len(s) = (IF Len(text) >= from THEN Len(text) ELSE from)
        /\ \A i \in 1..Len(s) :
              s[i] = IF i \in (from + 1)..from THEN tag ELSE IF i <= Len(text) THEN text[i] ELSE 0
    BY OverlaidIs
  <1> HIDE DEF p
  <1>4. /\ q \in Seq(Byte) /\ Len(q) = (IF Len(p) >= b THEN Len(p) ELSE b)
        /\ \A i \in 1..Len(q) :
              q[i] = IF i \in (a + 1)..b THEN tag ELSE IF i <= Len(p) THEN p[i] ELSE 0
    BY <1>1, OverlaidIs
  <1> HIDE DEF q, r, s
  <1>5. Len(text) \in Nat
    OBVIOUS
  <1>6. Len(q) = Len(r)
    BY <1>1, <1>2, <1>4, <1>5
  <1>7. \A i \in 1..Len(q) : q[i] = r[i]
    <2> TAKE i \in 1..Len(q)
    <2>1. CASE i \in (a + 1)..b
      BY <1>2, <1>4, <1>6, <2>1
    <2>2. CASE i \notin (a + 1)..b /\ i <= Len(p)
      <3>1. i \in 1..Len(p) /\ q[i] = p[i] /\ i \in 1..Len(r)
        BY <1>1, <1>4, <1>5, <1>6, <2>2
      <3>2. i \in (from + 1)..a <=> i \in (from + 1)..b
        BY <1>1, <1>5, <2>2, <3>1
      <3> QED
        BY <1>1, <1>2, <3>1, <3>2
    <2>3. CASE i \notin (a + 1)..b /\ ~(i <= Len(p))
      BY <1>1, <1>4, <1>5, <2>3
    <2> QED
      BY <2>1, <2>2, <2>3
  <1>8. q = r
    BY <1>2, <1>4, <1>6, <1>7, SameSequence
  <1>9. s = text
    <2>1. Len(s) = Len(text) /\ \A i \in 1..Len(s) : s[i] = text[i]
      BY <1>3, <1>5
    <2> QED
      BY <1>3, <2>1, SameSequence
  <1> QED
    BY <1>1, <1>8, <1>9 DEF p, q, r, s

(* With nothing to tell it the head on disk is the handle's. *)
Fresh(st, of, ids) ==
    ~of.metaDirty =>
        /\ st.node[of.head].total = of.total
        /\ \A ci \in Nat : ci >= 1 /\ ci * ChunkSize < of.total =>
              ci + 1 \in 1..Len(of.map) /\ ci \in 1..Len(ids) /\ ids[ci] = of.map[ci + 1]

(* The handle holds text. *)
Full(st, of, ids, text) ==
    of.total = Len(text) /\ Holds(st, of, of.dirty, text) /\ Fresh(st, of, ids)

(* op_write's share of one chunk. *)
LEMMA WriteChunkHolds ==
    ASSUME NEW st \in Stores, NEW of \in OpenFiles, NEW ci \in 0..MaxSize,
           NEW from \in 0..MaxSize, NEW to \in 0..MaxSize, NEW tag \in Byte,
           NEW r \in WriteChunk(st, of, ci, from, to, tag), r.ok,
           NEW text \in Seq(Byte), Holds(st, of, of.dirty, text),
           Low(ci, from) <= High(ci, to), ci * ChunkSize + Low(ci, from) <= Len(text)
    PROVE  Holds(st, r.of, r.of.dirty,
                 Overlaid(text, ci * ChunkSize + Low(ci, from), ci * ChunkSize + High(ci, to), tag))
  <1> DEFINE ext == MapExtended(of, ci)
             lo == Low(ci, from)
             hi == High(ci, to)
  <1>1. /\ ext \in OpenFiles /\ Len(ext.map) >= ci + 1 /\ Holds(st, ext, ext.dirty, text)
        /\ Len(ext.map) \in Nat
    BY MapExtendedIs, MapExtendedHolds, Fields
  <1>2. PICK e \in WriteReady(st, ext, ci) :
           /\ e \in Reached
           /\ e.ok => /\ ci \in DOMAIN e.of.cache
                      /\ r = [ok |-> TRUE, of |-> Overwritten(e.of, ci, from, to, tag)]
           /\ ~e.ok => r = e
    BY WriteChunkIs
  <1>3. /\ e.ok /\ ci \in DOMAIN e.of.cache /\ r.of = Overwritten(e.of, ci, from, to, tag)
        /\ e.of \in OpenFiles
    BY <1>2 DEF Reached
  <1>4. Holds(st, e.of, e.of.dirty, text)
    BY <1>1, <1>2, WriteReadyHolds
  <1>5. e.of.map = ext.map
    BY <1>1, <1>2, WriteReadyKeeps DEF SameButCache
  <1> HIDE DEF ext
  <1>6. /\ r.of.cache = Caching(e.of.cache, ci, Overlaid(e.of.cache[ci], lo, hi, tag))
        /\ r.of.dirty = e.of.dirty \union {ci}
        /\ r.of.map = e.of.map /\ r.of.head = e.of.head
    BY <1>3, OverwrittenIs
  <1>7. lo \in Nat /\ hi \in Int /\ hi <= ChunkSize
    BY LowHigh
  <1> HIDE DEF lo, hi
  <1>8. hi \in Nat /\ ci < Len(e.of.map) /\ lo <= hi /\ ci * ChunkSize + lo <= Len(text)
    BY <1>1, <1>5, <1>7 DEF lo, hi
  <1>9. Holds(st, r.of, r.of.dirty, Overlaid(text, ci * ChunkSize + lo, ci * ChunkSize + hi, tag))
    BY <1>3, <1>4, <1>6, <1>7, <1>8, OverwriteHolds
  <1> QED
    BY <1>9 DEF lo, hi

(* How far a write has come after i chunks. *)
Done(from, to, i) ==
    IF i = 0 THEN from
    ELSE LET end == (from \div ChunkSize + i) * ChunkSize IN IF to <= end THEN to ELSE end

LEMMA DoneIs ==
    ASSUME NEW from \in Nat, NEW to \in Nat, from < to,
           NEW i \in Nat, i >= 1, (from \div ChunkSize + i - 1) * ChunkSize < to
    PROVE  LET ci == from \div ChunkSize + i - 1
           IN  /\ Low(ci, from) <= High(ci, to) /\ High(ci, to) >= 0
               /\ ci * ChunkSize + Low(ci, from) = Done(from, to, i - 1)
               /\ ci * ChunkSize + High(ci, to) = Done(from, to, i)
               /\ from <= Done(from, to, i - 1) /\ Done(from, to, i - 1) <= Done(from, to, i)
               /\ Done(from, to, i - 1) \in Nat /\ Done(from, to, i) \in Nat
  <1> DEFINE first == from \div ChunkSize
             ci == first + i - 1
             c == ci * ChunkSize
             f == first * ChunkSize
             end == (first + i) * ChunkSize
             endp == (first + (i - 1)) * ChunkSize
  <1>1. /\ ChunkSize \in Nat /\ ChunkSize >= 1 /\ first \in Nat /\ ci \in Nat
        /\ f <= from /\ from < f + ChunkSize
    <2>1. ChunkSize \in Nat /\ ChunkSize >= 1
      BY Sizes
    <2>2. /\ first \in Nat /\ ChunkSize * first <= from /\ from < ChunkSize * first + ChunkSize
          /\ f = ChunkSize * first
      BY <2>1, Division
    <2> QED
      BY <2>1, <2>2
  <1>2. first + i = ci + 1 /\ first + (i - 1) = ci
    BY <1>1
  <1>3. c \in Nat /\ end = c + ChunkSize /\ endp = c
    BY <1>1, <1>2, ChunksApart
  <1>4. f \in Nat /\ (i = 1 => c = f) /\ (i > 1 => f + ChunkSize <= c)
    <2>1. i = 1 => ci = first
      BY <1>1
    <2>2. i > 1 => first < ci
      BY <1>1
    <2> QED
      BY <1>1, <2>1, <2>2, ChunksApart
  <1>5. /\ Low(ci, from) = IF 0 >= from - c THEN 0 ELSE from - c
        /\ High(ci, to) = IF to - c <= ChunkSize THEN to - c ELSE ChunkSize
    BY <1>1, LowHigh
  <1>6. c < to
    OBVIOUS
  <1>7. /\ Done(from, to, i) = IF to <= end THEN to ELSE end
        /\ Done(from, to, i - 1) = IF i = 1 THEN from ELSE IF to <= endp THEN to ELSE endp
    BY DEF Done
  <1> HIDE DEF c, f, end, endp
  <1>8. i = 1 => Low(ci, from) = from - c
    BY <1>1, <1>3, <1>4, <1>5
  <1>9. i # 1 => Low(ci, from) = 0
    BY <1>1, <1>3, <1>4, <1>5
  <1>10. Done(from, to, i - 1) = c + Low(ci, from)
    BY <1>3, <1>5, <1>6, <1>7, <1>8, <1>9, <1>1
  <1>11. Done(from, to, i) = c + High(ci, to)
    BY <1>3, <1>5, <1>7, <1>1
  <1>12. Low(ci, from) <= High(ci, to) /\ High(ci, to) >= 0 /\ Low(ci, from) \in Nat
         /\ High(ci, to) \in Nat /\ from <= c + Low(ci, from)
    BY <1>1, <1>3, <1>4, <1>5, <1>6, <1>8, <1>9
  <1> QED
    BY <1>3, <1>10, <1>11, <1>12 DEF c

LEMMA OverlaidOn ==
    ASSUME NEW text \in Seq(Byte), NEW tag \in Byte, NEW from, NEW a, NEW b,
           a \in Nat /\ b \in Nat /\ from <= a /\ a <= b /\ from <= Len(text) /\ from \in Nat
    PROVE  /\ Overlaid(Overlaid(text, from, a, tag), a, b, tag) = Overlaid(text, from, b, tag)
           /\ Overlaid(text, from, a, tag) \in Seq(Byte)
           /\ a <= Len(Overlaid(text, from, a, tag))
  <1>1. /\ Overlaid(Overlaid(text, from, a, tag), a, b, tag) = Overlaid(text, from, b, tag)
        /\ Overlaid(text, from, a, tag) \in Seq(Byte)
        /\ Len(Overlaid(text, from, a, tag)) = IF Len(text) >= a THEN Len(text) ELSE a
    BY OverlaidTwice
  <1>2. Len(text) \in Nat
    OBVIOUS
  <1> QED
    BY <1>1, <1>2

LEMMA WriteChunksFull ==
    ASSUME NEW st \in Stores, NEW of \in OpenFiles, NEW from \in 0..MaxSize,
           NEW to \in 0..MaxSize, from < to, NEW tag \in Byte,
           NEW text \in Seq(Byte), NEW ids, Full(st, of, ids, text), from <= Len(text),
           NEW r \in WriteChunks(st, of, from, to, tag), r.ok
    PROVE  Full(st, r.of, ids, Overlaid(text, from, to, tag))
  <1> DEFINE n == Chunks(to) - from \div ChunkSize
             first == from \div ChunkSize
             T(i) == Overlaid(text, from, Done(from, to, i), tag)
             Inv(i, q) ==
                q.ok => /\ Holds(st, q.of, q.of.dirty, T(i))
                        /\ q.of.total = (IF i = 0 \/ of.total >= to THEN of.total ELSE to)
                        /\ q.of.head = of.head
                        /\ ~q.of.metaDirty =>
                              ~of.metaDirty /\ q.of.map = of.map /\ q.of.total = of.total
             P == {p \in Nat \X Reached : Inv(p[1], p[2])}
  <1>0. /\ ChunkSize \in Nat /\ ChunkSize >= 1 /\ from \in Nat /\ to \in Nat /\ MaxSize \in Nat
        /\ Len(text) \in Nat /\ of.total \in Nat
    BY Sizes, Fields
  <1>1. first \in Nat /\ first * ChunkSize <= from /\ Chunks(to) \in Nat
        /\ \A ci \in Nat : ci < Chunks(to) <=> ci * ChunkSize < to
    BY <1>0, Division, ChunksBound
  <1>2. n \in Nat /\ n >= 1
    <2>1. first * ChunkSize < to
      <3> DEFINE f == first * ChunkSize
      <3>1. f \in Nat /\ f <= from
        BY <1>0, <1>1, ChunksApart
      <3> HIDE DEF f
      <3>2. f < to
        BY <1>0, <3>1
      <3> QED
        BY <3>2 DEF f
    <2>2. first < Chunks(to)
      BY <1>1, <2>1
    <2> QED
      BY <1>1, <2>2
  <1>3. <<0, [ok |-> TRUE, of |-> of]>> \in P
    <2>1. T(0) = text
      BY <1>0, OverlaidTwice DEF Done
    <2> HIDE DEF T
    <2> QED
      BY <2>1 DEF Reached, Full
  <1>4. ASSUME NEW i \in 1..n, NEW q \in Reached, <<i - 1, q>> \in P,
               q.of \in OpenFiles, from \div ChunkSize + i - 1 \in 0..MaxSize
        PROVE  /\ ~q.ok => <<i, q>> \in P
               /\ q.ok => \A r2 \in WriteChunk(st, q.of, from \div ChunkSize + i - 1, from, to, tag) :
                             <<i, r2>> \in P
    <2>1. Inv(i - 1, q) /\ i \in Nat /\ i >= 1
      BY <1>2, <1>4
    <2>2. ASSUME q.ok, NEW r2 \in WriteChunk(st, q.of, from \div ChunkSize + i - 1, from, to, tag)
          PROVE  r2 \in Reached /\ Inv(i, r2)
      <3> DEFINE ci == from \div ChunkSize + i - 1
      <3>1. ci \in 0..MaxSize /\ ci \in Nat /\ r2 \in WriteChunk(st, q.of, ci, from, to, tag)
        BY <1>0, <1>4, <2>2
      <3>2. ci < Chunks(to)
        BY <1>1, <1>2, <2>1, <1>4
      <3>3. ci * ChunkSize < to
        BY <1>1, <3>1, <3>2
      <3>4. /\ Low(ci, from) <= High(ci, to) /\ High(ci, to) >= 0
            /\ ci * ChunkSize + Low(ci, from) = Done(from, to, i - 1)
            /\ ci * ChunkSize + High(ci, to) = Done(from, to, i)
            /\ from <= Done(from, to, i - 1) /\ Done(from, to, i - 1) <= Done(from, to, i)
            /\ Done(from, to, i - 1) \in Nat /\ Done(from, to, i) \in Nat
        BY <1>0, <2>1, <3>3, DoneIs
      <3>5. /\ T(i - 1) \in Seq(Byte) /\ Done(from, to, i - 1) <= Len(T(i - 1))
            /\ Overlaid(T(i - 1), Done(from, to, i - 1), Done(from, to, i), tag) = T(i)
        <4> DEFINE a == Done(from, to, i - 1)
                   b == Done(from, to, i)
        <4>1. a \in Nat /\ b \in Nat /\ from <= a /\ a <= b /\ from <= Len(text) /\ from \in Nat
          BY <1>0, <3>4
        <4> HIDE DEF a, b
        <4>2. /\ Overlaid(Overlaid(text, from, a, tag), a, b, tag) = Overlaid(text, from, b, tag)
              /\ Overlaid(text, from, a, tag) \in Seq(Byte)
              /\ a <= Len(Overlaid(text, from, a, tag))
          BY <4>1, OverlaidOn
        <4> QED
          BY <4>2 DEF a, b
      <3>6. Holds(st, q.of, q.of.dirty, T(i - 1))
        BY <2>1, <2>2
      <3>7. /\ r2 \in Reached /\ r2.of.head = q.of.head
            /\ r2.of.map = MapExtended(q.of, ci).map
            /\ r2.ok => /\ r2.of.total = (IF q.of.total >= to THEN q.of.total ELSE to)
                        /\ r2.of.metaDirty = (q.of.metaDirty \/ ci >= Len(q.of.map) \/ to > q.of.total)
        BY <1>4, <3>1, WriteChunkKeeps
      <3>8. ci < Len(q.of.map) => MapExtended(q.of, ci) = q.of
        BY <1>4, <3>1, MapExtendedIs
      <3> HIDE DEF T
      <3>9. r2.ok => Holds(st, r2.of, r2.of.dirty, T(i))
        <4> DEFINE U == T(i - 1)
        <4>1. U \in Seq(Byte) /\ Holds(st, q.of, q.of.dirty, U)
              /\ ci * ChunkSize + Low(ci, from) <= Len(U)
          BY <3>4, <3>5, <3>6
        <4> HIDE DEF U, ci
        <4>2. r2.ok => Holds(st, r2.of, r2.of.dirty,
                         Overlaid(U, ci * ChunkSize + Low(ci, from), ci * ChunkSize + High(ci, to), tag))
          BY <1>4, <3>1, <3>4, <4>1, WriteChunkHolds
        <4> QED
          BY <3>4, <3>5, <4>2 DEF U
      <3>10. q.of.total \in Nat /\ Len(q.of.map) \in Nat
        BY <1>4, Fields
      <3> HIDE DEF ci
      <3>11. r2.ok => r2.of.total = (IF of.total >= to THEN of.total ELSE to)
        BY <1>0, <2>1, <2>2, <3>7, <3>10
      <3>12. r2.ok /\ ~r2.of.metaDirty =>
                ~of.metaDirty /\ r2.of.map = of.map /\ r2.of.total = of.total
        <4> SUFFICES ASSUME r2.ok, ~r2.of.metaDirty
                     PROVE  ~of.metaDirty /\ r2.of.map = of.map /\ r2.of.total = of.total
          OBVIOUS
        <4>1. ~q.of.metaDirty /\ ~(ci >= Len(q.of.map)) /\ ~(to > q.of.total)
          BY <3>7, Zenon
        <4>2. ~of.metaDirty /\ q.of.map = of.map /\ q.of.total = of.total
          BY <2>1, <2>2, <4>1
        <4>3. ci < Len(q.of.map)
          BY <3>1, <3>10, <4>1
        <4>4. r2.of.map = q.of.map
          BY <3>7, <3>8, <4>3
        <4>5. r2.of.total = q.of.total
          BY <1>0, <3>7, <3>10, <4>1
        <4> QED
          BY <4>2, <4>4, <4>5
      <3> QED
        BY <2>1, <2>2, <3>7, <3>9, <3>11, <3>12
    <2> QED
      BY <2>1, <2>2
  <1> HIDE DEF P
  <1>5. r \in Reached /\ <<n, r>> \in P
    BY <1>3, <1>4, WriteChunksInduction
  <1>6. Done(from, to, n) = to
    <2>1. first + n = Chunks(to) /\ to <= Chunks(to) * ChunkSize
      BY <1>0, <1>1, ChunksBound
    <2> QED
      BY <1>2, <2>1 DEF Done
  <1>7. Inv(n, r)
    BY <1>5 DEF P
  <1> HIDE DEF n
  <1>8. /\ Holds(st, r.of, r.of.dirty, Overlaid(text, from, to, tag))
        /\ r.of.total = (IF of.total >= to THEN of.total ELSE to)
        /\ r.of.head = of.head
        /\ ~r.of.metaDirty => ~of.metaDirty /\ r.of.map = of.map /\ r.of.total = of.total
    BY <1>2, <1>6, <1>7
  <1>9. r.of.total = Len(Overlaid(text, from, to, tag))
    BY <1>0, <1>8, OverlaidIs DEF Full
  <1>10. Fresh(st, r.of, ids)
    BY <1>8 DEF Full, Fresh
  <1> QED
    BY <1>8, <1>9, <1>10 DEF Full

-----------------------------------------------------------------------------
(* Chunks written back hold what they held in memory.                        *)

LEMMA HoldsMore ==
    ASSUME NEW st, NEW of, NEW D, NEW E, D \subseteq E, NEW text, Holds(st, of, D, text)
    PROVE  Holds(st, of, E, text)
  BY DEF Holds, Has

(* The slot of chunk ci, old or new, holds the chunk; the others are as they *)
(* were.                                                                     *)
Replaced(st, of, ci, w) ==
    /\ ci >= 1 /\ ci \in DOMAIN of.cache /\ ci + 1 \in 1..Len(of.map)
    /\ w.of.head = of.head /\ w.of.cache = of.cache /\ Len(w.of.map) = Len(of.map)
    /\ w.of.map[ci + 1] # None /\ w.st.node[w.of.map[ci + 1]].data = of.cache[ci]
    /\ w.st.node[of.head] = st.node[of.head]
    /\ \A j \in 1..Len(of.map) :
          j # ci + 1 =>
             /\ w.of.map[j] = of.map[j]
             /\ of.map[j] # None => w.st.node[of.map[j]] = st.node[of.map[j]]

LEMMA ReplacedHas ==
    ASSUME NEW st, NEW of, NEW ci \in Nat, NEW w, Replaced(st, of, ci, w), NEW D,
           NEW k \in Nat, NEW text, Has(st, of, D, k, text)
    PROVE  Has(w.st, w.of, D \ {ci}, k, text)
  <1>1. CASE k = ci
    <2>1. Shows(of.cache[ci], ci, text)
      BY <1>1 DEF Has, Replaced
    <2>2. Saved(w.st, w.of.head, w.of.map, k, text)
      BY <1>1, <2>1 DEF Saved, Replaced
    <2> QED
      BY <1>1, <2>1, <2>2 DEF Has, Replaced
  <1>2. CASE k # ci
    <2>1. k + 1 # ci + 1
      BY <1>2
    <2>2. Saved(st, of.head, of.map, k, text) => Saved(w.st, w.of.head, w.of.map, k, text)
      <3>1. CASE k = 0
        BY <3>1 DEF Saved, Replaced
      <3>2. CASE k # 0
        BY <2>1, <3>2 DEF Saved, Replaced
      <3> QED
        BY <3>1, <3>2
    <2>3. w.of.cache = of.cache /\ Len(w.of.map) = Len(of.map)
      BY DEF Replaced
    <2> QED
      BY <1>2, <2>2, <2>3 DEF Has
  <1> QED
    BY <1>1, <1>2

LEMMA WriteBackReplaces ==
    ASSUME NEW st \in Stores, NEW of \in OpenFiles, NEW ci \in Numbers,
           NEW B, NEW ids, Held(st, of, B, ids), NEW w, w = WriteBack(st, of, ci),
           WroteOver(st, of, ci, w) \/ WroteNew(st, of, ci, w)
    PROVE  Replaced(st, of, ci, w)
  <1> DEFINE O == ({of.head} \union B) \union Mapped(of.map)
             node == FileDataBlock(of.cache[ci])
             i == ci + 1
  <1>1. /\ w.of.head = of.head /\ w.of.cache = of.cache /\ Len(w.of.map) = Len(of.map)
        /\ ci \in Nat /\ ci >= 1 /\ Len(of.map) \in Nat /\ of.map \in Seq(Link)
    BY WriteBackKeeps, Fields, Sizes DEF Numbers
  <1>2. /\ of.head \in Slots /\ of.head # None /\ B \subseteq Slots
        /\ of.head \notin Mapped(of.map) /\ Mapped(of.map) \subseteq Slots
    BY HeldIs
  <1>3. Owner(st, O) /\ Apart(of.map)
    BY DEF Held
  <1>4. node.data = of.cache[ci]
    BY BlockFields
  <1>5. \A j \in 1..Len(of.map) : of.map[j] # None => of.map[j] \in Mapped(of.map)
    BY DEF Mapped
  <1>6. CASE WroteOver(st, of, ci, w)
    <2> DEFINE s == of.map[i]
    <2>1. /\ ci \in DOMAIN of.cache /\ i \in 1..Len(of.map) /\ s # None
          /\ w.of = of /\ w.st = Updated(st, s, node)
      BY <1>6 DEF WroteOver
    <2>2. s \in Mapped(of.map) /\ s \in Slots
      BY <1>2, <1>5, <2>1
    <2>3. \A j \in 1..Len(of.map) : j # i /\ of.map[j] # None => of.map[j] # s
      BY <1>3, <2>1 DEF Apart
    <2> HIDE DEF s, node, i, O
    <2>4. w.st.node[s] = node /\ SameNodes(w.st, st, Slots \ {s})
      BY <1>3, <2>1, <2>2, OwnerUpdated
    <2>5. w.st.node[of.head] = st.node[of.head]
      BY <1>2, <2>2, <2>4 DEF SameNodes
    <2>6. \A j \in 1..Len(of.map) :
             j # i /\ of.map[j] # None => w.st.node[of.map[j]] = st.node[of.map[j]]
      BY <1>2, <1>5, <2>3, <2>4 DEF SameNodes
    <2>7. w.of.map[i] = s
      BY <2>1 DEF s
    <2> QED
      BY <1>1, <1>4, <2>1, <2>4, <2>5, <2>6, <2>7 DEF Replaced, i
  <1>7. CASE WroteNew(st, of, ci, w)
    <2> DEFINE s == NextFree(st)
    <2>1. /\ ci \in DOMAIN of.cache /\ i \in 1..Len(of.map) /\ of.map[i] = None /\ HasSpace(st)
          /\ w.st = Written(st, node) /\ w.of.map = [of.map EXCEPT ![i] = s]
      BY <1>7 DEF WroteNew
    <2> HIDE DEF node, i, O
    <2>2. /\ s \in Slots /\ s \notin O /\ w.st.node[s] = node
          /\ SameNodes(w.st, st, Slots \ {s})
      <3>1. Owner(st, O) /\ HasSpace(st) /\ w.st = Written(st, node)
        BY <1>3, <2>1
      <3>2. /\ NextFree(st) \in Slots /\ NextFree(st) \notin O
            /\ Written(st, node).node[NextFree(st)] = node
            /\ SameNodes(Written(st, node), st, Slots \ {NextFree(st)})
        BY <3>1, OwnerWritten
      <3> QED
        BY <3>1, <3>2
    <2> HIDE DEF s
    <2>3. s # of.head /\ s \notin Mapped(of.map) /\ s # None
      BY <2>2, SlotNumbers DEF O
    <2>4. w.of.map[i] = s /\ \A j \in 1..Len(of.map) : j # i => w.of.map[j] = of.map[j]
      BY <1>1, <2>1
    <2>5. w.st.node[of.head] = st.node[of.head]
      BY <1>2, <2>2, <2>3 DEF SameNodes
    <2>6. \A j \in 1..Len(of.map) :
             j # i /\ of.map[j] # None => w.st.node[of.map[j]] = st.node[of.map[j]]
      BY <1>2, <1>5, <2>2, <2>3 DEF SameNodes
    <2> QED
      BY <1>1, <1>4, <2>1, <2>2, <2>3, <2>4, <2>5, <2>6 DEF Replaced, i
  <1> QED
    BY <1>6, <1>7

LEMMA WriteBackHolds ==
    ASSUME NEW st \in Stores, NEW of \in OpenFiles, NEW ci \in Numbers,
           NEW B, NEW ids, Held(st, of, B, ids), Fresh(st, of, ids),
           NEW D, NEW text, Holds(st, of, D, text)
    PROVE  LET w == WriteBack(st, of, ci)
           IN  /\ Holds(w.st, w.of, D, text) /\ Fresh(w.st, w.of, ids)
               /\ w.ok => Holds(w.st, w.of, D \ {ci}, text)
  <1> DEFINE w == WriteBack(st, of, ci)
  <1>1. \/ WroteNothing(st, of, w) /\ (w.ok => ci \notin DOMAIN of.cache \/ ci >= Len(of.map))
        \/ WroteOver(st, of, ci, w) \/ WroteNew(st, of, ci, w)
    BY WriteBackIs
  <1>2. ci \in Nat /\ Len(of.map) \in Nat
    BY Fields DEF Numbers
  <1>3. WroteOver(st, of, ci, w) \/ WroteNew(st, of, ci, w) => Replaced(st, of, ci, w)
    BY WriteBackReplaces
  <1>4. w.of.head = of.head /\ w.of.total = of.total
    BY WriteBackKeeps
  <1> HIDE DEF w
  <1>5. CASE WroteNothing(st, of, w) /\ (w.ok => ci \notin DOMAIN of.cache \/ ci >= Len(of.map))
    <2>1. w.st = st /\ w.of = of
      BY <1>5 DEF WroteNothing
    <2>2. ASSUME w.ok, NEW k \in Nat, Has(st, of, D, k, text)
          PROVE  Has(st, of, D \ {ci}, k, text)
      BY <1>2, <1>5, <2>2 DEF Has
    <2>3. w.ok => Holds(st, of, D \ {ci}, text)
      BY <2>2 DEF Holds
    <2> QED
      BY <2>1, <2>3 DEF w
  <1>6. CASE WroteOver(st, of, ci, w) \/ WroteNew(st, of, ci, w)
    <2>1. Replaced(st, of, ci, w)
      BY <1>3, <1>6
    <2>2. Holds(w.st, w.of, D \ {ci}, text)
      BY <1>2, <2>1, ReplacedHas DEF Holds
    <2>3. Holds(w.st, w.of, D, text)
      BY <2>2, HoldsMore
    <2>4. Fresh(w.st, w.of, ids)
      <3>1. CASE WroteOver(st, of, ci, w)
        <4>1. w.of = of /\ w.st.node[of.head] = st.node[of.head]
          BY <2>1, <3>1 DEF WroteOver, Replaced
        <4> QED
          BY <4>1 DEF Fresh
      <3>2. CASE WroteNew(st, of, ci, w)
        BY <3>2 DEF WroteNew, Fresh
      <3> QED
        BY <1>6, <3>1, <3>2
    <2> QED
      BY <2>2, <2>3, <2>4 DEF w
  <1> QED
    BY <1>1, <1>5, <1>6

LEMMA DroppedHolds ==
    ASSUME NEW st, NEW of \in OpenFiles, NEW ci, NEW text, Holds(st, of, of.dirty \ {ci}, text)
    PROVE  Holds(st, Dropped(of, ci), Dropped(of, ci).dirty, text)
  <1> DEFINE d == Dropped(of, ci)
  <1>1. d.head = of.head /\ d.map = of.map
    BY DroppedKeeps
  <1>2. CASE ci \in DOMAIN of.cache /\ ci < Len(of.map)
    <2>1. d.dirty = of.dirty \ {ci} /\ d.cache = Restrict(of.cache, DOMAIN of.cache \ {ci})
      BY <1>2, DroppedKeeps
    <2>2. /\ DOMAIN d.cache = DOMAIN of.cache \ {ci}
          /\ \A k \in DOMAIN d.cache : d.cache[k] = of.cache[k]
      BY <2>1 DEF Restrict
    <2> HIDE DEF d
    <2>3. Holds(st, d, d.dirty, text)
      BY <1>1, <2>1, <2>2 DEF Holds, Has
    <2> QED
      BY <2>3 DEF d
  <1>3. CASE ~(ci \in DOMAIN of.cache /\ ci < Len(of.map))
    <2>1. d = of
      BY <1>3, DroppedKeeps
    <2>2. Holds(st, of, of.dirty, text)
      BY HoldsMore
    <2> QED
      BY <2>1, <2>2
  <1> QED
    BY <1>2, <1>3

LEMMA WriteBackFull ==
    ASSUME NEW st \in Stores, NEW of \in OpenFiles, NEW ci \in Numbers,
           NEW B, NEW ids, Held(st, of, B, ids), NEW text, Full(st, of, ids, text),
           WriteBack(st, of, ci).ok
    PROVE  Full(WriteBack(st, of, ci).st, Dropped(WriteBack(st, of, ci).of, ci), ids, text)
  <1> DEFINE w == WriteBack(st, of, ci)
             d == Dropped(w.of, ci)
  <1>1. of.total = Len(text) /\ Holds(st, of, of.dirty, text) /\ Fresh(st, of, ids)
    BY DEF Full
  <1>2. Fresh(w.st, w.of, ids) /\ Holds(w.st, w.of, of.dirty \ {ci}, text)
    BY <1>1, WriteBackHolds
  <1>3. /\ w.of \in OpenFiles /\ w.of.dirty = of.dirty
        /\ w.of.head = of.head /\ w.of.total = of.total
    BY WriteBackKeeps DEF Results
  <1> HIDE DEF w
  <1>4. Holds(w.st, w.of, w.of.dirty \ {ci}, text)
    BY <1>2, <1>3
  <1>5. Holds(w.st, d, d.dirty, text)
    BY <1>3, <1>4, DroppedHolds
  <1>6. d.head = w.of.head /\ d.total = w.of.total /\ d.map = w.of.map /\ d.metaDirty = w.of.metaDirty
    BY <1>3, DroppedKeeps
  <1> HIDE DEF d
  <1>7. Fresh(w.st, d, ids)
    BY <1>2, <1>6 DEF Fresh
  <1> QED
    BY <1>1, <1>3, <1>5, <1>6, <1>7 DEF Full, w, d

LEMMA SpillFull ==
    ASSUME NEW st \in Stores, NEW of \in OpenFiles, NEW order \in Seq(Numbers),
           NEW k \in 0..Len(order), NEW B, NEW ids, Held(st, of, B, ids),
           NEW text, Full(st, of, ids, text), SpillRun(order, st, of, k).ok
    PROVE  Full(SpillRun(order, st, of, k).st, SpillRun(order, st, of, k).of, ids, text)
  <1> DEFINE Inv(q) == Held(q.st, q.of, B, ids) /\ (q.ok => Full(q.st, q.of, ids, text))
             P == {p \in Nat \X Results : Inv(p[2])}
  <1>1. <<0, RunStart(st, of)>> \in P
    BY DEF RunStart, Results
  <1>2. ASSUME NEW i \in 1..k, NEW q \in Results, q.st \in Stores, q.of \in OpenFiles,
               order[i] \in Numbers, <<i - 1, q>> \in P
        PROVE  <<i, SpillNext(order, i, q)>> \in P
    <2> DEFINE w == WriteBack(q.st, q.of, order[i])
               d == Dropped(w.of, order[i])
    <2>1. Inv(q) /\ i \in Nat
      BY <1>2
    <2>2. w \in Results /\ w.st \in Stores /\ w.of \in OpenFiles
      BY <1>2, WriteBackKeeps DEF Results
    <2>3. Held(w.st, w.of, B, ids)
      BY <1>2, <2>1, WriteBackHeld
    <2>4. q.ok /\ w.ok => Full(w.st, d, ids, text)
      BY <1>2, <2>1, WriteBackFull
    <2> HIDE DEF w
    <2>5. SpillNext(order, i, q) = IF ~q.ok THEN q ELSE IF ~w.ok THEN w ELSE [w EXCEPT !.of = d]
      BY DEF SpillNext, w
    <2>6. /\ d \in OpenFiles /\ d.map = w.of.map /\ d.head = w.of.head /\ d.chain = w.of.chain
          /\ d.metaDirty = w.of.metaDirty
      BY <2>2, DroppedKeeps
    <2> HIDE DEF d
    <2>7. Held(w.st, d, B, ids)
      BY <2>2, <2>3, <2>6, HeldSame
    <2>8. [w EXCEPT !.of = d] \in Results /\ [w EXCEPT !.of = d].st = w.st
          /\ [w EXCEPT !.of = d].of = d /\ [w EXCEPT !.of = d].ok = w.ok
      BY <2>2, <2>6 DEF Results
    <2>9. SpillNext(order, i, q) \in Results /\ Inv(SpillNext(order, i, q))
      BY <1>2, <2>1, <2>2, <2>3, <2>4, <2>5, <2>7, <2>8
    <2> QED
      BY <2>1, <2>9
  <1> HIDE DEF P
  <1>3. <<k, SpillRun(order, st, of, k)>> \in P
    BY <1>1, <1>2, SpillInduction
  <1> QED
    BY <1>3 DEF P

LEMMA WriteRequestFull ==
    ASSUME NEW st \in Stores, NEW of \in OpenFiles, NEW from \in 0..MaxSize,
           NEW to \in 0..MaxSize, from < to, NEW tag \in Byte,
           NEW B, NEW ids, Held(st, of, B, ids),
           NEW text \in Seq(Byte), Full(st, of, ids, text), from <= Len(text),
           NEW r \in WriteRequest(st, of, from, to, tag), r.ok
    PROVE  Full(r.st, r.of, ids, Overlaid(text, from, to, tag))
  <1> DEFINE next == Overlaid(text, from, to, tag)
  <1>1. PICK w \in WriteChunks(st, of, from, to, tag) :
           /\ w.ok /\ w \in Reached /\ w.of \in OpenFiles
           /\ \/ r = RunStart(st, w.of)
              \/ \E order \in SetToSeqs(Continuation(w.of)) : \E k \in Nat :
                    /\ order \in Seq(Numbers) /\ k \in 0..Len(order)
                    /\ r = SpillRun(order, st, w.of, k)
    BY WriteRequestIs
  <1>2. Held(st, w.of, B, ids) /\ Full(st, w.of, ids, next)
    BY <1>1, WriteChunksHeld, WriteChunksFull
  <1> HIDE DEF next
  <1>3. CASE r = RunStart(st, w.of)
    BY <1>2, <1>3 DEF RunStart, next
  <1>4. CASE r # RunStart(st, w.of)
    <2>1. PICK order \in SetToSeqs(Continuation(w.of)) : \E k \in Nat :
             /\ order \in Seq(Numbers) /\ k \in 0..Len(order)
             /\ r = SpillRun(order, st, w.of, k)
      BY <1>1, <1>4
    <2>2. PICK k \in Nat :
             /\ order \in Seq(Numbers) /\ k \in 0..Len(order)
             /\ r = SpillRun(order, st, w.of, k)
      BY <2>1
    <2>3. Full(r.st, r.of, ids, next)
      BY <1>1, <1>2, <2>2, SpillFull
    <2> QED
      BY <2>3 DEF next
  <1> QED
    BY <1>3, <1>4

(* Step 1 of flush_fh saves every chunk but the first. *)
LEMMA FlushRunFull ==
    ASSUME NEW st \in Stores, NEW of \in OpenFiles, NEW order \in SetToSeqs(Continuation(of)),
           NEW B, NEW ids, Held(st, of, B, ids), NEW text, Full(st, of, ids, text),
           FlushRun(order, st, of).ok
    PROVE  LET w == FlushRun(order, st, of)
           IN  /\ w.of.total = Len(text) /\ Fresh(w.st, w.of, ids)
               /\ Holds(w.st, w.of, of.dirty \intersect {0}, text)
  <1> DEFINE n == Len(order)
             Left(i) == of.dirty \ {order[j] : j \in 1..i}
             Inv(i, q) ==
                /\ Held(q.st, q.of, B, ids)
                /\ q.ok => Fresh(q.st, q.of, ids) /\ Holds(q.st, q.of, Left(i), text)
             P == {p \in Nat \X Results : Inv(p[1], p[2])}
  <1>0. order \in Seq(Numbers)
    BY FlushOrderTyped
  <1>1. <<0, RunStart(st, of)>> \in P
    <2>1. Left(0) = of.dirty
      OBVIOUS
    <2> HIDE DEF Left
    <2> QED
      BY <2>1 DEF RunStart, Results, Full
  <1>2. ASSUME NEW i \in 1..n, NEW q \in Results, q.st \in Stores, q.of \in OpenFiles,
               order[i] \in Numbers, <<i - 1, q>> \in P
        PROVE  <<i, FlushNext(order, i, q)>> \in P
    <2> DEFINE w == WriteBack(q.st, q.of, order[i])
    <2>1. Inv(i - 1, q) /\ i \in Nat
      <3> HIDE DEF Left
      <3>1. Inv(i - 1, q)
        <4> HIDE DEF Inv
        <4>1. Inv(<<i - 1, q>>[1], <<i - 1, q>>[2])
          BY <1>2
        <4> QED
          BY <4>1
      <3> QED
        BY <1>0, <3>1
    <2>2. w \in Results
      BY <1>2, WriteBackKeeps
    <2>3. Held(w.st, w.of, B, ids)
      BY <1>2, <2>1, WriteBackHeld
    <2>4. Left(i - 1) \ {order[i]} \subseteq Left(i)
      <3>1. \A j \in 1..i : j \in 1..(i - 1) \/ j = i
        BY <2>1
      <3> QED
        BY <3>1
    <2> DEFINE D == Left(i - 1)
               E == Left(i)
    <2> HIDE DEF Left
    <2>5. q.ok /\ w.ok => Fresh(w.st, w.of, ids) /\ Holds(w.st, w.of, D \ {order[i]}, text)
      <3>1. q.ok => Fresh(q.st, q.of, ids) /\ Holds(q.st, q.of, D, text)
        BY <2>1
      <3>2. Held(q.st, q.of, B, ids)
        BY <2>1
      <3> HIDE DEF D
      <3> QED
        BY <1>2, <3>1, <3>2, WriteBackHolds
    <2>6. q.ok /\ w.ok => Fresh(w.st, w.of, ids) /\ Holds(w.st, w.of, E, text)
      <3> HIDE DEF D, E, w
      <3>1. D \ {order[i]} \subseteq E
        BY <2>4 DEF D, E
      <3> QED
        BY <2>5, <3>1, HoldsMore
    <2> HIDE DEF w
    <2>7. FlushNext(order, i, q) = IF q.ok THEN w ELSE q
      BY DEF FlushNext, w
    <2>8. FlushNext(order, i, q) \in Results /\ Inv(i, FlushNext(order, i, q))
      BY <1>2, <2>1, <2>2, <2>3, <2>6, <2>7
    <2> QED
      BY <2>1, <2>8
  <1> HIDE DEF P
  <1>3. <<n, FlushRun(order, st, of)>> \in P
    BY <1>0, <1>1, <1>2, FlushInduction
  <1> DEFINE w == FlushRun(order, st, of)
  <1>4. Inv(n, w)
    BY <1>3 DEF P
  <1>5. Left(n) \subseteq of.dirty \intersect {0}
    <2>1. IsFiniteSet(Continuation(of)) /\ of.dirty \subseteq 0..MaxSize
      BY Fields, ContinuationFinite
    <2>2. \A x \in Continuation(of) : \E j \in 1..n : order[j] = x
      BY <2>1, OrderIs
    <2>3. \A x \in of.dirty : x = 0 \/ x \in Continuation(of)
      BY <2>1, Sizes DEF Continuation
    <2> QED
      BY <2>2, <2>3
  <1>6. w.of.total = of.total
    BY <1>0, FlushRunKeeps
  <1> DEFINE L == Left(n)
  <1> HIDE DEF Left, w
  <1>7. Fresh(w.st, w.of, ids) /\ Holds(w.st, w.of, L, text)
    BY <1>4 DEF w
  <1>8. L \subseteq of.dirty \intersect {0}
    BY <1>5
  <1> HIDE DEF L
  <1>9. Holds(w.st, w.of, of.dirty \intersect {0}, text)
    BY <1>7, <1>8, HoldsMore
  <1> QED
    BY <1>6, <1>7, <1>9 DEF Full, w

-----------------------------------------------------------------------------
(* Steps 2 and 3 of flush_fh.                                                *)

LEMMA SavedSame ==
    ASSUME NEW st, NEW n, NEW map, NEW k \in Nat, NEW text, Saved(st, n, map, k, text),
           NEW new, NEW next, new.node[n] = st.node[n],
           k # 0 => /\ k + 1 \in 1..Len(next) /\ next[k + 1] = map[k + 1]
                    /\ map[k + 1] # None => new.node[map[k + 1]] = st.node[map[k + 1]]
    PROVE  Saved(new, n, next, k, text)
  <1>1. CASE k = 0
    BY <1>1 DEF Saved
  <1>2. CASE k # 0
    BY <1>2 DEF Saved
  <1> QED
    BY <1>1, <1>2

LEMMA CutSame ==
    ASSUME NEW st \in Stores, NEW of \in OpenFiles, NEW B, NEW ids, Held(st, of, B, ids)
    PROVE  /\ Cut(st, of).st.node[of.head] = st.node[of.head]
           /\ \A s \in Mapped(Cut(st, of).of.map) : Cut(st, of).st.node[s] = st.node[s]
  <1> DEFINE c == Cut(st, of)
             k == Kept(of.total)
             low == SubSeq(of.map, 1, k)
             high == SubSeq(of.map, k + 1, Len(of.map))
             O == ({of.head} \union B) \union Mapped(of.map)
  <1>1. /\ Len(of.map) <= k => c.st = st /\ c.of = of
        /\ Len(of.map) > k =>
              c.st = FreedAll(st, Present(high)) /\ c.of.map = low
    BY CutIs
  <1>2. of.map \in Seq(Link) /\ Len(of.map) \in Nat /\ of.total \in Nat
    BY Fields, Sizes
  <1>3. k \in Nat /\ k >= 1
    BY <1>2, KeptIs
  <1>4. of.head \in Slots /\ of.head \notin Mapped(of.map) /\ Mapped(of.map) \subseteq Slots
    BY HeldIs
  <1>5. Owner(st, O) /\ Apart(of.map)
    BY DEF Held
  <1> HIDE DEF c, k
  <1>6. CASE Len(of.map) <= k
    BY <1>1, <1>6 DEF c
  <1>7. CASE ~(Len(of.map) <= k)
    <2>1. k \in 0..Len(of.map) /\ Len(of.map) > k
      BY <1>2, <1>3, <1>7
    <2>2. /\ low \in Seq(Link) /\ high \in Seq(Link)
          /\ Mapped(of.map) = Mapped(low) \union Mapped(high)
          /\ Apart(high) /\ Mapped(low) \intersect Mapped(high) = {}
      BY <1>2, <1>5, <2>1, MappedCut
    <2> HIDE DEF low, high, O
    <2>3. Present(high) \in Seq(Slots) /\ Members(Present(high)) = Mapped(high)
          /\ Distinct(Present(high))
      BY <2>2, PresentIs
    <2>4. Members(Present(high)) \subseteq O
      BY <2>2, <2>3 DEF O
    <2>5. SameNodes(FreedAll(st, Present(high)), st, Slots \ Members(Present(high)))
      BY <1>5, <2>3, <2>4, OwnerFreedAll
    <2>6. SameNodes(c.st, st, Slots \ Mapped(high)) /\ c.of.map = low
      BY <1>1, <2>1, <2>3, <2>5
    <2>7. c.st.node[of.head] = st.node[of.head]
          /\ \A s \in Mapped(c.of.map) : c.st.node[s] = st.node[s]
      BY <1>4, <2>2, <2>6 DEF SameNodes
    <2> QED
      BY <2>7 DEF c
  <1> QED
    BY <1>6, <1>7

LEMMA CutHolds ==
    ASSUME NEW st \in Stores, NEW of \in OpenFiles, NEW B, NEW ids, Held(st, of, B, ids),
           NEW D, NEW text, of.total = Len(text), Holds(st, of, D, text)
    PROVE  Holds(Cut(st, of).st, Cut(st, of).of, D, text)
  <1> DEFINE c == Cut(st, of)
             m == Kept(of.total)
  <1>1. /\ c.of.head = of.head /\ c.of.cache = of.cache
        /\ Len(of.map) <= m => c.st = st /\ c.of = of
        /\ Len(of.map) > m => c.of.map = SubSeq(of.map, 1, m)
    BY CutIs
  <1>2. /\ c.st.node[of.head] = st.node[of.head]
        /\ \A s \in Mapped(c.of.map) : c.st.node[s] = st.node[s]
    BY CutSame
  <1>3. of.map \in Seq(Link) /\ Len(of.map) \in Nat /\ of.total \in Nat
    BY Fields, Sizes
  <1>4. /\ m \in Nat /\ m >= 1 /\ Chunks(of.total) \in Nat
        /\ m = (IF Chunks(of.total) >= 1 THEN Chunks(of.total) ELSE 1)
        /\ \A ci \in Nat : ci < Chunks(of.total) <=> ci * ChunkSize < of.total
    BY <1>3, KeptIs, ChunksBound
  <1> HIDE DEF c, m
  <1> SUFFICES ASSUME ~(Len(of.map) <= m) PROVE Holds(c.st, c.of, D, text)
    BY <1>1 DEF c
  <1>5. Len(of.map) > m /\ m \in 0..Len(of.map)
    BY <1>3, <1>4
  <1>6. Len(c.of.map) = m /\ \A i \in 1..m : c.of.map[i] = of.map[i]
    BY <1>1, <1>3, <1>5, Split
  <1> SUFFICES ASSUME NEW k \in Nat, k * ChunkSize < Len(text) PROVE Has(c.st, c.of, D, k, text)
    BY DEF Holds
  <1>7. Has(st, of, D, k, text)
    BY DEF Holds
  <1>8. k < m /\ k + 1 \in 1..m /\ k + 1 \in 1..Len(c.of.map) /\ c.of.map[k + 1] = of.map[k + 1]
    <2>1. k < Chunks(of.total)
      BY <1>4
    <2> QED
      BY <1>4, <1>6, <2>1
  <1>9. of.map[k + 1] # None => c.st.node[of.map[k + 1]] = st.node[of.map[k + 1]]
    BY <1>2, <1>8 DEF Mapped
  <1>10. ASSUME Saved(st, of.head, of.map, k, text) PROVE Saved(c.st, c.of.head, c.of.map, k, text)
    <2> DEFINE n == of.head
               map == of.map
               new == c.st
               next == c.of.map
    <2>1. Saved(st, n, map, k, text) /\ new.node[n] = st.node[n] /\ c.of.head = n
      BY <1>1, <1>2, <1>10
    <2>2. /\ k + 1 \in 1..Len(next) /\ next[k + 1] = map[k + 1]
          /\ map[k + 1] # None => new.node[map[k + 1]] = st.node[map[k + 1]]
      BY <1>8, <1>9
    <2> HIDE DEF n, map, new, next
    <2>3. Saved(new, n, next, k, text)
      BY <2>1, <2>2, SavedSame
    <2> QED
      BY <2>1, <2>3 DEF new, next
  <1> QED
    BY <1>1, <1>6, <1>7, <1>8, <1>10 DEF Has

(* A map without gaps. *)
LEMMA PresentFull ==
    ASSUME NEW map \in Seq(Link), \A i \in 1..Len(map) : map[i] # None
    PROVE  Present(map) = map
  <1>1. PICK f \in [0..Len(map) -> Seq(Slots)] :
              /\ f[0] = <<>>
              /\ \A i \in 1..Len(map) : f[i] = Keep(map[i], f[i - 1])
              /\ Present(map) = f[Len(map)] /\ Present(map) \in Seq(Slots)
    BY PresentKept
  <1> DEFINE k == Len(map)
             Like(i, ids) == Len(ids) = i /\ \A j \in 1..i : ids[j] = map[j]
             Q == {i \in 0..k : Like(i, f[i])}
  <1>2. k \in Nat
    OBVIOUS
  <1>3. 0 \in Q
    BY <1>1, <1>2
  <1>4. ASSUME NEW i \in 1..k, i - 1 \in Q PROVE i \in Q
    <2> DEFINE ids == f[i - 1]
    <2>1. i \in Nat /\ i - 1 \in 0..k /\ i \in 1..Len(map) /\ Like(i - 1, f[i - 1])
      BY <1>2, <1>4
    <2>2. ids \in Seq(Slots)
      BY <1>1, <2>1
    <2>3. f[i] = Keep(map[i], ids) /\ map[i] # None
      BY <1>1, <2>1
    <2>4. f[i] = Append(ids, map[i])
      BY <2>3 DEF Keep
    <2>5. Like(i - 1, ids) /\ map[i] \in Slots
      BY <2>1, <2>3 DEF Link
    <2> HIDE DEF ids
    <2>6. Len(Append(ids, map[i])) = i /\ \A j \in 1..i : Append(ids, map[i])[j] = map[j]
      BY <2>1, <2>2, <2>5
    <2> QED
      BY <1>2, <2>1, <2>4, <2>6
  <1> HIDE DEF Q
  <1>5. \A i \in 0..k : i \in Q
    BY <1>2, <1>3, <1>4, Induction
  <1>6. Like(k, f[k])
    BY <1>2, <1>5 DEF Q
  <1> QED
    BY <1>1, <1>6, SameSequence

LEMMA HoldsLike ==
    ASSUME NEW st, NEW of, NEW D, NEW text, Holds(st, of, D, text), NEW next,
           next.head = of.head, next.map = of.map, next.cache = of.cache
    PROVE  Holds(st, next, D, text)
  <1> SUFFICES ASSUME NEW k \in Nat, k * ChunkSize < Len(text) PROVE Has(st, next, D, k, text)
    BY DEF Holds
  <1>1. Has(st, of, D, k, text)
    BY DEF Holds
  <1> QED
    BY <1>1 DEF Has

(* What the new head holds of the file. *)
LEMMA HeadShows ==
    ASSUME NEW st \in Stores, NEW of \in OpenFiles, st.node[of.head].kind = "file",
           NEW D, NEW text \in Seq(Byte), of.total = Len(text), 0 < Len(text),
           Holds(st, of, D, text), D \subseteq {0}
    PROVE  Shows(HeadData(st, of), 0, text)
  <1>1. Has(st, of, D, 0, text) /\ 0 * ChunkSize = 0
    <2>1. 0 * ChunkSize = 0
      BY Sizes
    <2> QED
      BY <2>1 DEF Holds
  <1>2. CASE 0 \notin DOMAIN of.cache
    <2>1. Saved(st, of.head, of.map, 0, text)
      BY <1>1, <1>2 DEF Has
    <2>2. Shows(st.node[of.head].data, 0, text)
      BY <2>1 DEF Saved
    <2>3. HeadData(st, of) = st.node[of.head].data
      BY <1>2, HeadDataIs
    <2> QED
      BY <2>2, <2>3
  <1>3. CASE 0 \in DOMAIN of.cache
    <2> DEFINE data == of.cache[0]
               new == HeadData(st, of)
               n == ChunkLength(0, of.total)
    <2>1. Shows(data, 0, text)
      BY <1>1, <1>3 DEF Has
    <2>2. of.total # 0
      BY SequenceFacts
    <2>3. /\ Len(new) = (IF Len(data) <= n THEN Len(data) ELSE n)
          /\ \A i \in 1..Len(new) : new[i] = data[i]
      BY <1>3, <2>2, HeadDataIs
    <2>4. of.total \in Nat /\ of.total = Len(text) /\ 0 * ChunkSize < of.total
      BY <1>1, SequenceFacts
    <2>5. n \in Nat /\ n = IF of.total - 0 * ChunkSize <= ChunkSize THEN of.total - 0 * ChunkSize ELSE ChunkSize
      BY <2>4, ChunkLengthIs
    <2>6. Len(data) \in Nat /\ ChunkSize \in Nat
      BY <1>3, Sizes, Fields, CacheFields, ChunkFields
    <2> HIDE DEF data, new, n
    <2> SUFFICES ASSUME NEW k \in 1..ChunkSize, 0 * ChunkSize + k <= Len(text)
                 PROVE  k <= Len(new) /\ new[k] = text[0 * ChunkSize + k]
      BY DEF Shows, new
    <2>7. k <= Len(data) /\ data[k] = text[0 * ChunkSize + k]
      BY <2>1 DEF Shows
    <2>8. k \in Nat /\ k >= 1 /\ k <= ChunkSize /\ k <= of.total
      BY <1>1, <2>4, <2>6
    <2>9. k <= n
      BY <1>1, <2>4, <2>5, <2>6, <2>8
    <2>10. k <= Len(new) /\ k \in 1..Len(new)
      BY <2>3, <2>5, <2>6, <2>7, <2>8, <2>9
    <2> QED
      BY <2>3, <2>7, <2>10
  <1> QED
    BY <1>2, <1>3

LEMMA FlushHeadHolds ==
    ASSUME NEW st \in Stores, NEW of \in OpenFiles, NEW B, Trimmed(st, of, B),
           FlushHead(st, of).ok, NEW D, D \subseteq {0},
           NEW text \in Seq(Byte), of.total = Len(text), Holds(st, of, D, text)
    PROVE  LET f == FlushHead(st, of)
           IN  /\ Holds(f.st, f.of, {}, text) /\ f.st.node[of.head].total = of.total
               /\ f.of.head = of.head /\ f.of.total = of.total /\ f.of.map = of.map
               /\ f.of.cache = of.cache
  <1> DEFINE f == FlushHead(st, of)
             n == of.head
             map == of.map
  <1>1. f.of = [of EXCEPT !.chain = Rewritten(st, of).chain]
    BY FlushHeadIs
  <1>2. f.of.head = n /\ f.of.total = of.total /\ f.of.map = map /\ f.of.cache = of.cache
    BY <1>1 DEF OpenFiles
  <1>3. /\ \A s \in Mapped(map) : f.st.node[s] = st.node[s]
        /\ f.st.node[n] = NewHead(st, of)
    BY FlushHeadRenewed
  <1>4. f.st.node[n].total = of.total /\ f.st.node[n].data = HeadData(st, of)
    BY <1>3, BlockFields DEF NewHead
  <1>5. st.node[n].kind = "file"
    BY DEF Trimmed
  <1>6. ASSUME NEW k \in Nat, k * ChunkSize < Len(text) PROVE Has(f.st, f.of, {}, k, text)
    <2>1. Has(st, of, D, k, text)
      BY <1>6 DEF Holds
    <2>2. k < Len(map) /\ (k \in DOMAIN of.cache => Shows(of.cache[k], k, text))
      BY <2>1 DEF Has
    <2>3. CASE k = 0
      <3>1. 0 < Len(text)
        BY <1>6, <2>3, Sizes, SequenceFacts
      <3>2. Shows(f.st.node[n].data, 0, text)
        BY <1>4, <1>5, <3>1, HeadShows
      <3>3. Saved(f.st, n, map, k, text)
        BY <2>3, <3>2 DEF Saved
      <3> HIDE DEF f, n, map
      <3> QED
        BY <1>2, <2>2, <3>3 DEF Has
    <2>4. CASE k # 0
      <3>1. Saved(st, n, map, k, text)
        BY <2>1, <2>4 DEF Has
      <3>2. k + 1 \in 1..Len(map) /\ map[k + 1] # None
        BY <2>4, <3>1 DEF Saved
      <3>3. map[k + 1] \in Mapped(map)
        BY <3>2 DEF Mapped
      <3>4. f.st.node[map[k + 1]] = st.node[map[k + 1]]
        BY <1>3, <3>3
      <3>5. Shows(st.node[map[k + 1]].data, k, text)
        BY <2>4, <3>1 DEF Saved
      <3> HIDE DEF f, n, map
      <3>6. Saved(f.st, n, map, k, text)
        BY <2>4, <3>2, <3>4, <3>5 DEF Saved
      <3> QED
        BY <1>2, <2>2, <3>6 DEF Has
    <2> QED
      BY <2>3, <2>4
  <1> HIDE DEF f
  <1>7. Holds(f.st, f.of, {}, text)
    BY <1>6 DEF Holds
  <1> QED
    BY <1>2, <1>4, <1>7 DEF f

LEMMA WithoutFirst ==
    ASSUME NEW S, NEW s \in Seq(S), Len(s) >= 1
    PROVE  /\ SubSeq(s, 2, Len(s)) \in Seq(S) /\ Len(SubSeq(s, 2, Len(s))) = Len(s) - 1
           /\ \A i \in 1..(Len(s) - 1) : SubSeq(s, 2, Len(s))[i] = s[1 + i]
  <1>1. ASSUME NEW k \in 0..Len(s)
        PROVE  /\ SubSeq(s, k + 1, Len(s)) \in Seq(S) /\ Len(SubSeq(s, k + 1, Len(s))) = Len(s) - k
               /\ \A i \in 1..(Len(s) - k) : SubSeq(s, k + 1, Len(s))[i] = s[k + i]
    BY <1>1, Split
  <1>2. 1 \in 0..Len(s)
    BY SequenceFacts
  <1>3. \A k \in 0..Len(s) : k = 1 =>
           /\ SubSeq(s, 2, Len(s)) \in Seq(S) /\ Len(SubSeq(s, 2, Len(s))) = Len(s) - k
           /\ \A i \in 1..(Len(s) - k) : SubSeq(s, 2, Len(s))[i] = s[k + i]
    <2> TAKE k \in 0..Len(s)
    <2> HAVE k = 1
    <2>1. k + 1 = 2
      OBVIOUS
    <2> QED
      BY <1>1, <2>1
  <1> QED
    BY <1>2, <1>3

(* A file whose chunks are all on disk has no gap in its map. *)
LEMMA NamedGives ==
    ASSUME NEW st, NEW of \in OpenFiles, Len(of.map) <= Kept(of.total), Apart(of.map),
           NEW D, D \subseteq {0}, NEW text, of.total = Len(text), Holds(st, of, D, text)
    PROVE  \A ci \in Nat : ci >= 1 /\ ci * ChunkSize < of.total =>
              ci + 1 \in 1..Len(of.map) /\ ci \in 1..Len(Named(of)) /\ Named(of)[ci] = of.map[ci + 1]
  <1> DEFINE map == of.map
             rest == SubSeq(map, 2, Len(map))
             n == Len(map)
  <1>1. map \in Seq(Link) /\ n \in Nat /\ n >= 1 /\ of.total \in Nat
    BY Fields, Sizes
  <1>2. /\ \A ci \in Nat : ci < Chunks(of.total) <=> ci * ChunkSize < of.total
        /\ Chunks(of.total) \in Nat
        /\ Kept(of.total) = IF Chunks(of.total) >= 1 THEN Chunks(of.total) ELSE 1
    BY <1>1, ChunksBound, KeptIs
  <1>3. Named(of) = Present(rest)
    BY NamedIs
  <1>4. n <= Kept(of.total)
    OBVIOUS
  <1> HIDE DEF map
  <1>5. rest \in Seq(Link) /\ Len(rest) = n - 1 /\ \A i \in 1..(n - 1) : rest[i] = map[1 + i]
    BY <1>1, WithoutFirst
  <1> HIDE DEF rest, n
  <1>6. ASSUME NEW ci \in Nat, ci >= 1, ci * ChunkSize < of.total
        PROVE  ci + 1 \in 1..n /\ map[ci + 1] # None
    <2>1. Has(st, of, D, ci, text)
      BY <1>6 DEF Holds
    <2>2. ci \notin D /\ ci # 0
      BY <1>6
    <2>3. Saved(st, of.head, of.map, ci, text)
      BY <2>1, <2>2 DEF Has
    <2> QED
      BY <2>2, <2>3 DEF Saved, n, map
  <1>7. ASSUME NEW i \in 1..Len(rest) PROVE rest[i] # None
    <2>1. i \in Nat /\ i >= 1 /\ i <= n - 1 /\ n >= 2
      BY <1>1, <1>5
    <2>2. i < Chunks(of.total)
      BY <1>1, <1>2, <1>4, <2>1
    <2>3. i * ChunkSize < of.total
      BY <1>2, <2>1, <2>2
    <2>4. map[i + 1] # None
      BY <1>6, <2>1, <2>3
    <2> QED
      BY <1>5, <2>1, <2>4
  <1>8. Present(rest) = rest
    BY <1>5, <1>7, PresentFull
  <1>9. ASSUME NEW ci \in Nat, ci >= 1, ci * ChunkSize < of.total
        PROVE  ci + 1 \in 1..n /\ ci \in 1..Len(rest) /\ rest[ci] = map[ci + 1]
    BY <1>1, <1>5, <1>6, <1>9
  <1> QED
    BY <1>3, <1>8, <1>9 DEF n, map

(* A flush leaves the whole file on disk. *)
LEMMA FlushTailFull ==
    ASSUME NEW st \in Stores, NEW of \in OpenFiles, NEW B, NEW ids, Held(st, of, B, ids),
           FlushTail(st, of).ok, NEW text \in Seq(Byte), of.total = Len(text),
           Fresh(st, of, ids), Holds(st, of, of.dirty \intersect {0}, text)
    PROVE  \E B2, ids2 : /\ Held(FlushTail(st, of).st, FlushTail(st, of).of, B2, ids2)
                         /\ Full(FlushTail(st, of).st, FlushTail(st, of).of, ids2, text)
  <1> DEFINE c == Cut(st, of)
             t == FlushTail(st, of)
             D == of.dirty \intersect {0}
  <1>1. /\ t.of.head = of.head /\ t.of.map = c.of.map /\ ~t.of.metaDirty
        /\ t.of.total = of.total /\ t.of.cache = of.cache /\ t.of.dirty = {}
        /\ ~HeadDue(c.of) => t.st = c.st /\ t.of.chain = of.chain
    BY FlushTailKeeps
  <1>2. /\ c.st \in Stores /\ c.of \in OpenFiles
        /\ HeadDue(c.of) => /\ t.ok = FlushHead(c.st, c.of).ok
                            /\ t.st = FlushHead(c.st, c.of).st
                            /\ t.ok => t.of = Settled(FlushHead(c.st, c.of).of)
    BY FlushTailIs
  <1>3. Trimmed(c.st, c.of, B)
    BY CutHeld
  <1>4. /\ Len(of.map) <= Kept(of.total) => c.st = st /\ c.of = of
        /\ Len(of.map) > Kept(of.total) => c.of.metaDirty
        /\ c.of.head = of.head /\ c.of.total = of.total /\ c.of.cache = of.cache
    BY CutIs
  <1>5. Len(of.map) \in Nat /\ Kept(of.total) \in Nat
    BY Fields, Sizes, KeptIs
  <1>6. Holds(c.st, c.of, D, text)
    BY CutHolds
  <1>7. t.ok /\ D \subseteq {0}
    OBVIOUS
  <1> HIDE DEF c, t
  <1>8. CASE ~HeadDue(c.of)
    <2>1. ~c.of.metaDirty /\ 0 \notin c.of.dirty
      BY <1>8 DEF HeadDue
    <2>2. c.st = st /\ c.of = of
      BY <1>4, <1>5, <2>1
    <2>3. Held(t.st, t.of, B, ids)
      BY <1>1, <1>8, <2>1, <2>2, HeldSame
    <2>4. D = {}
      BY <2>1, <2>2
    <2>5. Holds(t.st, t.of, {}, text)
      <3>1. Holds(st, of, {}, text)
        BY <1>6, <2>2, <2>4
      <3> HIDE DEF D
      <3> QED
        BY <1>1, <1>8, <2>2, <3>1, HoldsLike
    <2>6. Fresh(t.st, t.of, ids)
      BY <1>1, <1>8, <2>1, <2>2 DEF Fresh
    <2> QED
      BY <1>1, <2>3, <2>5, <2>6 DEF Full, t
  <1>9. CASE HeadDue(c.of)
    <2> DEFINE f == FlushHead(c.st, c.of)
    <2>1. f.ok /\ t.st = f.st /\ t.of = Settled(f.of) /\ f \in Results
      BY <1>2, <1>7, <1>9, FlushHeadIs
    <2>2. PICK B2 : Renewed(f.st, f.of, B2, Named(c.of))
      BY <1>2, <1>3, <2>1, FlushHeadRenewed
    <2>3. /\ Holds(f.st, f.of, {}, text) /\ f.st.node[c.of.head].total = c.of.total
          /\ f.of.head = c.of.head /\ f.of.total = c.of.total /\ f.of.map = c.of.map
          /\ f.of.cache = c.of.cache
      <3> HIDE DEF D
      <3>1. c.of.total = Len(text)
        BY <1>4
      <3> QED
        BY <1>2, <1>3, <1>6, <1>7, <2>1, <3>1, FlushHeadHolds
    <2>4. \A ci \in Nat : ci >= 1 /\ ci * ChunkSize < c.of.total =>
             /\ ci + 1 \in 1..Len(c.of.map) /\ ci \in 1..Len(Named(c.of))
             /\ Named(c.of)[ci] = c.of.map[ci + 1]
      <3>1. Len(c.of.map) <= Kept(c.of.total) /\ Apart(c.of.map)
        BY <1>3 DEF Trimmed
      <3>2. c.of.total = Len(text)
        BY <1>4
      <3> HIDE DEF D
      <3> QED
        BY <1>2, <1>6, <1>7, <3>1, <3>2, NamedGives
    <2> HIDE DEF f
    <2>5. t.of.head = f.of.head /\ t.of.chain = f.of.chain /\ t.of.map = f.of.map
          /\ t.of.cache = f.of.cache
      BY <2>1 DEF Settled, Results, OpenFiles
    <2>6. Held(t.st, t.of, B2, Named(c.of))
      BY <2>1, <2>2, <2>5, RenewedHeld
    <2>7. Holds(t.st, t.of, {}, text)
      BY <2>1, <2>3, <2>5, HoldsLike
    <2>8. Fresh(t.st, t.of, Named(c.of))
      <3> DEFINE named == Named(c.of)
      <3>1. t.st.node[t.of.head].total = t.of.total
        BY <1>1, <1>4, <2>1, <2>3
      <3>2. t.of.map = c.of.map /\ t.of.total = c.of.total
        BY <1>1, <1>4
      <3> HIDE DEF named
      <3>3. \A ci \in Nat : ci >= 1 /\ ci * ChunkSize < t.of.total =>
               ci + 1 \in 1..Len(t.of.map) /\ ci \in 1..Len(named) /\ named[ci] = t.of.map[ci + 1]
        BY <2>4, <3>2 DEF named
      <3>4. Fresh(t.st, t.of, named)
        BY <3>1, <3>3 DEF Fresh
      <3> QED
        BY <3>4 DEF named
    <2>9. Full(t.st, t.of, Named(c.of), text)
      BY <1>1, <2>7, <2>8 DEF Full
    <2> QED
      BY <2>6, <2>9 DEF t
  <1> QED
    BY <1>8, <1>9

LEMMA FlushFhFull ==
    ASSUME NEW st \in Stores, NEW of \in OpenFiles, NEW B, NEW ids, Held(st, of, B, ids),
           NEW text \in Seq(Byte), Full(st, of, ids, text), NEW r \in FlushFh(st, of), r.ok
    PROVE  \E B2, ids2 : Held(r.st, r.of, B2, ids2) /\ Full(r.st, r.of, ids2, text)
  <1>1. CASE Clean(of)
    <2>1. r = RunStart(st, of)
      BY <1>1, FlushFhTyped
    <2> QED
      BY <1>1, <2>1 DEF RunStart, Clean
  <1>2. CASE ~Clean(of)
    <2>1. PICK order \in SetToSeqs(Continuation(of)) :
                    /\ order \in Seq(Numbers)
                    /\ FlushRun(order, st, of) \in Results
                    /\ FlushRun(order, st, of).ok =>
                          r = FlushTail(FlushRun(order, st, of).st, FlushRun(order, st, of).of)
                    /\ ~FlushRun(order, st, of).ok => r = FlushRun(order, st, of)
      BY <1>2, FlushFhTyped
    <2> DEFINE w == FlushRun(order, st, of)
    <2>2. w.ok /\ r = FlushTail(w.st, w.of) /\ w.st \in Stores /\ w.of \in OpenFiles
      BY <2>1 DEF Results
    <2>3. Held(w.st, w.of, B, ids)
      BY <2>1, FlushRunHeld
    <2>4. /\ w.of.total = Len(text) /\ Fresh(w.st, w.of, ids)
          /\ Holds(w.st, w.of, of.dirty \intersect {0}, text)
      BY <2>1, <2>2, FlushRunFull
    <2>5. w.of.dirty = of.dirty
      BY <2>1, FlushRunKeeps
    <2> HIDE DEF w
    <2> QED
      BY <2>2, <2>3, <2>4, <2>5, FlushTailFull
  <1> QED
    BY <1>1, <1>2

-----------------------------------------------------------------------------
(* A file that no handle is open on has its text on disk.                    *)
Restful(st, n, ids, text) ==
    /\ st.node[n].total = Len(text)
    /\ \A ci \in Nat : ci * ChunkSize < Len(text) => Saved(st, n, <<None>> \o ids, ci, text)

LEMMA MapIs ==
    ASSUME NEW ids \in Seq(Slots)
    PROVE  /\ <<None>> \o ids \in Seq(Link) /\ Len(<<None>> \o ids) = Len(ids) + 1
           /\ \A ci \in Nat : ci >= 1 => (ci + 1 \in 1..Len(<<None>> \o ids) <=> ci \in 1..Len(ids))
           /\ \A ci \in 1..Len(ids) : (<<None>> \o ids)[ci + 1] = ids[ci] /\ ids[ci] # None
  <1>1. ids \in Seq(Link) /\ <<None>> \in Seq(Link) /\ Len(<<None>>) = 1 /\ Len(ids) \in Nat
    BY SequenceFacts DEF Link
  <1>2. \A ci \in 1..Len(ids) : ids[ci] \in Slots
    BY SequenceFacts
  <1> QED
    BY <1>1, <1>2, SlotNumbers

(* What is flushed is on disk, and so is what was all there all the time. *)
LEMMA CleanRestful ==
    ASSUME NEW st \in Stores, NEW of \in OpenFiles, NEW B, NEW ids, Held(st, of, B, ids),
           NEW text \in Seq(Byte), Full(st, of, ids, text), of.dirty = {}, ~of.metaDirty
    PROVE  Restful(st, of.head, ids, text)
  <1> DEFINE map == <<None>> \o ids
  <1>1. ids \in Seq(Slots)
    BY DEF Held, Names
  <1>2. /\ of.total = Len(text) /\ st.node[of.head].total = of.total
        /\ \A ci \in Nat : ci >= 1 /\ ci * ChunkSize < of.total =>
              ci + 1 \in 1..Len(of.map) /\ ci \in 1..Len(ids) /\ ids[ci] = of.map[ci + 1]
    BY DEF Full, Fresh
  <1>3. /\ \A ci \in Nat : ci >= 1 => (ci + 1 \in 1..Len(map) <=> ci \in 1..Len(ids))
        /\ \A ci \in 1..Len(ids) : map[ci + 1] = ids[ci] /\ ids[ci] # None
    BY <1>1, MapIs
  <1> HIDE DEF map
  <1>4. ASSUME NEW ci \in Nat, ci * ChunkSize < Len(text) PROVE Saved(st, of.head, map, ci, text)
    <2>1. Saved(st, of.head, of.map, ci, text)
      BY <1>4 DEF Full, Holds, Has
    <2>2. CASE ci = 0
      BY <2>1, <2>2 DEF Saved
    <2>3. CASE ci # 0
      <3>1. ci >= 1 /\ ci * ChunkSize < of.total
        BY <1>2, <1>4, <2>3
      <3>2. ci \in 1..Len(ids) /\ ids[ci] = of.map[ci + 1]
        BY <1>2, <3>1
      <3>3. ci + 1 \in 1..Len(map) /\ map[ci + 1] = of.map[ci + 1] /\ map[ci + 1] # None
        BY <1>3, <3>1, <3>2
      <3>4. Shows(st.node[of.map[ci + 1]].data, ci, text)
        BY <2>1, <2>3 DEF Saved
      <3> QED
        BY <2>3, <3>3, <3>4 DEF Saved
    <2> QED
      BY <2>2, <2>3
  <1> QED
    BY <1>2, <1>4 DEF Restful, map

(* The handle of a file just created, and of one just opened. *)
LEMMA CreatedFull ==
    ASSUME NEW st \in Stores, HasSpace(st)
    PROVE  Full(Written(st, EmptyHead), NewHandle(NextFree(st)), <<>>, <<>>)
  <1> DEFINE s == NextFree(st)
             new == Written(st, EmptyHead)
             of == NewHandle(s)
  <1>1. of.head = s /\ of.total = 0 /\ Len(<<>>) = 0
    BY DEF NewHandle
  <1>2. s \in Slots /\ new.node[s] = EmptyHead
    <2>1. s \in Slots
      BY NextFreeFree
    <2>2. st.node \in [Slots -> Nodes]
      BY StoreFields
    <2> QED
      BY <2>1, <2>2 DEF Written
  <1>3. EmptyHead.total = 0
    BY BlockFields DEF EmptyHead
  <1>4. \A ci \in Nat : ci * ChunkSize \in Nat
    BY Sizes
  <1> HIDE DEF s, new, of
  <1>5. Holds(new, of, of.dirty, <<>>)
    BY <1>1, <1>4 DEF Holds
  <1>6. Fresh(new, of, <<>>)
    BY <1>1, <1>2, <1>3, <1>4 DEF Fresh
  <1> QED
    BY <1>1, <1>5, <1>6 DEF Full, s, new, of

LEMMA OpenedFull ==
    ASSUME NEW st \in Stores, head \in Slots, NEW B, NEW ids, Rests(st, head, B, ids),
           Opened(st).ok, NEW text \in Seq(Byte), Restful(st, head, ids, text)
    PROVE  Full(st, Opened(st).of, ids, text)
  <1> DEFINE of == Opened(st).of
             map == <<None>> \o ids
             data == st.node[head].data
             slots == st.node[head].slots
             more == IndexChain(st, st.node[head].chain).ids
  <1>1. /\ of.head = head /\ of.total = st.node[head].total
        /\ of.map = <<None>> \o slots \o more
        /\ of.cache = [ci \in (IF data = <<>> THEN {} ELSE {0}) |-> data]
        /\ of.dirty = {} /\ ~of.metaDirty
    BY OpenedIs
  <1>2. ids = slots \o more /\ slots \in Seq(Slots) /\ more \in Seq(Slots)
    <2>1. Names(st, head, B, ids)
      BY DEF Rests
    <2>2. /\ Listed(st, head, ids) /\ slots \in Seq(Slots) /\ more \in Seq(Slots)
      BY <2>1, NamesIs
    <2> QED
      BY <2>2 DEF Listed
  <1>3. ids \in Seq(Slots)
    BY DEF Rests, Names
  <1>4. of.map = map
    <2> HIDE DEF of, slots, more
    <2>1. slots \in Seq(Link) /\ more \in Seq(Link) /\ <<None>> \in Seq(Link)
      BY <1>2 DEF Link
    <2>2. (<<None>> \o slots) \o more = <<None>> \o (slots \o more)
      BY <2>1, Concatenations
    <2> QED
      BY <1>1, <1>2, <2>2
  <1>5. /\ Len(map) = Len(ids) + 1 /\ Len(ids) \in Nat
        /\ \A ci \in Nat : ci >= 1 => (ci + 1 \in 1..Len(map) <=> ci \in 1..Len(ids))
        /\ \A ci \in 1..Len(ids) : map[ci + 1] = ids[ci] /\ ids[ci] # None
    BY <1>3, MapIs, SequenceFacts
  <1>6. /\ st.node[head].total = Len(text)
        /\ \A ci \in Nat : ci * ChunkSize < Len(text) => Saved(st, head, map, ci, text)
    BY DEF Restful
  <1>7. DOMAIN of.cache \subseteq {0} /\ \A ci \in DOMAIN of.cache : of.cache[ci] = data
    BY <1>1
  <1> HIDE DEF of, map, slots, more
  <1>8. ASSUME NEW ci \in Nat, ci * ChunkSize < Len(text)
        PROVE  ci + 1 \in 1..Len(map) /\ Has(st, of, {}, ci, text)
    <2>1. Saved(st, head, map, ci, text)
      BY <1>6, <1>8
    <2>2. ci + 1 \in 1..Len(map) /\ ci < Len(map)
      BY <1>5, <2>1 DEF Saved
    <2>3. ASSUME ci \in DOMAIN of.cache PROVE Shows(of.cache[ci], ci, text)
      <3>1. ci = 0 /\ of.cache[ci] = data
        BY <1>7, <2>3
      <3> QED
        BY <2>1, <3>1 DEF Saved
    <2> QED
      BY <1>1, <1>4, <2>1, <2>2, <2>3 DEF Has
  <1>9. Holds(st, of, of.dirty, text)
    BY <1>1, <1>8 DEF Holds
  <1>10. Fresh(st, of, ids)
    <2>1. ASSUME NEW ci \in Nat, ci >= 1, ci * ChunkSize < of.total
          PROVE  ci + 1 \in 1..Len(of.map) /\ ci \in 1..Len(ids) /\ ids[ci] = of.map[ci + 1]
      <3>1. ci * ChunkSize < Len(text)
        BY <1>1, <1>6, <2>1
      <3>2. ci + 1 \in 1..Len(map)
        BY <1>8, <3>1
      <3>3. ci \in 1..Len(ids)
        BY <1>5, <2>1, <3>2
      <3>4. ids[ci] = map[ci + 1]
        BY <1>5, <3>3
      <3> QED
        BY <1>4, <3>2, <3>3, <3>4
    <2> QED
      BY <1>1, <2>1 DEF Fresh
  <1> QED
    BY <1>1, <1>6, <1>9, <1>10 DEF Full, of

(* A text cut off. *)
LEMMA SizeOfSame ==
    ASSUME NEW text \in Seq(Byte), NEW size \in Nat, size <= Len(text)
    PROVE  /\ SizeOf(text, size) \in Seq(Byte) /\ Len(SizeOf(text, size)) = size
           /\ \A i \in 1..size : SizeOf(text, size)[i] = text[i]
           /\ \A ci \in Nat : SameAt(ci, text, SizeOf(text, size))
  <1> DEFINE next == SizeOf(text, size)
  <1>1. next \in Seq(Byte) /\ Len(next) = size
        /\ \A i \in 1..size : next[i] = IF i <= Len(text) THEN text[i] ELSE 0
    BY SizeOfIs
  <1>2. Len(text) \in Nat
    OBVIOUS
  <1>3. \A i \in 1..size : next[i] = text[i]
    BY <1>1, <1>2
  <1> HIDE DEF next
  <1>4. ASSUME NEW ci \in Nat, NEW k \in 1..ChunkSize, ci * ChunkSize + k <= Len(next)
        PROVE  ci * ChunkSize + k <= Len(text) /\ next[ci * ChunkSize + k] = text[ci * ChunkSize + k]
    <2> DEFINE i == ci * ChunkSize + k
    <2>1. ci * ChunkSize \in Nat /\ k \in Nat /\ k >= 1
      BY Sizes
    <2>2. i \in Nat /\ i >= 1 /\ i <= size
      BY <1>1, <1>4, <2>1
    <2> HIDE DEF i
    <2>3. i <= Len(text) /\ next[i] = text[i]
      BY <1>2, <1>3, <2>2
    <2> QED
      BY <2>3 DEF i
  <1> QED
    BY <1>1, <1>3, <1>4 DEF SameAt, next

(* setattr(size) on a handle, to less. *)
LEMMA ResizedFull ==
    ASSUME NEW st \in Stores, NEW of \in OpenFiles, NEW ids,
           NEW text \in Seq(Byte), Full(st, of, ids, text), NEW size \in 0..MaxSize, size < Len(text)
    PROVE  Full(st, Resized(of, size), ids, SizeOf(text, size))
  <1> DEFINE new == Resized(of, size)
             next == SizeOf(text, size)
             last == LastChunk(size)
             dirty == {ci \in of.dirty : ci <= LastChunk(size)}
                      \union (IF size > 0 THEN {LastChunk(size)} ELSE {})
             cache == CutCache(of.cache, size)
  <1>1. size \in Nat /\ of.total = Len(text) /\ Len(text) \in Nat
    BY Sizes, SequenceFacts DEF Full
  <1>2. new = [of EXCEPT !.total = size, !.metaDirty = TRUE, !.dirty = dirty, !.cache = cache]
    <2>1. size < of.total
      BY <1>1
    <2> QED
      BY <2>1, ResizedIs
  <1> HIDE DEF dirty, cache, last, new
  <1>3. /\ new.head = of.head /\ new.map = of.map /\ new.total = size /\ new.metaDirty
        /\ new.dirty = dirty /\ new.cache = cache
    BY <1>2 DEF OpenFiles
  <1>4. Len(next) = size /\ \A ci \in Nat : SameAt(ci, text, next)
    BY <1>1, SizeOfSame
  <1>5. /\ last \in Nat /\ \A ci \in Nat : ci * ChunkSize < size => ci <= last
    BY <1>1, LastChunkIs DEF last
  <1>6. /\ DOMAIN cache = {k \in DOMAIN of.cache : k <= last}
        /\ \A ci \in DOMAIN cache :
              /\ ci < last => cache[ci] = of.cache[ci]
              /\ \A i \in 1..Len(cache[ci]) : cache[ci][i] = of.cache[ci][i]
              /\ ci = last =>
                    Len(cache[ci]) =
                       LET cut == IF size = 0 THEN 0 ELSE ChunkLength(last, size)
                       IN  IF Len(of.cache[ci]) <= cut THEN Len(of.cache[ci]) ELSE cut
    BY Fields, CutCacheIs DEF cache, last
  <1> HIDE DEF next
  <1>7. ASSUME NEW ci \in Nat, ci * ChunkSize < Len(next) PROVE Has(st, new, new.dirty, ci, next)
    <2>1. ci * ChunkSize < size /\ ci * ChunkSize \in Nat /\ ci <= last /\ ci * ChunkSize < Len(text)
      BY <1>1, <1>4, <1>5, <1>7, Sizes
    <2>2. Has(st, of, of.dirty, ci, text)
      BY <2>1 DEF Full, Holds
    <2>3. Has(st, of, of.dirty, ci, next)
      BY <1>4, <2>2, HasSame
    <2>4. ASSUME ci \in DOMAIN cache PROVE Shows(cache[ci], ci, next)
      <3> DEFINE data == of.cache[ci]
                 cut == cache[ci]
      <3>1. ci \in DOMAIN of.cache
        BY <1>6, <2>4
      <3>2. Shows(data, ci, next)
        BY <2>3, <3>1 DEF Has
      <3>3. CASE ci < last
        BY <1>6, <2>4, <3>2, <3>3
      <3>4. CASE ci = last
        <4> DEFINE n == ChunkLength(ci, size)
        <4>1. n \in Nat /\ n = IF size - ci * ChunkSize <= ChunkSize THEN size - ci * ChunkSize ELSE ChunkSize
          BY <1>1, <2>1, ChunkLengthIs
        <4>2. size # 0
          BY <2>1
        <4>3. /\ Len(cut) = (IF Len(data) <= n THEN Len(data) ELSE n)
              /\ \A i \in 1..Len(cut) : cut[i] = data[i]
          BY <1>6, <2>4, <3>4, <4>2
        <4>4. Len(data) \in Nat /\ ChunkSize \in Nat
          BY <3>1, Sizes, Fields, CacheFields, ChunkFields
        <4> HIDE DEF data, cut, n
        <4>5. ASSUME NEW k \in 1..ChunkSize, ci * ChunkSize + k <= Len(next)
              PROVE  k <= Len(cut) /\ cut[k] = next[ci * ChunkSize + k]
          <5>1. k <= Len(data) /\ data[k] = next[ci * ChunkSize + k]
            BY <3>2, <4>5 DEF Shows
          <5>2. k \in Nat /\ k >= 1 /\ k <= ChunkSize /\ k <= size - ci * ChunkSize
            BY <1>1, <1>4, <2>1, <4>4, <4>5
          <5>3. k <= n
            BY <4>1, <5>2
          <5>4. k \in 1..Len(cut) /\ k <= Len(cut)
            BY <4>1, <4>3, <4>4, <5>1, <5>2, <5>3
          <5> QED
            BY <4>3, <5>1, <5>4
        <4> QED
          BY <4>5 DEF Shows, cut
      <3> QED
        BY <1>5, <2>1, <3>3, <3>4
    <2>5. ci \in DOMAIN of.cache /\ ci \in of.dirty => ci \in DOMAIN new.cache /\ ci \in new.dirty
      BY <1>3, <1>6, <2>1 DEF dirty, last
    <2> QED
      BY <1>3, <2>3, <2>4, <2>5 DEF Has
  <1>8. Holds(st, new, new.dirty, next)
    BY <1>7 DEF Holds
  <1>9. Fresh(st, new, ids)
    BY <1>3 DEF Fresh
  <1> QED
    BY <1>3, <1>4, <1>8, <1>9 DEF Full, new, next

(* setattr(size) with no handle open, to less, of a file that needs no chain. *)
LEMMA CutRestful ==
    ASSUME NEW st \in Stores, NEW n, NEW B, NEW ids, Rests(st, n, B, ids), FitsDirect,
           NEW text \in Seq(Byte), Restful(st, n, ids, text),
           NEW size \in 0..MaxSize, size < Len(text), NEW new,
           new = Updated(Given(st, Beyond(st.node[n], size), st.node[n].chain), n,
                         CutHead(st.node[n], size))
    PROVE  Restful(new, n, SubSeq(st.node[n].slots, 1, KeptDirect(st.node[n], size)),
                   SizeOf(text, size))
  <1> DEFINE fb == st.node[n]
             k == KeptDirect(fb, size)
             low == SubSeq(fb.slots, 1, k)
             old == <<None>> \o ids
             map == <<None>> \o low
             next == SizeOf(text, size)
             cut == CutHead(fb, size)
  <1>1. Names(st, n, B, ids)
    BY DEF Rests
  <1>2. /\ ids = fb.slots /\ fb.slots \in Seq(Slots) /\ fb.kind = "file" /\ fb \in Nodes
    <2>1. ids = fb.slots
      BY <1>1, NoChain
    <2>2. fb.slots \in Seq(Slots) /\ fb \in Nodes
      BY <1>1, NamesIs
    <2>3. fb.kind = "file"
      BY <1>1 DEF Names
    <2> QED
      BY <2>1, <2>2, <2>3
  <1>3. new.node[n] = cut /\ \A s \in Members(low) : new.node[s] = st.node[s]
    BY CutRests
  <1>4. size \in Nat /\ Len(text) \in Nat /\ size <= Len(text)
    BY Sizes, SequenceFacts
  <1>5. Len(next) = size /\ \A ci \in Nat : SameAt(ci, text, next)
    BY <1>4, SizeOfSame
  <1>6. /\ cut.total = size /\ cut.data \in Chunk /\ Len(cut.data) = (IF Len(fb.data) <= size THEN Len(fb.data) ELSE size)
        /\ \A i \in 1..Len(cut.data) : cut.data[i] = fb.data[i]
    <2>1. cut.total = size
      BY BlockFields DEF CutHead
    <2> HIDE DEF fb
    <2> QED
      BY <1>2, <2>1, CutHeadIs
  <1>7. fb.data \in Chunk /\ Len(fb.data) \in Nat
    <2> HIDE DEF fb
    <2> QED
      BY <1>2, NodeFields, ChunkFields
  <1>8. /\ k \in 0..Len(fb.slots)
        /\ k = LET want == IF Chunks(size) - 1 >= 0 THEN Chunks(size) - 1 ELSE 0
               IN  IF want <= Len(fb.slots) THEN want ELSE Len(fb.slots)
    <2> HIDE DEF fb
    <2> QED
      BY <1>2, <1>4, KeptDirectIs
  <1>9. /\ Chunks(size) \in Nat /\ \A ci \in Nat : ci < Chunks(size) <=> ci * ChunkSize < size
    BY <1>4, ChunksBound
  <1>10. \A ci \in Nat : ci * ChunkSize < Len(text) => Saved(st, n, old, ci, text)
    BY DEF Restful
  <1> HIDE DEF fb, k, next, cut
  <1>11. low \in Seq(Slots) /\ Len(low) = k /\ \A i \in 1..k : low[i] = fb.slots[i]
    BY <1>2, <1>8, Split
  <1>12. /\ \A ci \in Nat : ci >= 1 => (ci + 1 \in 1..Len(old) <=> ci \in 1..Len(ids))
         /\ \A ci \in 1..Len(ids) : old[ci + 1] = ids[ci] /\ ids[ci] # None
    BY <1>2, MapIs
  <1> HIDE DEF low
  <1>13. /\ \A ci \in Nat : ci >= 1 => (ci + 1 \in 1..Len(map) <=> ci \in 1..Len(low))
         /\ \A ci \in 1..Len(low) : map[ci + 1] = low[ci] /\ low[ci] # None
    BY <1>11, MapIs
  <1> HIDE DEF old, map
  <1>14. ASSUME NEW ci \in Nat, ci * ChunkSize < Len(next) PROVE Saved(new, n, map, ci, next)
    <2>1. ci * ChunkSize \in Nat /\ ci * ChunkSize < size /\ ci * ChunkSize < Len(text)
      BY <1>4, <1>5, <1>14, Sizes
    <2>2. Saved(st, n, old, ci, text)
      BY <1>10, <2>1
    <2>3. CASE ci = 0
      <3>1. Shows(fb.data, 0, text)
        BY <2>2, <2>3 DEF Saved, fb
      <3>2. Shows(fb.data, 0, next)
        BY <1>5, <3>1, ShowsSame
      <3>3. Shows(cut.data, 0, next)
        <4> DEFINE data == cut.data
        <4> HIDE DEF data
        <4> SUFFICES ASSUME NEW j \in 1..ChunkSize, 0 * ChunkSize + j <= Len(next)
                     PROVE  j <= Len(data) /\ data[j] = next[0 * ChunkSize + j]
          BY DEF Shows, data
        <4>1. j <= Len(fb.data) /\ fb.data[j] = next[0 * ChunkSize + j]
          BY <3>2 DEF Shows
        <4>2. 0 * ChunkSize = 0 /\ ChunkSize \in Nat
          BY Sizes
        <4>3. j \in Nat /\ j >= 1 /\ j <= size
          BY <1>5, <4>2
        <4>4. Len(data) = (IF Len(fb.data) <= size THEN Len(fb.data) ELSE size)
              /\ \A i \in 1..Len(data) : data[i] = fb.data[i]
          BY <1>6 DEF data
        <4>5. j \in 1..Len(data) /\ j <= Len(data)
          BY <1>4, <1>7, <4>1, <4>3, <4>4
        <4> QED
          BY <4>1, <4>4, <4>5
      <3> QED
        BY <1>3, <2>3, <3>3 DEF Saved
    <2>4. CASE ci # 0
      <3>1. ci >= 1 /\ ci <= Chunks(size) - 1
        BY <1>9, <2>1, <2>4
      <3>2. ci \in 1..Len(ids) /\ old[ci + 1] = ids[ci]
        BY <1>12, <2>2, <2>4, <3>1 DEF Saved
      <3>3. ci \in 1..k
        BY <1>2, <1>8, <1>9, <3>1, <3>2
      <3>4. low[ci] = ids[ci] /\ low[ci] \in Members(low)
        BY <1>2, <1>11, <3>3 DEF Members
      <3>5. new.node[low[ci]] = st.node[ids[ci]]
        BY <1>3, <3>4
      <3>6. ci + 1 \in 1..Len(map) /\ map[ci + 1] = low[ci] /\ map[ci + 1] # None
        BY <1>11, <1>13, <3>1, <3>3
      <3>7. Shows(st.node[ids[ci]].data, ci, text)
        BY <2>2, <2>4, <3>2 DEF Saved
      <3>8. Shows(st.node[ids[ci]].data, ci, next)
        BY <1>5, <3>7, ShowsSame
      <3>9. Shows(new.node[map[ci + 1]].data, ci, next)
        BY <3>5, <3>6, <3>8
      <3> QED
        BY <2>4, <3>6, <3>9 DEF Saved
    <2> QED
      BY <2>3, <2>4
  <1>15. new.node[n].total = Len(next)
    BY <1>3, <1>5, <1>6
  <1>16. Restful(new, n, low, next)
    BY <1>14, <1>15 DEF Restful, map
  <1> QED
    BY <1>16 DEF low, next, k, fb

(* The next mount finds the same blocks. *)
LEMMA MountedRestful ==
    ASSUME NEW st \in Stores, NEW n, NEW ids, NEW text, Restful(st, n, ids, text)
    PROVE  Restful(Mounted(st), n, ids, text)
  <1>1. Mounted(st).node = st.node
    BY MountedIs
  <1> QED
    BY <1>1 DEF Restful, Saved

-----------------------------------------------------------------------------
(* What op_read returns.                                                     *)
Readings == [bytes: Seq(Int), more: BOOLEAN]

ChunkRead(st, of, ci) == IF ci \in DOMAIN of.cache THEN of.cache[ci] ELSE Loaded(st, of, ci)

ReadOn(data, want, r) ==
    IF ~r.more THEN r
    ELSE IF data = EIO THEN [bytes |-> r.bytes \o EIO, more |-> FALSE]
    ELSE [bytes |-> r.bytes \o SubSeq(data, 1, Min({Len(data), want})), more |-> Len(data) >= want]

ReadNext(st, of, i, r) == ReadOn(ChunkRead(st, of, i - 1), ChunkLength(i - 1, of.total), r)

LEMMA ChunkReadTyped ==
    ASSUME NEW st \in Stores, NEW of \in OpenFiles, NEW ci \in 0..MaxSize
    PROVE  ChunkRead(st, of, ci) = EIO \/ ChunkRead(st, of, ci) \in Chunk
  <1>1. ci \in DOMAIN of.cache => of.cache[ci] \in Chunk
    BY Fields, CacheFields
  <1>2. Loaded(st, of, ci) = EIO \/ Loaded(st, of, ci) \in Chunk
    BY LoadedTyped
  <1> QED
    BY <1>1, <1>2 DEF ChunkRead

LEMMA SequenceOf ==
    ASSUME NEW S, NEW T, S \subseteq T, NEW q \in Seq(S)
    PROVE  q \in Seq(T)
  <1>1. \A i \in 1..Len(q) : q[i] \in T
    BY SequenceFacts
  <1> QED
    BY <1>1

LEMMA ReadOnTyped ==
    ASSUME NEW data, data = EIO \/ data \in Chunk, NEW want \in Nat, NEW r \in Readings
    PROVE  ReadOn(data, want, r) \in Readings
  <1>1. r.bytes \in Seq(Int) /\ r.more \in BOOLEAN
    BY DEF Readings
  <1>2. EIO \in Seq(Int)
    BY DEF EIO
  <1>3. CASE ~r.more
    BY <1>3 DEF ReadOn
  <1>4. CASE r.more /\ data = EIO
    BY <1>1, <1>2, <1>4 DEF ReadOn, Readings
  <1>5. CASE r.more /\ data # EIO
    <2> DEFINE k == Min({Len(data), want})
               part == SubSeq(data, 1, k)
               m == Len(data) >= want
    <2>1. data \in Seq(Byte) /\ Len(data) \in Nat
      BY <1>5, ChunkFields
    <2>2. k \in Nat /\ k <= Len(data)
      BY <2>1, MinOfTwo
    <2>3. part \in Seq(Byte)
      <3> HIDE DEF k
      <3> QED
        BY <2>1, <2>2, Split
    <2>4. Byte \subseteq Int
      BY DEF Byte
    <2>5. part \in Seq(Int)
      <3> HIDE DEF part
      <3> QED
        BY <2>3, <2>4, SequenceOf
    <2>6. ReadOn(data, want, r) = [bytes |-> r.bytes \o part, more |-> m]
      BY <1>5 DEF ReadOn
    <2>7. m \in BOOLEAN
      OBVIOUS
    <2> HIDE DEF part, m
    <2>8. r.bytes \o part \in Seq(Int)
      BY <1>1, <2>5
    <2> QED
      BY <2>6, <2>7, <2>8 DEF Readings
  <1> QED
    BY <1>1, <1>3, <1>4, <1>5

(* The rounds of op_read. *)
LEMMA ReadRounds ==
    ASSUME NEW st \in Stores, NEW of \in OpenFiles
    PROVE  \E f \in [0..Chunks(of.total) -> Readings] :
              /\ f[0] = [bytes |-> <<>>, more |-> TRUE]
              /\ \A i \in 1..Chunks(of.total) : f[i] = ReadNext(st, of, i, f[i - 1])
              /\ ReadBack(st, of) = f[Chunks(of.total)].bytes
  <1> DEFINE n == Chunks(of.total)
             S == Readings
             start == [bytes |-> <<>>, more |-> TRUE]
             Round(i, r) == ReadNext(st, of, i, r)
             g[i \in 0..n] == IF i = 0 THEN start ELSE Round(i, g[i - 1])
             step == [i \in 1..n |-> [r \in S |-> Round(i, r)]]
  <1>1. ReadBack(st, of) = g[n].bytes
    BY DEF ReadBack, ReadNext, ReadOn, ChunkRead, Iterate
  <1>2. /\ of.total \in Nat /\ of.total <= MaxSize
        /\ n \in Nat /\ n <= of.total /\ \A ci \in Nat : ci < n <=> ci * ChunkSize < of.total
    <2>1. of.total \in Nat /\ of.total <= MaxSize
      BY Fields, Sizes
    <2> QED
      BY <2>1, ChunksBound
  <1>3. start \in S
    BY DEF Readings
  <1> HIDE DEF n
  <1>4. ASSUME NEW i \in 1..n, NEW r \in S PROVE Round(i, r) \in S
    <2> DEFINE ci == i - 1
    <2>1. ci \in Nat /\ ci \in 0..MaxSize /\ ci < n
      BY <1>2, Sizes
    <2>2. ci * ChunkSize < of.total
      BY <1>2, <2>1
    <2> HIDE DEF ci
    <2>3. ChunkLength(ci, of.total) \in Nat
      BY <1>2, <2>1, <2>2, ChunkLengthIs
    <2>4. ChunkRead(st, of, ci) = EIO \/ ChunkRead(st, of, ci) \in Chunk
      BY <2>1, ChunkReadTyped
    <2>5. ReadOn(ChunkRead(st, of, ci), ChunkLength(ci, of.total), r) \in Readings
      BY <2>3, <2>4, ReadOnTyped
    <2> QED
      BY <2>5 DEF ReadNext, ci
  <1> HIDE DEF start, Round, S
  <1>5. step \in [1..n -> [S -> S]]
    BY <1>4
  <1>6. Rounds(n, S, start, step) # {}
    <2> HIDE DEF step
    <2> QED
      BY <1>2, <1>3, <1>5, Recursion
  <1>7. PICK f \in Rounds(n, S, start, step) : TRUE
    BY <1>6
  <1>8. f \in [0..n -> S] /\ f[0] = start /\ \A i \in 1..n : f[i] = step[i][f[i - 1]]
    <2> HIDE DEF step
    <2> QED
      BY <1>7 DEF Rounds
  <1>9. ASSUME NEW i \in 1..n PROVE f[i] = Round(i, f[i - 1])
    <2>1. i - 1 \in 0..n /\ f[i - 1] \in S
      BY <1>2, <1>8
    <2> QED
      BY <1>8, <2>1
  <1>10. f = [i \in 0..n |-> IF i = 0 THEN start ELSE Round(i, f[i - 1])]
    <2>1. \A i \in 0..n : f[i] = IF i = 0 THEN start ELSE Round(i, f[i - 1])
      BY <1>2, <1>8, <1>9
    <2> QED
      BY <1>8, <2>1
  <1>11. g = [i \in 0..n |-> IF i = 0 THEN start ELSE Round(i, g[i - 1])]
    BY <1>10
  <1> HIDE DEF g, step
  <1>12. ASSUME NEW i \in 0..n PROVE g[i] = f[i]
    <2> DEFINE P == {k \in 0..n : g[k] = f[k]}
    <2>1. 0 \in P
      BY <1>2, <1>8, <1>11
    <2>2. \A k \in 1..n : k - 1 \in P => k \in P
      BY <1>2, <1>9, <1>11
    <2> HIDE DEF P
    <2>3. \A k \in 0..n : k \in P
      BY <1>2, <2>1, <2>2, Induction
    <2> QED
      BY <2>3 DEF P
  <1>13. ReadBack(st, of) = f[n].bytes
    BY <1>1, <1>2, <1>12
  <1> QED
    BY <1>8, <1>9, <1>13 DEF n, start, Round, S

LEMMA Joins ==
    ASSUME NEW S, NEW text \in Seq(S), NEW a \in Nat, NEW b \in Nat, a <= b, b <= Len(text),
           NEW part \in Seq(S), Len(part) = b - a, \A i \in 1..Len(part) : part[i] = text[a + i]
    PROVE  SubSeq(text, 1, a) \o part = SubSeq(text, 1, b)
  <1> DEFINE p == SubSeq(text, 1, a)
             q == SubSeq(text, 1, b)
  <1>1. a \in 0..Len(text) /\ b \in 0..Len(text)
    OBVIOUS
  <1>2. p \in Seq(S) /\ Len(p) = a /\ \A i \in 1..a : p[i] = text[i]
    BY <1>1, Split
  <1>3. q \in Seq(S) /\ Len(q) = b /\ \A i \in 1..b : q[i] = text[i]
    BY <1>1, Split
  <1> HIDE DEF p, q
  <1>4. p \o part \in Seq(S) /\ Len(p \o part) = Len(q)
    BY <1>2, <1>3
  <1>5. ASSUME NEW i \in 1..Len(p \o part) PROVE (p \o part)[i] = q[i]
    <2>1. i \in 1..b /\ q[i] = text[i] /\ i \in Nat
      BY <1>3, <1>4, <1>5
    <2>2. CASE i <= a
      <3>1. (p \o part)[i] = p[i] /\ i \in 1..a
        BY <1>2, <2>1, <2>2
      <3> QED
        BY <1>2, <2>1, <3>1
    <2>3. CASE ~(i <= a)
      <3>1. (p \o part)[i] = part[i - a] /\ i - a \in 1..Len(part)
        BY <1>2, <2>1, <2>3
      <3>2. part[i - a] = text[a + (i - a)] /\ a + (i - a) = i
        BY <2>1, <3>1
      <3> QED
        BY <2>1, <3>1, <3>2
    <2> QED
      BY <2>2, <2>3
  <1> QED
    BY <1>3, <1>4, <1>5, SameSequence DEF p, q

(* How much of the text i chunks are. *)
ReadTo(text, i) == IF i * ChunkSize <= Len(text) THEN i * ChunkSize ELSE Len(text)

LEMMA ReadOnShows ==
    ASSUME NEW text \in Seq(Byte), NEW ci \in Nat, ci * ChunkSize < Len(text),
           NEW data \in Chunk, Shows(data, ci, text),
           NEW r, r.more, r.bytes = SubSeq(text, 1, ReadTo(text, ci))
    PROVE  /\ ReadOn(data, ChunkLength(ci, Len(text)), r).more
           /\ ReadOn(data, ChunkLength(ci, Len(text)), r).bytes =
                 SubSeq(text, 1, ReadTo(text, ci + 1))
  <1> DEFINE n == Len(text)
             want == ChunkLength(ci, n)
             a == ci * ChunkSize
             b == a + want
             part == SubSeq(data, 1, want)
  <1>1. n \in Nat /\ a \in Nat /\ (ci + 1) * ChunkSize = a + ChunkSize /\ ChunkSize \in Nat
    BY ChunksApart, SequenceFacts, Sizes
  <1>2. /\ want \in Nat /\ want >= 1 /\ want <= ChunkSize /\ a + want <= n
        /\ want = IF n - a <= ChunkSize THEN n - a ELSE ChunkSize
    BY <1>1, ChunkLengthIs
  <1> HIDE DEF want
  <1>3. ReadTo(text, ci) = a /\ ReadTo(text, ci + 1) = b
    <2>1. a <= n
      BY <1>1
    <2>2. b = IF a + ChunkSize <= n THEN a + ChunkSize ELSE n
      <3> HIDE DEF a, n
      <3> QED
        BY <1>1, <1>2
    <2> QED
      BY <1>1, <2>1, <2>2 DEF ReadTo
  <1> HIDE DEF n
  <1>4. data \in Seq(Byte) /\ Len(data) \in Nat /\ data # EIO
    BY ChunkFields
  <1>5. \A k \in 1..want : k <= Len(data) /\ data[k] = text[a + k]
    <2> TAKE k \in 1..want
    <2>1. k \in 1..ChunkSize /\ ci * ChunkSize + k <= n
      BY <1>1, <1>2
    <2> QED
      BY <2>1 DEF Shows, n
  <1>6. want \in 0..Len(data) /\ want <= Len(data)
    BY <1>2, <1>4, <1>5
  <1>7. part \in Seq(Byte) /\ Len(part) = want /\ \A i \in 1..want : part[i] = data[i]
    BY <1>4, <1>6, Split
  <1>8. Min({Len(data), want}) = want
    BY <1>2, <1>4, <1>6, MinOfTwo
  <1>9. ReadOn(data, want, r) = [bytes |-> r.bytes \o part, more |-> Len(data) >= want]
    BY <1>4, <1>8 DEF ReadOn
  <1>10. r.bytes \o part = SubSeq(text, 1, b)
    <2>1. r.bytes = SubSeq(text, 1, a)
      BY <1>3
    <2>2. b \in Nat /\ a <= b /\ b <= Len(text) /\ Len(part) = b - a
      <3>1. Len(part) = want /\ n = Len(text)
        BY <1>7 DEF n
      <3> HIDE DEF a, part, n
      <3>2. b \in Nat /\ a <= b /\ b <= n /\ want = b - a
        BY <1>1, <1>2
      <3> QED
        BY <3>1, <3>2
    <2>3. \A i \in 1..Len(part) : part[i] = text[a + i]
      BY <1>5, <1>7
    <2> HIDE DEF a, b, part
    <2>4. a \in Nat /\ part \in Seq(Byte)
      BY <1>1, <1>7
    <2>5. SubSeq(text, 1, a) \o part = SubSeq(text, 1, b)
      BY <2>2, <2>3, <2>4, Joins
    <2> QED
      BY <2>1, <2>5
  <1>11. Len(data) >= want
    BY <1>2, <1>4, <1>6
  <1> DEFINE q == SubSeq(text, 1, b)
  <1>12. ReadOn(data, want, r) = [bytes |-> q, more |-> TRUE]
    BY <1>9, <1>10, <1>11
  <1>13. q = SubSeq(text, 1, ReadTo(text, ci + 1))
    BY <1>3
  <1> HIDE DEF q
  <1>14. ReadOn(data, want, r).more /\ ReadOn(data, want, r).bytes = q
    BY <1>12
  <1> QED
    BY <1>13, <1>14 DEF want, n

LEMMA ReadNextIs ==
    ASSUME NEW st \in Stores, NEW of \in OpenFiles, NEW B, NEW ids, Held(st, of, B, ids),
           NEW text \in Seq(Byte), Full(st, of, ids, text),
           NEW i \in 1..Chunks(of.total), NEW r \in Readings, r.more,
           r.bytes = SubSeq(text, 1, ReadTo(text, i - 1))
    PROVE  /\ ReadNext(st, of, i, r).more
           /\ ReadNext(st, of, i, r).bytes = SubSeq(text, 1, ReadTo(text, i))
  <1> DEFINE ci == i - 1
             data == ChunkRead(st, of, ci)
  <1>1. /\ of.total \in Nat /\ of.total <= MaxSize /\ MaxSize \in Nat
        /\ Chunks(of.total) \in Nat /\ Chunks(of.total) <= of.total
        /\ \A k \in Nat : k < Chunks(of.total) <=> k * ChunkSize < of.total
    <2>1. of.total \in Nat /\ of.total <= MaxSize /\ MaxSize \in Nat
      BY Fields, Sizes
    <2> QED
      BY <2>1, ChunksBound
  <1>2. ci \in Nat /\ ci \in 0..MaxSize /\ ci < Chunks(of.total) /\ i = ci + 1
    BY <1>1
  <1>3. of.total = Len(text) /\ ci * ChunkSize < Len(text)
    BY <1>1, <1>2 DEF Full
  <1>4. Has(st, of, of.dirty, ci, text)
    BY <1>2, <1>3 DEF Full, Holds
  <1>5. /\ st.node[of.head].kind = "file" /\ of.head \in Slots
        /\ \A s \in Mapped(of.map) : s \in Slots /\ st.node[s].kind = "data"
    BY DEF Held, Names, DataIn
  <1> HIDE DEF ci
  <1>6. Loaded(st, of, ci) \in Chunk \/ ci \in DOMAIN of.cache
    <2> SUFFICES ASSUME ci \notin DOMAIN of.cache PROVE Loaded(st, of, ci) \in Chunk
      OBVIOUS
    <2>1. ci < Len(of.map) /\ Saved(st, of.head, of.map, ci, text)
      BY <1>4 DEF Has
    <2>2. CASE ci = 0
      <3> DEFINE node == st.node[of.head]
      <3>1. Loaded(st, of, ci) = IF node.kind = "file" THEN node.data ELSE EIO
        BY <2>1, <2>2, Fields DEF Loaded
      <3>2. node \in Nodes /\ node.kind = "file"
        BY <1>5, StoreFields
      <3> HIDE DEF node
      <3> QED
        BY <3>1, <3>2, NodeFields
    <2>3. CASE ci # 0
      <3> DEFINE s == of.map[ci + 1]
                 node == st.node[s]
      <3>1. s # None /\ ci + 1 \in 1..Len(of.map)
        BY <2>1, <2>3 DEF Saved
      <3>2. s \in Mapped(of.map)
        BY <3>1 DEF Mapped
      <3>3. node \in Nodes /\ node.kind = "data"
        BY <1>5, <3>2, StoreFields
      <3>4. ~(ci >= Len(of.map))
        BY <1>2, <2>1, Fields
      <3>5. Loaded(st, of, ci) = IF node.kind = "data" THEN node.data ELSE EIO
        BY <2>3, <3>1, <3>4, Zenon DEF Loaded
      <3> HIDE DEF node
      <3> QED
        BY <3>3, <3>5, NodeFields
    <2> QED
      BY <2>2, <2>3
  <1>7. data \in Chunk /\ Shows(data, ci, text)
    <2>1. CASE ci \in DOMAIN of.cache
      <3>1. data = of.cache[ci] /\ of.cache[ci] \in Chunk
        BY <2>1, Fields, CacheFields DEF ChunkRead
      <3> QED
        BY <1>4, <2>1, <3>1 DEF Has
    <2>2. CASE ci \notin DOMAIN of.cache
      <3>1. data = Loaded(st, of, ci) /\ Loaded(st, of, ci) \in Chunk
        BY <1>6, <2>2 DEF ChunkRead
      <3>2. Loaded(st, of, ci) # EIO
        BY <3>1, ChunkFields
      <3> QED
        BY <1>2, <1>4, <2>2, <3>1, <3>2, LoadedShows
    <2> QED
      BY <2>1, <2>2
  <1>8. ReadNext(st, of, i, r) = ReadOn(data, ChunkLength(ci, Len(text)), r)
    BY <1>3 DEF ReadNext, ci
  <1>9. r.bytes = SubSeq(text, 1, ReadTo(text, ci))
    BY DEF ci
  <1> HIDE DEF data
  <1> QED
    BY <1>2, <1>3, <1>7, <1>8, <1>9, ReadOnShows

(* A read through a handle that holds text returns text. *)
LEMMA ReadBackIs ==
    ASSUME NEW st \in Stores, NEW of \in OpenFiles, NEW B, NEW ids, Held(st, of, B, ids),
           NEW text \in Seq(Byte), Full(st, of, ids, text)
    PROVE  ReadBack(st, of) = text
  <1> DEFINE n == Chunks(of.total)
             Like(i, r) == r.more /\ r.bytes = SubSeq(text, 1, ReadTo(text, i))
  <1>1. PICK f \in [0..n -> Readings] :
              /\ f[0] = [bytes |-> <<>>, more |-> TRUE]
              /\ \A i \in 1..n : f[i] = ReadNext(st, of, i, f[i - 1])
              /\ ReadBack(st, of) = f[n].bytes
    BY ReadRounds
  <1>2. of.total = Len(text) /\ of.total \in Nat /\ n \in Nat /\ of.total <= n * ChunkSize
    <2>1. of.total = Len(text) /\ Len(text) \in Nat
      BY SequenceFacts DEF Full
    <2> QED
      BY <2>1, ChunksBound
  <1>3. ReadTo(text, 0) = 0
    BY <1>2, Sizes DEF ReadTo
  <1>4. Like(0, f[0])
    BY <1>1, <1>2, <1>3
  <1> DEFINE Q == {i \in 0..n : Like(i, f[i])}
  <1>5. 0 \in Q
    BY <1>2, <1>4
  <1>6. ASSUME NEW i \in 1..n, i - 1 \in Q PROVE i \in Q
    <2>1. i \in 0..n /\ i - 1 \in 0..n /\ f[i - 1] \in Readings /\ Like(i - 1, f[i - 1])
      BY <1>1, <1>2, <1>6
    <2> DEFINE r == f[i - 1]
    <2>2. r \in Readings /\ r.more /\ r.bytes = SubSeq(text, 1, ReadTo(text, i - 1))
      BY <2>1
    <2>3. f[i] = ReadNext(st, of, i, r)
      BY <1>1
    <2> HIDE DEF r
    <2>4. /\ ReadNext(st, of, i, r).more
          /\ ReadNext(st, of, i, r).bytes = SubSeq(text, 1, ReadTo(text, i))
      BY <2>2, ReadNextIs
    <2> QED
      BY <2>1, <2>3, <2>4
  <1> HIDE DEF Q
  <1>7. \A i \in 0..n : i \in Q
    BY <1>2, <1>5, <1>6, Induction
  <1>8. Like(n, f[n])
    BY <1>2, <1>7 DEF Q
  <1>9. ReadTo(text, n) = Len(text)
    <2> HIDE DEF n
    <2>1. n * ChunkSize \in Nat
      BY <1>2, Sizes
    <2> QED
      BY <1>2, <2>1 DEF ReadTo
  <1>10. SubSeq(text, 1, Len(text)) = text
    OBVIOUS
  <1> QED
    BY <1>1, <1>8, <1>9, <1>10

-----------------------------------------------------------------------------
(* The text of the file, on disk or in the one handle.                       *)
OneText(st, hd, fs, text) ==
    hd # None =>
        /\ DOMAIN fs = {} => \E B, ids : Rests(st, hd, B, ids) /\ Restful(st, hd, ids, text)
        /\ \A h \in DOMAIN fs :
              /\ fs[h].head = hd
              /\ \E B, ids : Held(st, fs[h], B, ids) /\ Full(st, fs[h], ids, text)

TextInv == ~failed => OneText(store, head, files, content)

(* Nothing asked for leaves a hole in the file, moves its end away from its  *)
(* last chunk, or cuts a closed file that may have an index chain.           *)
Plain ==
    /\ "seek" \notin Requests /\ "extend" \notin Requests
    /\ "closed size" \in Requests => FitsDirect

LEMMA OneTextBy ==
    ASSUME OneHandle, NEW st, NEW hd, NEW fs, DOMAIN fs \subseteq Handles,
           NEW h \in DOMAIN fs, fs[h].head = hd, NEW text,
           NEW B, NEW ids, Held(st, fs[h], B, ids), Full(st, fs[h], ids, text)
    PROVE  OneText(st, hd, fs, text)
  <1>1. \A g \in DOMAIN fs : g = h
    BY DEF OneHandle
  <1>2. DOMAIN fs # {}
    OBVIOUS
  <1> QED
    BY <1>1, <1>2 DEF OneText

LEMMA ReadFull ==
    ASSUME NEW st \in Stores, NEW of \in OpenFiles, NEW ci \in 0..MaxSize, NEW ids, NEW text,
           Full(st, of, ids, text), NEW r \in EnsureCached(st, of, ci)
    PROVE  Full(st, r.of, ids, text)
  <1>1. SameButCache(r.of, of)
    BY EnsureCachedKeeps
  <1>2. Holds(st, r.of, r.of.dirty, text)
    BY EnsureCachedHolds DEF Full
  <1>3. Fresh(st, r.of, ids)
    BY <1>1 DEF Full, Fresh, SameButCache
  <1>4. r.of.total = Len(text)
    BY <1>1 DEF Full, SameButCache
  <1> QED
    BY <1>2, <1>3, <1>4 DEF Full

(* What is left when the handle is gone. *)
LEMMA GoneRests ==
    ASSUME NEW st \in Stores, NEW of \in OpenFiles, NEW B, NEW ids, Held(st, of, B, ids),
           NEW text \in Seq(Byte), Full(st, of, ids, text), of.dirty = {}, ~of.metaDirty
    PROVE  Rests(st, of.head, B, ids) /\ Restful(st, of.head, ids, text)
  BY HeldRests, CleanRestful

(* A flush before the handle goes. *)
LEMMA FlushedRests ==
    ASSUME NEW st \in Stores, NEW of \in OpenFiles, NEW B, NEW ids, Held(st, of, B, ids),
           NEW text \in Seq(Byte), Full(st, of, ids, text), NEW r \in FlushFh(st, of), r.ok
    PROVE  \E B2, ids2 : Rests(r.st, of.head, B2, ids2) /\ Restful(r.st, of.head, ids2, text)
  <1>1. \E B2, ids2 : Held(r.st, r.of, B2, ids2) /\ Full(r.st, r.of, ids2, text)
    BY FlushFhFull
  <1>2. PICK B2, ids2 : Held(r.st, r.of, B2, ids2) /\ Full(r.st, r.of, ids2, text)
    BY <1>1
  <1>3. ~r.of.metaDirty
    BY FlushFhHeld
  <1>4. r \in Results /\ r.of.head = of.head /\ r.of.dirty = {}
    BY FlushFhKeeps
  <1>5. r.st \in Stores /\ r.of \in OpenFiles
    BY <1>4 DEF Results
  <1>6. Rests(r.st, r.of.head, B2, ids2) /\ Restful(r.st, r.of.head, ids2, text)
    BY <1>2, <1>3, <1>4, <1>5, GoneRests
  <1> QED
    BY <1>4, <1>6

LEMMA SetSizeOnDiskText ==
    ASSUME Plain, Typed, SetSizeOnDisk, OneText(store, head, files, content)
    PROVE  \E B, ids : Rests(store', head, B, ids) /\ Restful(store', head, ids, content')
  <1>1. PICK size \in SizesAsked : content' = SizeOf(content, size) /\ store' = ResizedOnDisk(store, size)
    BY SetSizeOnDiskIs
  <1>2. /\ DOMAIN files = {} /\ head \in Slots /\ store \in Stores
        /\ store.node[head].kind = "file" /\ head # None /\ FitsDirect /\ content \in Seq(Byte)
    BY StateTyped, SetSizeOnDiskIs, SlotNumbers DEF Plain
  <1>3. size \in 0..MaxSize /\ size < Len(content)
    BY <1>1, SizesAskedIs DEF Plain
  <1>4. PICK B, ids : Rests(store, head, B, ids) /\ Restful(store, head, ids, content)
    BY <1>2 DEF OneText
  <1>5. size < store.node[head].total
    BY <1>3, <1>4 DEF Restful
  <1>6. store' = Updated(Given(store, Beyond(store.node[head], size), store.node[head].chain),
                         head, CutHead(store.node[head], size))
    BY <1>1, <1>2, <1>3, <1>5, ResizedOnDiskIs DEF Given
  <1> DEFINE low == SubSeq(store.node[head].slots, 1, KeptDirect(store.node[head], size))
  <1>7. Rests(store', head, {}, low)
    BY <1>2, <1>3, <1>4, <1>6, CutRests
  <1>8. Restful(store', head, low, SizeOf(content, size))
    BY <1>2, <1>3, <1>4, <1>6, CutRestful
  <1> HIDE DEF low
  <1> QED
    BY <1>1, <1>7, <1>8

LEMMA RemountText ==
    ASSUME OneHandle, Typed, NEW r \in FlushAll(store), r.ok,
           OneText(store, head, files, content), head # None
    PROVE  \E B, ids : Rests(Mounted(r.st), head, B, ids) /\ Restful(Mounted(r.st), head, ids, content)
  <1>1. /\ store \in Stores /\ \A h \in DOMAIN files : files[h] \in OpenFiles
        /\ content \in Seq(Byte)
    BY StateTyped
  <1>2. ASSUME NEW st \in Stores, NEW B, NEW ids,
               Rests(st, head, B, ids) /\ Restful(st, head, ids, content), Mounted(r.st) = Mounted(st)
        PROVE  \E B2, ids2 : Rests(Mounted(r.st), head, B2, ids2)
                             /\ Restful(Mounted(r.st), head, ids2, content)
    <2>1. Rests(Mounted(st), head, B, ids) /\ Restful(Mounted(st), head, ids, content)
      BY <1>2, RestsMounted, MountedRestful
    <2> QED
      BY <1>2, <2>1
  <1>3. CASE DOMAIN files = {} /\ r = [ok |-> TRUE, st |-> store]
    <2>1. PICK B, ids : Rests(store, head, B, ids) /\ Restful(store, head, ids, content)
      BY <1>3 DEF OneText
    <2>2. r.st = store
      BY <1>3
    <2> QED
      BY <1>1, <1>2, <2>1, <2>2
  <1>4. ASSUME NEW h \in DOMAIN files, NEW f \in FlushFh(store, files[h]),
               r = [ok |-> f.ok, st |-> f.st], f \in Results
        PROVE  \E B, ids : Rests(Mounted(r.st), head, B, ids)
                           /\ Restful(Mounted(r.st), head, ids, content)
    <2>1. /\ files[h].head = head
          /\ \E B, ids : Held(store, files[h], B, ids) /\ Full(store, files[h], ids, content)
      BY DEF OneText
    <2>2. PICK B, ids : Held(store, files[h], B, ids) /\ Full(store, files[h], ids, content)
      BY <2>1
    <2>3. f.ok /\ r.st = f.st /\ f.st \in Stores /\ files[h] \in OpenFiles
      BY <1>1, <1>4 DEF Results
    <2>4. \E B2, ids2 : Rests(f.st, files[h].head, B2, ids2) /\ Restful(f.st, files[h].head, ids2, content)
      BY <1>1, <1>4, <2>2, <2>3, FlushedRests
    <2>5. PICK B2, ids2 : Rests(f.st, head, B2, ids2) /\ Restful(f.st, head, ids2, content)
      BY <2>1, <2>4
    <2> QED
      BY <1>2, <2>3, <2>5
  <1> QED
    BY <1>3, <1>4, FlushAllOne

(* What a file says that can be opened. *)
LEMMA OpenedReads ==
    ASSUME NEW st \in Stores, head \in Slots, NEW B, NEW ids, Rests(st, head, B, ids),
           NEW text \in Seq(Byte), Restful(st, head, ids, text)
    PROVE  Opened(st).ok /\ ReadBack(st, Opened(st).of) = text
  <1>1. Names(st, head, B, ids)
    BY DEF Rests
  <1>2. st.node[head].kind = "file" /\ IndexChain(st, st.node[head].chain).ok
    <2>1. IndexChain(st, st.node[head].chain).ok
      BY <1>1, NamesIs
    <2> QED
      BY <1>1, <2>1 DEF Names
  <1>3. Opened(st).ok
    BY <1>2, OpenedIs
  <1>4. Opened(st).of \in OpenFiles
    BY <1>3, OpenedIs
  <1>5. Held(st, Opened(st).of, B, ids)
    BY <1>3, OpenedHeld
  <1>6. Full(st, Opened(st).of, ids, text)
    BY <1>3, OpenedFull
  <1> QED
    BY <1>3, <1>4, <1>5, <1>6, ReadBackIs

LEMMA TextStep ==
    ASSUME OneHandle, Plain, Typed, Typed', SlotsInv, TextInv, [Next]_vars
    PROVE  TextInv'
  <1> SUFFICES ASSUME ~failed' PROVE OneText(store', head', files', content')
    BY DEF TextInv
  <1>1. /\ store \in Stores /\ head \in Link /\ DOMAIN files \subseteq Handles
        /\ \A h \in DOMAIN files : files[h] \in OpenFiles
        /\ held \subseteq DOMAIN files /\ content \in Seq(Byte)
    BY StateTyped
  <1>2. ~failed => OneSlots(store, head, files) /\ OneText(store, head, files, content)
    BY DEF SlotsInv, TextInv
  <1>3. ASSUME NEW h \in DOMAIN files, ~failed
        PROVE  /\ head # None /\ head \in Slots /\ files[h].head = head
               /\ \E B, ids : Held(store, files[h], B, ids) /\ Full(store, files[h], ids, content)
    <2>1. head # None
      BY <1>2, <1>3 DEF OneSlots
    <2> QED
      BY <1>1, <1>2, <1>3, <2>1 DEF OneText, Link
  <1>4. ASSUME NEW h, NEW of, Changed(h, of), head' = head, of.head = head,
               NEW B, NEW ids, Held(store', of, B, ids), Full(store', of, ids, content')
        PROVE  OneText(store', head', files', content')
    <2>1. h \in DOMAIN files' /\ files'[h] = of /\ DOMAIN files' \subseteq Handles
      BY <1>1, <1>4 DEF Changed
    <2> QED
      BY <1>4, <2>1, OneTextBy
  <1>5. ASSUME NEW h, NEW of, Added(h, of), DOMAIN files = {}, of.head = head',
               NEW B, NEW ids, Held(store', of, B, ids), Full(store', of, ids, content')
        PROVE  OneText(store', head', files', content')
    <2>1. h \in DOMAIN files' /\ files'[h] = of /\ DOMAIN files' \subseteq Handles
      BY <1>5 DEF Added
    <2> QED
      BY <1>5, <2>1, OneTextBy
  <1>6. CASE Create
    <2>1. /\ head = None /\ HasSpace(store) /\ head' = NextFree(store) /\ head' \in Slots
          /\ store' = Written(store, EmptyHead) /\ failed' = failed /\ content' = <<>>
      BY <1>6, CreateIs
    <2>2. PICK h \in Handles : Added(h, NewHandle(head'))
      BY <1>6, CreateIs
    <2>3. DOMAIN files = {} /\ Owner(store, {})
      BY <1>2, <2>1 DEF OneSlots
    <2>4. Held(store', NewHandle(head'), {}, <<>>) /\ Full(store', NewHandle(head'), <<>>, <<>>)
      BY <1>1, <2>1, <2>3, CreatedHeld, CreatedFull
    <2>5. NewHandle(head').head = head'
      BY DEF NewHandle
    <2> QED
      BY <1>5, <2>1, <2>2, <2>3, <2>4, <2>5
  <1>7. CASE Open
    <2>1. /\ head \in Slots /\ Opened(store).ok /\ UNCHANGED <<store, head, content, failed>>
          /\ head # None
      BY <1>7, OpenIs, SlotNumbers
    <2>2. PICK h \in Handles : Added(h, Opened(store).of)
      BY <1>7, OpenIs
    <2>3. DOMAIN files = {}
      BY <1>1, <2>2 DEF Added, OneHandle
    <2>4. PICK B, ids : Rests(store, head, B, ids) /\ Restful(store, head, ids, content)
      BY <1>2, <2>1, <2>3 DEF OneText
    <2>5. Held(store, Opened(store).of, B, ids) /\ Opened(store).of.head = head
      BY <1>1, <2>1, <2>4, OpenedHeld
    <2>6. Full(store, Opened(store).of, ids, content)
      BY <1>1, <2>1, <2>4, OpenedFull
    <2> QED
      BY <1>5, <2>1, <2>2, <2>3, <2>5, <2>6
  <1>8. CASE Read
    <2>1. UNCHANGED <<store, head, content, failed>>
      BY <1>8, ReadIs
    <2>2. PICK h \in held, ci \in 0..MaxSize : \E r \in EnsureCached(store, files[h], ci) :
             r \in Reached /\ Changed(h, r.of)
      BY <1>8, ReadIs
    <2>3. PICK r \in EnsureCached(store, files[h], ci) : r \in Reached /\ Changed(h, r.of)
      BY <2>2
    <2>4. h \in DOMAIN files /\ files[h] \in OpenFiles /\ files[h].head = head
      BY <1>1, <1>3, <2>1
    <2>5. PICK B, ids : Held(store, files[h], B, ids) /\ Full(store, files[h], ids, content)
      BY <1>3, <2>1, <2>4
    <2>6. SameButCache(r.of, files[h])
      BY <1>1, <2>4, EnsureCachedKeeps
    <2>7. Held(store, r.of, B, ids)
      BY <1>1, <2>5, <2>6, HeldSame DEF SameButCache
    <2>8. Full(store, r.of, ids, content)
      BY <1>1, <2>4, <2>5, ReadFull
    <2>9. r.of.head = head
      BY <2>4, <2>6 DEF SameButCache
    <2> QED
      BY <1>4, <2>1, <2>3, <2>7, <2>8, <2>9
  <1>9. CASE Write
    <2>1. PICK h \in held, from \in 0..MaxSize, to \in 0..MaxSize :
                 /\ from < to /\ ("seek" \notin Requests => from <= Len(content))
                 /\ content' = Overlaid(content, from, to, writes')
                 /\ \E r \in WriteRequest(store, files[h], from, to, writes') :
                       /\ r \in Results /\ Changed(h, r.of)
                       /\ store' = r.st /\ failed' = (failed \/ ~r.ok)
      BY <1>9, WriteIs
    <2>2. PICK r \in WriteRequest(store, files[h], from, to, writes') :
                       /\ r \in Results /\ Changed(h, r.of)
                       /\ store' = r.st /\ failed' = (failed \/ ~r.ok)
      BY <2>1
    <2>3. writes' \in Byte /\ head' = head
      BY <1>9, WriteIs
    <2>4. ~failed /\ r.ok /\ from <= Len(content)
      BY <2>1, <2>2 DEF Plain
    <2>5. h \in DOMAIN files /\ files[h] \in OpenFiles /\ files[h].head = head
      BY <1>1, <1>3, <2>4
    <2>6. PICK B, ids : Held(store, files[h], B, ids) /\ Full(store, files[h], ids, content)
      BY <1>3, <2>4, <2>5
    <2>7. Held(r.st, r.of, B, ids)
      BY <1>1, <2>1, <2>3, <2>4, <2>5, <2>6, WriteRequestHeld
    <2>8. r.of.head = head
      BY <1>1, <2>1, <2>3, <2>4, <2>5, <2>6, WriteRequestHead
    <2>9. Full(r.st, r.of, ids, Overlaid(content, from, to, writes'))
      BY <1>1, <2>1, <2>3, <2>4, <2>5, <2>6, WriteRequestFull
    <2> QED
      BY <1>4, <2>1, <2>2, <2>3, <2>7, <2>8, <2>9
  <1>10. CASE SetSize
    <2>1. PICK h \in DOMAIN files, size \in SizesAsked :
             content' = SizeOf(content, size) /\ Changed(h, Resized(files[h], size))
      BY <1>10, SetSizeIs
    <2>2. UNCHANGED <<store, head, failed>>
      BY <1>10, SetSizeIs
    <2>3. files[h] \in OpenFiles /\ files[h].head = head
      BY <1>1, <1>3, <2>1, <2>2
    <2>4. PICK B, ids : Held(store, files[h], B, ids) /\ Full(store, files[h], ids, content)
      BY <1>3, <2>2
    <2>5. size \in 0..MaxSize /\ size < Len(content)
      BY SizesAskedIs DEF Plain
    <2> DEFINE new == Resized(files[h], size)
    <2>6. /\ new.head = files[h].head /\ new.chain = files[h].chain /\ new.map = files[h].map
          /\ ~new.metaDirty => ~files[h].metaDirty
      BY <2>3, <2>5, ResizedSlots
    <2>7. Full(store, new, ids, SizeOf(content, size))
      BY <1>1, <2>3, <2>4, <2>5, ResizedFull
    <2> HIDE DEF new
    <2>8. Held(store, new, B, ids)
      BY <1>1, <2>4, <2>6, HeldSame
    <2>9. Changed(h, new)
      BY <2>1 DEF new
    <2> QED
      BY <1>4, <2>1, <2>2, <2>3, <2>6, <2>7, <2>8, <2>9
  <1>11. CASE SetSizeOnDisk
    <2>1. UNCHANGED <<head, files, failed>> /\ DOMAIN files = {}
      BY <1>11, SetSizeOnDiskIs
    <2>2. \E B, ids : Rests(store', head, B, ids) /\ Restful(store', head, ids, content')
      BY <1>2, <1>11, <2>1, SetSizeOnDiskText
    <2> QED
      BY <2>1, <2>2 DEF OneText
  <1>12. CASE Flush
    <2>1. PICK h \in held : \E r \in FlushFh(store, files[h]) :
             r \in Results /\ Changed(h, r.of) /\ store' = r.st /\ failed' = (failed \/ ~r.ok)
      BY <1>12, FlushIs
    <2>2. PICK r \in FlushFh(store, files[h]) :
             r \in Results /\ Changed(h, r.of) /\ store' = r.st /\ failed' = (failed \/ ~r.ok)
      BY <2>1
    <2>3. head' = head /\ content' = content /\ ~failed /\ r.ok
      BY <1>12, <2>2, FlushIs
    <2>4. h \in DOMAIN files /\ files[h] \in OpenFiles /\ files[h].head = head
      BY <1>1, <1>3, <2>3
    <2>5. PICK B, ids : Held(store, files[h], B, ids) /\ Full(store, files[h], ids, content)
      BY <1>3, <2>3, <2>4
    <2>6. \E B2, ids2 : Held(r.st, r.of, B2, ids2) /\ Full(r.st, r.of, ids2, content)
      BY <1>1, <2>3, <2>4, <2>5, FlushFhFull
    <2>7. PICK B2, ids2 : Held(r.st, r.of, B2, ids2) /\ Full(r.st, r.of, ids2, content)
      BY <2>6
    <2>8. r.of.head = head
      BY <1>1, <2>3, <2>4, FlushFhKeeps
    <2> QED
      BY <1>4, <2>2, <2>3, <2>7, <2>8
  <1>13. CASE Release
    <2>1. PICK h \in held : \E r \in FlushFh(store, files[h]) :
                 /\ store' = r.st /\ failed' = (failed \/ ~r.ok)
                 /\ r.ok => DOMAIN files' = DOMAIN files \ {h}
      BY <1>13, ReleaseIs
    <2>2. PICK r \in FlushFh(store, files[h]) :
                 /\ store' = r.st /\ failed' = (failed \/ ~r.ok)
                 /\ r.ok => DOMAIN files' = DOMAIN files \ {h}
      BY <2>1
    <2>3. head' = head /\ content' = content /\ ~failed /\ r.ok
      BY <1>13, <2>2, ReleaseIs
    <2>4. h \in DOMAIN files /\ files[h] \in OpenFiles /\ files[h].head = head
      BY <1>1, <1>3, <2>3
    <2>5. PICK B, ids : Held(store, files[h], B, ids) /\ Full(store, files[h], ids, content)
      BY <1>3, <2>3, <2>4
    <2>6. \E B2, ids2 : Rests(r.st, head, B2, ids2) /\ Restful(r.st, head, ids2, content)
      BY <1>1, <2>3, <2>4, <2>5, FlushedRests
    <2>7. DOMAIN files' = {}
      BY <1>1, <2>2, <2>3, <2>4 DEF OneHandle
    <2> QED
      BY <2>2, <2>3, <2>6, <2>7 DEF OneText
  <1>14. CASE Unlink
    <2>1. head' = None
      BY <1>14, UnlinkIs
    <2> QED
      BY <2>1 DEF OneText
  <1>15. CASE Remount
    <2>1. PICK r \in FlushAll(store) : store' = Mounted(r.st) /\ failed' = (failed \/ ~r.ok)
      BY <1>15, RemountIs
    <2>2. head' = head /\ content' = content /\ DOMAIN files' = {}
      BY <1>15, RemountIs DEF NoHandles
    <2>3. ~failed /\ r.ok
      BY <2>1
    <2>4. head # None => \E B, ids : Rests(store', head, B, ids) /\ Restful(store', head, ids, content)
      BY <1>2, <2>1, <2>3, RemountText
    <2> QED
      BY <2>2, <2>4 DEF OneText
  <1>16. CASE UNCHANGED vars
    BY <1>2, <1>16 DEF vars
  <1> QED
    BY <1>6, <1>7, <1>8, <1>9, <1>10, <1>11, <1>12, <1>13, <1>14, <1>15, <1>16 DEF Next

LEMMA TextAlways == OneHandle /\ Plain /\ Spec => []Typed /\ []SlotsInv /\ []TextInv
  <1> SUFFICES ASSUME OneHandle, Plain PROVE Spec => []Typed /\ []SlotsInv /\ []TextInv
    OBVIOUS
  <1>1. Init => TextInv
    <2>1. Init => head = None
      BY DEF Init
    <2> QED
      BY <2>1 DEF TextInv, OneText
  <1>2. Typed /\ Typed' /\ SlotsInv /\ TextInv /\ [Next]_vars => TextInv'
    BY TextStep
  <1>3. Spec => []Typed /\ []SlotsInv
    BY TypedAlways, SlotsAlways
  <1> QED
    BY <1>1, <1>2, <1>3, PTL DEF Spec

LEMMA TextMeans ==
    ASSUME OneHandle, Typed, SlotsInv, TextInv
    PROVE  ReadsSeeWrites /\ FlushedIsOnDisk
  <1>1. /\ store \in Stores /\ held \subseteq DOMAIN files /\ content \in Seq(Byte)
        /\ \A h \in DOMAIN files : files[h] \in OpenFiles
        /\ head # None => head \in Slots
    BY StateTyped
  <1>2. ~failed => OneSlots(store, head, files) /\ OneText(store, head, files, content)
    BY DEF SlotsInv, TextInv
  <1>3. ASSUME ~failed, NEW h \in DOMAIN files
        PROVE  /\ head # None /\ files[h].head = head
               /\ \E B, ids : Held(store, files[h], B, ids) /\ Full(store, files[h], ids, content)
    <2>1. head # None
      BY <1>2, <1>3 DEF OneSlots
    <2> QED
      BY <1>2, <1>3, <2>1 DEF OneText
  <1>4. ASSUME ~failed, NEW h \in held
        PROVE  ReadBack(store, files[h]) = content
    <2>1. h \in DOMAIN files /\ files[h] \in OpenFiles
      BY <1>1
    <2>2. PICK B, ids : Held(store, files[h], B, ids) /\ Full(store, files[h], ids, content)
      BY <1>3, <1>4, <2>1
    <2> QED
      BY <1>1, <2>1, <2>2, ReadBackIs
  <1>5. ASSUME ~failed, head # None, AllClean
        PROVE  Opened(store).ok /\ ReadBack(store, Opened(store).of) = content
    <2>1. \E B, ids : Rests(store, head, B, ids) /\ Restful(store, head, ids, content)
      <3>1. CASE DOMAIN files = {}
        BY <1>2, <1>5, <3>1 DEF OneText
      <3>2. ASSUME NEW h \in DOMAIN files
            PROVE  \E B, ids : Rests(store, head, B, ids) /\ Restful(store, head, ids, content)
        <4>1. PICK B, ids : Held(store, files[h], B, ids) /\ Full(store, files[h], ids, content)
          BY <1>3, <1>5
        <4>2. files[h].dirty = {} /\ ~files[h].metaDirty
          BY <1>5 DEF AllClean, Clean
        <4>3. files[h].head = head /\ files[h] \in OpenFiles
          BY <1>1, <1>3, <1>5
        <4>4. Rests(store, files[h].head, B, ids) /\ Restful(store, files[h].head, ids, content)
          BY <1>1, <4>1, <4>2, <4>3, GoneRests
        <4> QED
          BY <4>3, <4>4
      <3> QED
        BY <3>1, <3>2
    <2>2. PICK B, ids : Rests(store, head, B, ids) /\ Restful(store, head, ids, content)
      BY <2>1
    <2> QED
      BY <1>1, <1>5, <2>2, OpenedReads
  <1> QED
    BY <1>4, <1>5 DEF ReadsSeeWrites, FlushedIsOnDisk

(* With one handle at a time, no write beyond the end, no setattr(size)      *)
(* beyond it, and closed files cut only where they need no index chain: a    *)
(* read through the handle returns what the writes and truncations answered  *)
(* so far make of the file, whatever ensure_cached evicted, op_write wrote   *)
(* through or flush_fh has on disk by then, and across closing, opening and  *)
(* mounting again (op_read, op_write, op_setattr, op_release, op_open).      *)
THEOREM WritesAreRead ==
    ASSUME OneHandle, Plain
    PROVE  Spec => []ReadsSeeWrites
  <1>1. Typed /\ SlotsInv /\ TextInv => ReadsSeeWrites
    BY TextMeans
  <1>2. Spec => []Typed /\ []SlotsInv /\ []TextInv
    BY TextAlways
  <1> QED
    BY <1>1, <1>2, PTL

(* Under the same hypotheses a file whose handle is flushed, or closed, can  *)
(* be opened, and its head, direct slots, index chain and inline chunk give  *)
(* the whole content back (flush_fh, write_index_chain, build_slot_map).     *)
THEOREM FlushedReadsBack ==
    ASSUME OneHandle, Plain
    PROVE  Spec => []FlushedIsOnDisk
  <1>1. Typed /\ SlotsInv /\ TextInv => FlushedIsOnDisk
    BY TextMeans
  <1>2. Spec => []Typed /\ []SlotsInv /\ []TextInv
    BY TextAlways
  <1> QED
    BY <1>1, <1>2, PTL

=============================================================================
