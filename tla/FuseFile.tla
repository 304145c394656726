------------------------------ MODULE FuseFile ------------------------------
(***************************************************************************)
(* The life of one file under vnmcore/src/fs/fuse.rs: create, open, read,  *)
(* write, setattr(size), flush, release, unlink and unmount, with the chunk*)
(* cache of each open handle, the slot map, the direct slots and the index *)
(* chain of vnmcore/src/storage/vault_fs.rs.                               *)
(*                                                                         *)
(* FUSE requests reach VenomFuse one at a time (`&mut self'), so a request *)
(* is one action.  A byte is a number: 0, or the number of the write that  *)
(* put it there.  The volume below hands out its lowest free slot; nothing *)
(* stops a slot from being freed twice, so the free list is a bag.         *)
(***************************************************************************)
EXTENDS Integers, Sequences, FiniteSets, SequencesExt

CONSTANTS
    Slots,          \* slots of the volume this file may get
    Handles,        \* file handles the kernel may hold at once
    Requests,       \* which of RequestKinds the kernel may send
    ChunkSize,      \* CHUNK_SIZE, in bytes of the model
    MaxDirect,      \* MAX_DIRECT_SLOTS
    MaxIndex,       \* MAX_INDEX_SLOTS
    MaxCache,       \* MAX_CACHE_CHUNKS
    WriteThrough,   \* WRITE_THROUGH_THRESHOLD
    IdsPerByte,     \* slot ids that take the room of one byte of chunk 0
    HeadRoom,       \* slot ids that fit in a head block with no data
    WriteLengths,   \* bound: lengths of write requests
    MaxSize,        \* bound: file size
    MaxWrites       \* bound: write requests

(* "seek": write past the end; "truncate", "extend": setattr(size); on a     *)
(* file without a handle only with "closed size"; "unlink" of a file without *)
(* a handle, "unlink open" of one with.                                      *)
RequestKinds == {"seek", "truncate", "extend", "closed size", "unlink", "unlink open"}

ASSUME SlotsArePositive == Slots \subseteq Nat \ {0} /\ IsFiniteSet(Slots)
ASSUME RequestsAssumption == Requests \subseteq RequestKinds
ASSUME SizesAssumption ==
    /\ {ChunkSize, MaxDirect, MaxIndex, MaxCache} \subseteq Nat \ {0}
    /\ {WriteThrough, IdsPerByte, HeadRoom, MaxSize, MaxWrites} \subseteq Nat
    /\ WriteLengths \subseteq Nat \ {0}

VARIABLES
    store,      \* [node: slot -> what it decrypts to, free: slot -> times on the free list]
    head,       \* slot the directory entry names, or None
    files,      \* open_files: handle -> OpenFile
    held,       \* handles the kernel has not released
    content,    \* history: what the file should hold by the requests answered with Ok
    writes,     \* history: number of write requests
    failed      \* history: some request was answered with an error

vars == <<store, head, files, held, content, writes, failed>>

None == 0

Noise == [kind |-> "noise"]
FileBlock(total, slots, chain, data) ==
    [kind |-> "file", total |-> total, slots |-> slots, chain |-> chain, data |-> data]
FileDataBlock(data) == [kind |-> "data", data |-> data]
FileIndexBlock(ids, next) == [kind |-> "index", ids |-> ids, next |-> next]

Zeros(n) == [i \in 1..n |-> 0]

(* A loop: what n rounds make of what there is at the start. *)
Iterate(Round(_, _), start, n) ==
    LET after[i \in 0..n] == IF i = 0 THEN start ELSE Round(i, after[i - 1])
    IN  after[n]

-----------------------------------------------------------------------------
(* The volume: write_node, update_node, free_node.                           *)

HasSpace(st) == \E s \in Slots : st.free[s] > 0

NextFree(st) == Min({s \in Slots : st.free[s] > 0})

Updated(st, s, node) == [st EXCEPT !.node[s] = node]

(* Mutated form of Written: the slot stays on the free list. *)
WrittenNotTaken(st, node) == Updated(st, NextFree(st), node)

Written(st, node) ==
    [node |-> [st.node EXCEPT ![NextFree(st)] = node],
     free |-> [st.free EXCEPT ![NextFree(st)] = @ - 1]]

Freed(st, s) ==
    [node |-> [st.node EXCEPT ![s] = Noise], free |-> [st.free EXCEPT ![s] = @ + 1]]

FreedAll(st, ids) ==
    [node |-> [s \in Slots |-> IF s \in ToSet(ids) THEN Noise ELSE st.node[s]],
     free |-> [s \in Slots |-> st.free[s] + Cardinality({i \in DOMAIN ids : ids[i] = s})]]

(* SlotStore::write refuses a block that does not fit in one slot; only a    *)
(* head block, which holds chunk 0 and the direct ids, can be that large.    *)
Fits(node) == Len(node.slots) + IdsPerByte * Len(node.data) <= HeadRoom

(* build_slot_map along an index chain: the ids and the blocks it meets.  A  *)
(* chain that is longer than there are slots runs into a loop, on which the  *)
(* code would never return; it counts as one that cannot be read.            *)
IndexChain(st, first) ==
    LET Follow(i, r) ==
            IF r.next = None \/ ~r.ok THEN r
            ELSE IF st.node[r.next].kind # "index"
            THEN [r EXCEPT !.ok = FALSE, !.blocks = @ \union {r.next}]
            ELSE [ok |-> TRUE, next |-> st.node[r.next].next,
                  ids |-> r.ids \o st.node[r.next].ids, blocks |-> r.blocks \union {r.next}]
        end == Iterate(Follow, [ok |-> TRUE, next |-> first, ids |-> <<>>, blocks |-> {}],
                       Cardinality(Slots))
    IN  [end EXCEPT !.ok = @ /\ end.next = None]

(* free_index_chain: also frees the slot at which it stops understanding,    *)
(* which a slot that it has freed before is.                                 *)
ChainFreed(st, first) ==
    LET FreeNext(i, r) ==
            IF r.next = None THEN r
            ELSE [st |-> Freed(r.st, r.next),
                  next |-> IF r.st.node[r.next].kind = "index" THEN r.st.node[r.next].next
                           ELSE None]
    IN  Iterate(FreeNext, [st |-> st, next |-> first], Cardinality(Slots) + 1).st

(* Mutated form of ChainWritten: one block for all the ids. *)
ChainWrittenOneBlock(st, ids) ==
    IF ids = <<>> THEN [ok |-> TRUE, st |-> st, chain |-> None]
    ELSE IF ~HasSpace(st) THEN [ok |-> FALSE, st |-> st, chain |-> None]
    ELSE [ok |-> TRUE, st |-> Written(st, FileIndexBlock(ids, None)), chain |-> NextFree(st)]

(* write_index_chain: the last ids first, each block naming the one before. *)
ChainWritten(st, ids) ==
    LET WriteBlock(i, r) ==
            LET rest == Max({0, Len(r.ids) - MaxIndex})
            IN  IF r.ids = <<>> \/ ~r.ok THEN r
                ELSE IF ~HasSpace(r.st) THEN [r EXCEPT !.ok = FALSE]
                ELSE [ok |-> TRUE, ids |-> SubSeq(r.ids, 1, rest), chain |-> NextFree(r.st),
                      st |-> Written(r.st, FileIndexBlock(SubSeq(r.ids, rest + 1, Len(r.ids)),
                                                          r.chain))]
    IN  Iterate(WriteBlock, [ok |-> TRUE, st |-> st, ids |-> ids, chain |-> None], Len(ids))

-----------------------------------------------------------------------------
(* An open handle.  map[ci + 1] is slot_map[ci].                             *)

Chunks(size) == (size + ChunkSize - 1) \div ChunkSize

(* chunk_actual_size, for a chunk that starts before the end. *)
ChunkLength(ci, size) == Min({size - ci * ChunkSize, ChunkSize})

Clean(of) == of.dirty = {} /\ ~of.metaDirty

Continuation(of) == {ci \in of.dirty : ci >= 1}

(* What ensure_cached reads from disk on a miss; EIO is no byte string. *)
EIO == <<-1>>

Loaded(st, of, ci) ==
    IF ci >= Len(of.map) THEN EIO
    ELSE IF ci = 0
    THEN IF st.node[of.head].kind = "file" THEN st.node[of.head].data ELSE EIO
    ELSE IF of.map[ci + 1] = None THEN <<>>
    ELSE IF st.node[of.map[ci + 1]].kind = "data" THEN st.node[of.map[ci + 1]].data
    ELSE EIO

Caching(cache, ci, data) ==
    [k \in DOMAIN cache \union {ci} |-> IF k = ci THEN data ELSE cache[k]]

(* Mutated form of Evictions: a dirty chunk may go too. *)
EvictionsOfAny(of) ==
    IF Cardinality(DOMAIN of.cache) < MaxCache THEN {of.cache}
    ELSE {Restrict(of.cache, DOMAIN of.cache \ {k}) : k \in DOMAIN of.cache}

(* The cache after a full one has dropped some clean chunk, if it has one. *)
Evictions(of) ==
    LET clean == DOMAIN of.cache \ of.dirty
    IN IF Cardinality(DOMAIN of.cache) < MaxCache \/ clean = {}
       THEN {of.cache}
       ELSE {Restrict(of.cache, DOMAIN of.cache \ {k}) : k \in clean}

(* ensure_cached: the possible results. *)
EnsureCached(st, of, ci) ==
    IF ci \in DOMAIN of.cache THEN {[ok |-> TRUE, of |-> of]}
    ELSE IF Loaded(st, of, ci) = EIO THEN {[ok |-> FALSE, of |-> of]}
    ELSE {[ok |-> TRUE, of |-> [of EXCEPT !.cache = Caching(c, ci, Loaded(st, of, ci))]] :
             c \in Evictions(of)}

-----------------------------------------------------------------------------
(* op_write.                                                                 *)

(* bytes[from..to-1] = tag, the gap before them filled with zeros. *)
Overlaid(bytes, from, to, tag) ==
    [i \in 1..Max({Len(bytes), to}) |->
        IF i \in (from + 1)..to THEN tag ELSE IF i <= Len(bytes) THEN bytes[i] ELSE 0]

MapExtended(of, ci) ==
    IF ci < Len(of.map) THEN of
    ELSE [of EXCEPT !.map = @ \o [i \in 1..(ci + 1 - Len(@)) |-> None], !.metaDirty = TRUE]

(* A brand-new chunk enters the cache without ensure_cached and its limit. *)
WriteReady(st, of, ci) ==
    IF ci # 0 /\ ci \notin DOMAIN of.cache /\ of.map[ci + 1] = None
    THEN {[ok |-> TRUE, of |-> [of EXCEPT !.cache = Caching(@, ci, Zeros(ChunkSize))]]}
    ELSE EnsureCached(st, of, ci)

(* The part of bytes from..to-1 that falls into chunk ci. *)
WriteChunk(st, of, ci, from, to, tag) ==
    LET lo == Max({0, from - ci * ChunkSize})
        hi == Min({to - ci * ChunkSize, ChunkSize})
    IN  {IF r.ok
         THEN [r EXCEPT !.of.cache = Caching(@, ci, Overlaid(@[ci], lo, hi, tag)),
                        !.of.dirty = @ \union {ci},
                        !.of.total = Max({@, to}),
                        !.of.metaDirty = @ \/ to > r.of.total]
         ELSE r : r \in WriteReady(st, MapExtended(of, ci), ci)}

WriteChunks(st, of, from, to, tag) ==
    LET first == from \div ChunkSize
        WriteNext(i, rs) ==
            UNION {IF r.ok THEN WriteChunk(st, r.of, first + i - 1, from, to, tag) ELSE {r} :
                      r \in rs}
    IN  Iterate(WriteNext, {[ok |-> TRUE, of |-> of]}, Chunks(to) - first)

(* One continuation chunk written to its slot, or to a new one; a chunk that *)
(* is not cached or lies beyond the map is passed over.                      *)
WriteBack(st, of, ci) ==
    IF ci \notin DOMAIN of.cache \/ ci >= Len(of.map)
    THEN [ok |-> TRUE, st |-> st, of |-> of]
    ELSE IF of.map[ci + 1] # None
    THEN [ok |-> TRUE, of |-> of,
          st |-> Updated(st, of.map[ci + 1], FileDataBlock(of.cache[ci]))]
    ELSE IF HasSpace(st)
    THEN [ok |-> TRUE, st |-> Written(st, FileDataBlock(of.cache[ci])),
          of |-> [of EXCEPT !.map[ci + 1] = NextFree(st), !.metaDirty = TRUE]]
    ELSE [ok |-> FALSE, st |-> st, of |-> of]

Dropped(of, ci) ==
    IF ci \in DOMAIN of.cache /\ ci < Len(of.map)
    THEN [of EXCEPT !.dirty = @ \ {ci}, !.cache = Restrict(@, DOMAIN @ \ {ci})]
    ELSE of

(* write_through_flush of the n lowest of the dirty continuation chunks. *)
WriteThroughFlush(st, of, n) ==
    {LET WriteNext(i, r) ==
             LET w == WriteBack(r.st, r.of, order[i])
             IN  IF ~r.ok THEN r
                 ELSE IF ~w.ok THEN w ELSE [w EXCEPT !.of = Dropped(@, order[i])]
     IN  Iterate(WriteNext, [ok |-> TRUE, st |-> st, of |-> of], n) :
        order \in {q \in SetToSeqs(Continuation(of)) : \A i \in 2..Len(q) : q[i - 1] < q[i]}}

(* Mutated form of WrittenThrough: the threshold is never looked at. *)
WrittenNever(st, of) == {[ok |-> TRUE, st |-> st, of |-> of]}

WrittenThrough(st, of) ==
    LET n == Cardinality(Continuation(of))
    IN  IF n > WriteThrough THEN WriteThroughFlush(st, of, n - WriteThrough \div 2)
        ELSE {[ok |-> TRUE, st |-> st, of |-> of]}

WriteRequest(st, of, from, to, tag) ==
    UNION {IF r.ok THEN WrittenThrough(st, r.of) ELSE {[ok |-> FALSE, st |-> st, of |-> r.of]} :
              r \in WriteChunks(st, of, from, to, tag)}

-----------------------------------------------------------------------------
(* flush_fh.                                                                 *)

(* Step 1, in the order a HashSet happens to give. *)
FlushChunks(st, of) ==
    {LET WriteNext(i, r) == IF r.ok THEN WriteBack(r.st, r.of, order[i]) ELSE r
     IN  Iterate(WriteNext, [ok |-> TRUE, st |-> st, of |-> of], Len(order)) :
        order \in SetToSeqs(Continuation(of))}

(* The slots in a map, without the gaps. *)
Present(map) ==
    LET Keep(i, ids) == IF map[i] = None THEN ids ELSE Append(ids, map[i])
    IN  Iterate(Keep, <<>>, Len(map))

(* Mutated forms of FlushExcess: the last chunk goes too; the slots are      *)
(* freed and stay in the map; the map is cut and the slots are not freed.    *)
FlushExcessOneMore(st, of) ==
    LET keep == Max({Chunks(of.total) - 1, 1})
    IN IF Len(of.map) <= keep THEN [st |-> st, of |-> of]
       ELSE [st |-> FreedAll(st, Present(SubSeq(of.map, keep + 1, Len(of.map)))),
             of |-> [of EXCEPT !.map = SubSeq(@, 1, keep), !.metaDirty = TRUE]]

FlushExcessNotDrained(st, of) ==
    LET keep == Max({Chunks(of.total), 1})
    IN [st |-> FreedAll(st, Present(SubSeq(of.map, keep + 1, Len(of.map)))), of |-> of]

FlushExcessNotFreed(st, of) ==
    [st |-> st, of |-> [of EXCEPT !.map = SubSeq(@, 1, Min({Len(@), Max({Chunks(of.total), 1})})),
                                  !.metaDirty = TRUE]]

(* Step 2: the slots beyond the end of a truncated file. *)
FlushExcess(st, of) ==
    LET keep == Max({Chunks(of.total), 1})
    IN IF Len(of.map) <= keep THEN [st |-> st, of |-> of]
       ELSE [st |-> FreedAll(st, Present(SubSeq(of.map, keep + 1, Len(of.map)))),
             of |-> [of EXCEPT !.map = SubSeq(@, 1, keep), !.metaDirty = TRUE]]

(* The bytes that go into the head with the new metadata. *)
HeadData(st, of) ==
    IF 0 \notin DOMAIN of.cache THEN st.node[of.head].data
    ELSE IF of.total = 0 THEN of.cache[0]
    ELSE SubSeq(of.cache[0], 1, Min({Len(of.cache[0]), ChunkLength(0, of.total)}))

(* Step 3: free the old index chain, write the new one, then the head.  A    *)
(* failure in between leaves of.index_chain at the freed chain.              *)
FlushHead(st, of) ==
    LET cont   == Present(SubSeq(of.map, 2, Max({1, Min({Len(of.map), Chunks(of.total)})})))
        direct == SubSeq(cont, 1, Min({Len(cont), MaxDirect}))
        index  == ChainWritten(ChainFreed(st, of.chain), SubSeq(cont, MaxDirect + 1, Len(cont)))
        node   == FileBlock(of.total, direct, index.chain, HeadData(st, of))
        after  == [of EXCEPT !.chain = index.chain]
    IN IF 0 \notin DOMAIN of.cache /\ st.node[of.head].kind # "file"
       THEN [ok |-> FALSE, st |-> st, of |-> of]
       ELSE IF ~index.ok THEN [ok |-> FALSE, st |-> index.st, of |-> of]
       ELSE IF ~Fits(node) THEN [ok |-> FALSE, st |-> index.st, of |-> after]
       ELSE [ok |-> TRUE, st |-> Updated(index.st, of.head, node), of |-> after]

FlushTail(st, of) ==
    LET cut  == FlushExcess(st, of)
        last == IF cut.of.metaDirty \/ 0 \in cut.of.dirty THEN FlushHead(cut.st, cut.of)
                ELSE [ok |-> TRUE, st |-> cut.st, of |-> cut.of]
    IN IF last.ok THEN [last EXCEPT !.of.dirty = {}, !.of.metaDirty = FALSE] ELSE last

FlushFh(st, of) ==
    IF Clean(of) THEN {[ok |-> TRUE, st |-> st, of |-> of]}
    ELSE {IF r.ok THEN FlushTail(r.st, r.of) ELSE r : r \in FlushChunks(st, of)}

-----------------------------------------------------------------------------
(* setattr(size) on a handle: only the cache is cut, slots and map wait for  *)
(* the flush; an extension just moves the end.                               *)
Resized(of, size) ==
    IF size = of.total THEN of
    ELSE IF size > of.total THEN [of EXCEPT !.total = size, !.metaDirty = TRUE]
    ELSE LET last == IF size = 0 THEN 0 ELSE (size - 1) \div ChunkSize
             cut  == IF size = 0 THEN 0 ELSE ChunkLength(last, size)
             kept == {ci \in DOMAIN of.cache : ci <= last}
         IN [of EXCEPT
                !.total = size,
                !.metaDirty = TRUE,
                !.dirty = {ci \in @ : ci <= last} \union (IF size > 0 THEN {last} ELSE {}),
                !.cache = [ci \in kept |->
                    IF ci = last THEN SubSeq(@[ci], 1, Min({Len(@[ci]), cut})) ELSE @[ci]]]

(* setattr(size) with no handle, on the head block itself. *)
ResizedOnDisk(st, size) ==
    LET fb   == st.node[head]
        keep == Min({Max({Chunks(size) - 1, 0}), Len(fb.slots)})
        cut  == FileBlock(size, SubSeq(fb.slots, 1, keep), None,
                          SubSeq(fb.data, 1, Min({Len(fb.data), size})))
    IN IF size < fb.total
       THEN Updated(ChainFreed(FreedAll(st, SubSeq(fb.slots, keep + 1, Len(fb.slots))), fb.chain),
                    head, cut)
       ELSE Updated(st, head, [fb EXCEPT !.total = size])

(* build_slot_map and the first chunk: the handle op_open makes. *)
Opened(st) ==
    LET fb    == st.node[head]
        index == IndexChain(st, fb.chain)
        data  == IF fb.data = <<>> THEN {} ELSE {0}
    IN IF fb.kind # "file" THEN [ok |-> FALSE]
       ELSE IF ~index.ok THEN [ok |-> FALSE]
       ELSE [ok |-> TRUE,
             of |-> [head |-> head, total |-> fb.total, chain |-> fb.chain,
                     map |-> <<None>> \o fb.slots \o index.ids,
                     cache |-> [ci \in data |-> fb.data],
                     dirty |-> {}, metaDirty |-> FALSE]]

NewHandle(s) ==
    [head |-> s, total |-> 0, chain |-> None, map |-> <<None>>, cache |-> [ci \in {} |-> <<>>],
     dirty |-> {}, metaDirty |-> FALSE]

(* op_read of the whole file; it stops at a chunk that is too short. *)
ReadBack(st, of) ==
    LET ReadNext(i, r) ==
            LET data == IF i - 1 \in DOMAIN of.cache THEN of.cache[i - 1] ELSE Loaded(st, of, i - 1)
                want == ChunkLength(i - 1, of.total)
            IN  IF ~r.more THEN r
                ELSE IF data = EIO THEN [bytes |-> r.bytes \o EIO, more |-> FALSE]
                ELSE [bytes |-> r.bytes \o SubSeq(data, 1, Min({Len(data), want})),
                      more |-> Len(data) >= want]
    IN  Iterate(ReadNext, [bytes |-> <<>>, more |-> TRUE], Chunks(of.total)).bytes

-----------------------------------------------------------------------------
Init ==
    /\ store = [node |-> [s \in Slots |-> Noise], free |-> [s \in Slots |-> 1]]
    /\ head = None
    /\ files = [h \in {} |-> NewHandle(None)]
    /\ held = {}
    /\ content = <<>>
    /\ writes = 0
    /\ failed = FALSE

Handed(h, of) ==
    /\ files' = [k \in DOMAIN files \union {h} |-> IF k = h THEN of ELSE files[k]]
    /\ held' = held \union {h}

Closed(hs) ==
    /\ files' = Restrict(files, DOMAIN files \ hs)
    /\ held' = held \ hs

Create ==
    /\ head = None
    /\ HasSpace(store)
    /\ store' = Written(store, FileBlock(0, <<>>, None, <<>>))
    /\ head' = NextFree(store)
    /\ content' = <<>>
    /\ \E h \in Handles \ DOMAIN files : Handed(h, NewHandle(NextFree(store)))
    /\ UNCHANGED <<writes, failed>>

Open ==
    /\ head # None
    /\ Opened(store).ok
    /\ \E h \in Handles \ DOMAIN files : Handed(h, Opened(store).of)
    /\ UNCHANGED <<store, head, content, writes, failed>>

(* op_read within one chunk; a longer read is a row of these. *)
Read ==
    \E h \in held :
        /\ \E ci \in 0..(Chunks(files[h].total) - 1) :
              \E r \in EnsureCached(store, files[h], ci) : files' = [files EXCEPT ![h] = r.of]
        /\ UNCHANGED <<store, head, held, content, writes, failed>>

Write ==
    /\ writes < MaxWrites
    /\ writes' = writes + 1
    /\ \E h \in held, len \in WriteLengths :
          \E from \in 0..(IF "seek" \in Requests THEN MaxSize ELSE Len(content)) :
              /\ from + len <= MaxSize
              /\ \E r \in WriteRequest(store, files[h], from, from + len, writes') :
                    /\ store' = r.st
                    /\ files' = [files EXCEPT ![h] = r.of]
                    /\ failed' = (failed \/ ~r.ok)
              /\ content' = Overlaid(content, from, from + len, writes')
    /\ UNCHANGED <<head, held>>

SizesAsked ==
    {size \in 0..MaxSize :
        \/ "truncate" \in Requests /\ size < Len(content)
        \/ "extend" \in Requests /\ size > Len(content)}

SizeOf(bytes, size) ==
    [i \in 1..size |-> IF i <= Len(bytes) THEN bytes[i] ELSE 0]

(* The handle the kernel names, or else any handle of the inode. *)
SetSize ==
    /\ \E h \in DOMAIN files, size \in SizesAsked :
          /\ files' = [files EXCEPT ![h] = Resized(@, size)]
          /\ content' = SizeOf(content, size)
    /\ UNCHANGED <<store, head, held, writes, failed>>

SetSizeOnDisk ==
    /\ "closed size" \in Requests
    /\ DOMAIN files = {} /\ head # None
    /\ store.node[head].kind = "file"
    /\ \E size \in SizesAsked :
          /\ store' = ResizedOnDisk(store, size)
          /\ content' = SizeOf(content, size)
    /\ UNCHANGED <<head, files, held, writes, failed>>

(* op_flush, for flush and fsync. *)
Flush ==
    \E h \in held :
        /\ ~Clean(files[h])
        /\ \E r \in FlushFh(store, files[h]) :
              /\ store' = r.st
              /\ files' = [files EXCEPT ![h] = r.of]
              /\ failed' = (failed \/ ~r.ok)
        /\ UNCHANGED <<head, held, content, writes>>

(* op_release; its error goes nowhere and the handle stays behind. *)
Release ==
    \E h \in held : \E r \in FlushFh(store, files[h]) :
        /\ store' = r.st
        /\ IF r.ok THEN Closed({h})
           ELSE /\ files' = [files EXCEPT ![h] = r.of]
                /\ held' = held \ {h}
        /\ failed' = (failed \/ ~r.ok)
        /\ UNCHANGED <<head, content, writes>>

(* op_unlink: the handles go, then the slots that the head names. *)
Unlink ==
    /\ head # None
    /\ (IF DOMAIN files = {} THEN "unlink" ELSE "unlink open") \in Requests
    /\ LET fb == store.node[head]
       IN store' = Freed(IF fb.kind = "file"
                         THEN ChainFreed(FreedAll(store, fb.slots), fb.chain) ELSE store, head)
    /\ head' = None
    /\ content' = <<>>
    /\ Closed(DOMAIN files)
    /\ UNCHANGED <<writes, failed>>

(* Of every handle, in the order a HashMap happens to give. *)
FlushAll(st) ==
    UNION {LET FlushNext(i, rs) ==
                   UNION {{[ok |-> r.ok /\ f.ok, st |-> f.st] :
                              f \in FlushFh(r.st, files[order[i]])} : r \in rs}
           IN  Iterate(FlushNext, {[ok |-> TRUE, st |-> st]}, Len(order)) :
              order \in SetToSeqs(DOMAIN files)}

(* Drop for VenomFuse, and the next mount, whose free list comes from a      *)
(* bitmap.                                                                   *)
Remount ==
    /\ \E r \in FlushAll(store) :
          /\ store' = [r.st EXCEPT !.free = [s \in Slots |-> Min({@[s], 1})]]
          /\ failed' = (failed \/ ~r.ok)
    /\ Closed(DOMAIN files)
    /\ UNCHANGED <<head, content, writes>>

Next == \/ Create \/ Open \/ Read \/ Write \/ SetSize \/ SetSizeOnDisk
        \/ Flush \/ Release \/ Unlink \/ Remount

Spec == Init /\ [][Next]_vars

-----------------------------------------------------------------------------
(***************************************************************************)
(* Properties.                                                             *)
(***************************************************************************)

Link == Slots \union {None}

Byte == 0..MaxWrites

Chunk == {data \in Seq(Byte) : Len(data) <= ChunkSize}

Nodes ==
    {Noise}
    \union [kind: {"data"}, data: Chunk]
    \union [kind: {"index"}, ids: {q \in Seq(Slots) : Len(q) <= MaxIndex}, next: Link]
    \union [kind: {"file"}, total: 0..MaxSize, slots: {q \in Seq(Slots) : Len(q) <= MaxDirect},
            chain: Link, data: Chunk]

Stores == [node: [Slots -> Nodes], free: [Slots -> Nat]]

IsCache(cache) ==
    /\ cache = [ci \in DOMAIN cache |-> cache[ci]]
    /\ DOMAIN cache \subseteq 0..MaxSize
    /\ \A ci \in DOMAIN cache : cache[ci] \in Chunk

IsOpenFile(of) ==
    /\ of \in [head: Slots, total: 0..MaxSize, chain: Link,
               map: {q \in Seq(Link) : Len(q) >= 1 /\ q[1] = None},
               cache: {of.cache}, dirty: SUBSET (0..MaxSize), metaDirty: BOOLEAN]
    /\ IsCache(of.cache)

TypeOK ==
    /\ store \in Stores
    /\ head \in Link
    /\ files = [h \in DOMAIN files |-> files[h]]
    /\ DOMAIN files \subseteq Handles /\ held \subseteq DOMAIN files
    /\ \A h \in DOMAIN files : IsOpenFile(files[h])
    /\ content \in Seq(Byte) /\ Len(content) <= MaxSize
    /\ writes \in 0..MaxWrites
    /\ failed \in BOOLEAN

(* What a read through any handle returns is what the writes and truncations *)
(* answered so far make of the file, whatever was evicted, written through   *)
(* or flushed in between (op_read, op_write, ensure_cached, flush_fh).       *)
ReadsSeeWrites ==
    ~failed => \A h \in held : ReadBack(store, files[h]) = content

AllClean == \A h \in DOMAIN files : Clean(files[h])

(* Once every handle is flushed, the slots alone give the whole file back:   *)
(* direct ids, index chain and inline chunk agree (flush_fh, write_index_    *)
(* chain, build_slot_map).                                                   *)
FlushedIsOnDisk ==
    ~failed /\ head # None /\ AllClean =>
        Opened(store).ok /\ ReadBack(store, Opened(store).of) = content

(* What the head names, also where open would give up on its chain. *)
SlotsOnDisk ==
    LET fb    == store.node[head]
        index == IndexChain(store, fb.chain)
    IN  IF head = None THEN {}
        ELSE IF fb.kind # "file" THEN {head}
        ELSE {head} \union Range(fb.slots) \union index.blocks
             \union (IF index.ok THEN Range(index.ids) ELSE {})

SlotsInHand == UNION {Range(files[h].map) \ {None} : h \in DOMAIN files}

(* The file's slots and the free list exclude each other, and no slot is     *)
(* freed twice: alloc never hands a slot of this file to another one         *)
(* (flush_fh, write_through_flush, free_index_chain, op_unlink).             *)
NoSlotFreedTwice ==
    /\ \A s \in Slots : store.free[s] <= 1
    /\ \A s \in SlotsOnDisk \union SlotsInHand : store.free[s] = 0

(* A slot that the file no longer names is back on the free list as soon as  *)
(* every handle is flushed, and after an unlink all of them are.             *)
NoSlotLeaked ==
    ~failed /\ AllClean => \A s \in Slots \ SlotsOnDisk : store.free[s] > 0

(* Write-through keeps the unwritten chunks a handle has in memory within    *)
(* its threshold after every request, as long as nobody truncates: then      *)
(* chunks marked dirty and not cached can crowd out the ones that are        *)
(* (op_write, write_through_flush).                                          *)
DirtyBounded ==
    ~failed => \A h \in DOMAIN files :
        Cardinality(Continuation(files[h]) \intersect DOMAIN files[h].cache) <= WriteThrough

-----------------------------------------------------------------------------
(* What the documentation says.                                             *)

(* fuse.rs:94, 110-111: slot_map[i] is the slot of chunk i, and open rebuilds *)
(* it.  So once all is flushed, a new handle gets the map every other has.   *)
MapIsRebuilt ==
    ~failed /\ head # None /\ AllClean =>
        \A h \in DOMAIN files : Opened(store).ok /\ Opened(store).of.map = files[h].map

(* vault_fs.rs:6-8: a head holds up to MAX_DIRECT_SLOTS ids before it spills *)
(* into an index chain; so with slots to spare no request fails.             *)
NoRequestFails == ~failed
=============================================================================
