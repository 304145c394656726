--------------------------- MODULE SlotStoreProofs ---------------------------
(***************************************************************************)
(* Theorems about SlotStore, for every set of slots, every choice of faults*)
(* and all bounds: the types; that an open which succeeds against a stored *)
(* Merkle root shows exactly the last save; that alloc never gives a slot  *)
(* to two owners; what the baseline lets in and keeps out; and that the    *)
(* store implements VolumePromise and loses no slot. At the end those of   *)
(* Layout, for every size: why slots have places and no offsets here.      *)
(***************************************************************************)
EXTENDS SlotStore, Layout, FiniteSetTheorems, SequenceTheorems, TLAPS

(* The list operations keep the type of the free list. *)
LEMMA PopType ==
    ASSUME NEW q \in Seq(DataSlots), q # <<>>
    PROVE  /\ SubSeq(q, 1, Len(q) - 1) \in Seq(DataSlots)
           /\ q[Len(q)] \in DataSlots
  OBVIOUS

LEMMA InsertType ==
    ASSUME NEW q \in Seq(DataSlots), NEW s \in DataSlots, NEW p \in 0..Len(q)
    PROVE  InsertAfter(q, p, s) \in Seq(DataSlots)
  BY DEF InsertAfter

LEMMA SortedType ==
    ASSUME NEW S \in SUBSET DataSlots, NEW q \in SortedDescending(S)
    PROVE  /\ q \in Seq(DataSlots)
           /\ Descending(q)
           /\ Range(q) = S
  <1>1. IsFiniteSet(S) /\ Cardinality(S) \in Nat
    BY SlotsAssumption, FS_Subset, FS_CardinalityType
  <1>2. q \in [1..Cardinality(S) -> S] /\ Descending(q) /\ Range(q) = S
    BY DEF SortedDescending
  <1> QED BY <1>1, <1>2

LEMMA RootType ==
    ASSUME disk \in [DataSlots -> Content], NEW used \in SUBSET DataSlots
    PROVE  IsMerkleRoot(MerkleRootOf(used))
  BY DEF IsMerkleRoot, MerkleRootOf

LEMMA ZeroRootType == IsMerkleRoot(ZeroRoot)
  BY DEF IsMerkleRoot, ZeroRoot

LEMMA RewrittenType ==
    ASSUME FileTypeOK, NEW s \in DataSlots, NEW k \in {"noise", "dir", "file"},
           NEW refs \in SUBSET DataSlots
    PROVE  [disk EXCEPT ![s] = Rewritten(s, k, refs)] \in [DataSlots -> Content]
  BY DEF FileTypeOK, Rewritten, Content

LEMMA ReferencesType ==
    ASSUME FileTypeOK PROVE References \in SUBSET DataSlots
  BY SlotsAssumption DEF FileTypeOK, References, Content

(* A slot write, whether it succeeds or fails, leaves every type alone. *)
LEMMA StoreType ==
    ASSUME FileTypeOK, SessionTypeOK,
           NEW s \in DataSlots, NEW k \in {"noise", "dir", "file"},
           NEW refs \in SUBSET DataSlots,
           Store(s, Rewritten(s, k, refs)) \/ StoreFails(s)
    PROVE  /\ disk' \in [DataSlots -> Content]
           /\ merkleDirty' \in BOOLEAN
  <1>1. CASE Store(s, Rewritten(s, k, refs))
    BY <1>1, RewrittenType DEF Store
  <1>2. CASE StoreFails(s) /\ disk' = disk
    BY <1>2 DEF StoreFails, FileTypeOK, SessionTypeOK
  <1>3. CASE StoreFails(s) /\ disk' = [disk EXCEPT ![s] = Rewritten(s, "noise", {})]
    BY <1>3, RewrittenType DEF StoreFails, SessionTypeOK
  <1> QED BY <1>1, <1>2, <1>3 DEF StoreFails

LEMMA LoadedType ==
    ASSUME FileTypeOK
    PROVE  /\ LoadedGeneration \in Nat
           /\ IsMerkleRoot(LoadedRoot)
           /\ LoadedFree \in SUBSET DataSlots
  BY ZeroRootType
  DEF FileTypeOK, IsAllocBlock, LoadedGeneration, LoadedRoot, LoadedFree

LEMMA UsedType ==
    ASSUME SessionTypeOK
    PROVE  /\ Range(free) \in SUBSET DataSlots
           /\ UsedSlots(Range(free)) \in SUBSET DataSlots
  BY DEF SessionTypeOK, UsedSlots, Range

LEMMA FreshRootType ==
    ASSUME FileTypeOK, SessionTypeOK
    PROVE  /\ IsMerkleRoot(FreshMerkleRoot)
           /\ IsMerkleRoot(MerkleRootOf(UsedSlots(Range(free))))
  BY RootType, UsedType DEF FileTypeOK, SessionTypeOK, FreshMerkleRoot

LEMMA LostType ==
    ASSUME InMemoryStateLost PROVE SessionTypeOK'
  <1>1. IsMerkleRoot(cachedMerkleRoot') /\ free' \in Seq(DataSlots)
    BY ZeroRootType DEF InMemoryStateLost
  <1> QED BY <1>1 DEF InMemoryStateLost, SessionTypeOK

(* Every variable keeps its type. *)
THEOREM TypeCorrect == Spec => []TypeOK
<1>1. Init => TypeOK
  <2> SUFFICES ASSUME Init PROVE TypeOK
    OBVIOUS
  <2>1. disk \in [DataSlots -> Content]
    BY DEF Init, Content
  <2>2. IsMerkleRoot(snapshot)
    BY <2>1, SlotsAssumption, RootType DEF Init
  <2>3. IsAllocBlock(allocBlock)
    BY ZeroRootType DEF Init, IsAllocBlock, AllocBlock
  <2>4. FileTypeOK
    BY <2>1, <2>2, <2>3 DEF Init, FileTypeOK
  <2>5. SessionTypeOK
    <3>1. free \in Seq(DataSlots) /\ pending \in SUBSET DataSlots
      BY DEF Init
    <3>2. IsMerkleRoot(cachedMerkleRoot)
      BY ZeroRootType DEF Init
    <3> QED BY <3>1, <3>2 DEF Init, SessionTypeOK
  <2> QED BY <2>4, <2>5 DEF Init, TypeOK, OutsideTypeOK
<1>2. TypeOK /\ [Next]_vars => TypeOK'
  <2> SUFFICES ASSUME FileTypeOK, SessionTypeOK, OutsideTypeOK, [Next]_vars
               PROVE  FileTypeOK' /\ SessionTypeOK' /\ OutsideTypeOK'
    BY DEF TypeOK
  <2>0. References \in SUBSET DataSlots /\ RootSlot \in DataSlots
    BY ReferencesType, SlotsAssumption
  <2>1. CASE WriteNode
    <3> PICK s \in DataSlots : /\ Alloc(s) /\ Store(s, Rewritten(s, "file", {}))
                              /\ pending' = pending \union {s}
      BY <2>1 DEF WriteNode
    <3>1. disk' \in [DataSlots -> Content] /\ merkleDirty' \in BOOLEAN
      BY StoreType
    <3>2. free' \in Seq(DataSlots)
      BY PopType DEF Alloc, SessionTypeOK
    <3> QED BY <2>1, <3>1, <3>2
            DEF WriteNode, FileTypeOK, SessionTypeOK, OutsideTypeOK, historyVars
  <2>2. CASE WriteNodeFails
    <3> PICK s \in DataSlots : Alloc(s) /\ StoreFails(s)
      BY <2>2 DEF WriteNodeFails
    <3>1. disk' \in [DataSlots -> Content] /\ merkleDirty' \in BOOLEAN
      BY StoreType
    <3>2. free' \in Seq(DataSlots)
      BY PopType DEF Alloc, SessionTypeOK
    <3> QED BY <2>2, <3>1, <3>2
            DEF WriteNodeFails, FileTypeOK, SessionTypeOK, OutsideTypeOK, historyVars
  <2>3. CASE UpdateNode
    <3> PICK s \in References \union pending :
            Store(s, Rewritten(s, "file", {})) \/ StoreFails(s)
      BY <2>3 DEF UpdateNode
    <3>1. s \in DataSlots
      BY <2>0 DEF SessionTypeOK
    <3>2. disk' \in [DataSlots -> Content] /\ merkleDirty' \in BOOLEAN
      BY <3>1, StoreType
    <3> QED BY <2>3, <3>2
            DEF UpdateNode, FileTypeOK, SessionTypeOK, OutsideTypeOK, historyVars
  <2>4. CASE AddEntry
    <3> PICK s \in pending :
            /\ Store(RootSlot, Rewritten(RootSlot, "dir", References \union {s}))
            /\ pending' = pending \ {s}
      BY <2>4 DEF AddEntry
    <3>1. References \union {s} \in SUBSET DataSlots
      BY <2>0 DEF SessionTypeOK
    <3>2. disk' \in [DataSlots -> Content] /\ merkleDirty' \in BOOLEAN
      BY <2>0, <3>1, StoreType
    <3> QED BY <2>4, <3>2
            DEF AddEntry, FileTypeOK, SessionTypeOK, OutsideTypeOK, historyVars
  <2>5. CASE RemoveEntry
    <3> PICK s \in References :
            /\ Store(RootSlot, Rewritten(RootSlot, "dir", References \ {s}))
            /\ pending' = pending \union {s}
      BY <2>5 DEF RemoveEntry
    <3>1. References \ {s} \in SUBSET DataSlots
      BY <2>0
    <3>2. disk' \in [DataSlots -> Content] /\ merkleDirty' \in BOOLEAN
      BY <2>0, <3>1, StoreType
    <3> QED BY <2>0, <2>5, <3>2
            DEF RemoveEntry, FileTypeOK, SessionTypeOK, OutsideTypeOK, historyVars
  <2>6. CASE WriteEntryFails
    <3>1. disk' \in [DataSlots -> Content] /\ merkleDirty' \in BOOLEAN
      BY <2>0, <2>6, StoreType DEF WriteEntryFails
    <3> QED BY <2>6, <3>1
            DEF WriteEntryFails, FileTypeOK, SessionTypeOK, OutsideTypeOK, historyVars
  <2>7. CASE FreeNode
    <3> PICK s \in pending, p \in 0..Len(free) :
            /\ Store(s, Rewritten(s, "noise", {})) \/ StoreFails(s)
            /\ pending' = pending \ {s}
            /\ free' = InsertAfter(free, p, s)
      BY <2>7 DEF FreeNode
    <3>1. s \in DataSlots
      BY DEF SessionTypeOK
    <3>2. disk' \in [DataSlots -> Content] /\ merkleDirty' \in BOOLEAN
      BY <3>1, StoreType
    <3>3. free' \in Seq(DataSlots)
      BY <3>1, InsertType DEF SessionTypeOK
    <3> QED BY <2>7, <3>2, <3>3
            DEF FreeNode, FileTypeOK, SessionTypeOK, OutsideTypeOK, historyVars
  <2>8. CASE FlushSave
    <3>1. IsAllocBlock(allocBlock') /\ IsMerkleRoot(snapshot')
      BY <2>8, FreshRootType, UsedType
      DEF FlushSave, SessionTypeOK, IsAllocBlock, AllocBlock
    <3> QED BY <2>8, <3>1, FreshRootType
            DEF FlushSave, FileTypeOK, SessionTypeOK, OutsideTypeOK
  <2>9. CASE FlushSaveFails
    <3>1. IsAllocBlock(allocBlock')
      BY <2>9 DEF FlushSaveFails, FileTypeOK, IsAllocBlock
    <3>2. IsMerkleRoot(cachedMerkleRoot')
      BY <2>9, FreshRootType DEF FlushSaveFails
    <3>3. FileTypeOK' /\ OutsideTypeOK'
      BY <2>9, <3>1 DEF FlushSaveFails, FileTypeOK, OutsideTypeOK, historyVars
    <3>4. SessionTypeOK'
      <4>1. /\ session' = session /\ free' = free /\ pending' = pending
            /\ generation' = generation + 1 /\ merkleDirty' = FALSE
        BY <2>9 DEF FlushSaveFails
      <4>2. generation' \in Nat
        BY <4>1 DEF SessionTypeOK
      <4>3. merkleDirty' \in BOOLEAN
        BY <4>1
      <4> QED BY <3>2, <4>1, <4>2, <4>3 DEF SessionTypeOK
    <3> QED BY <3>3, <3>4
  <2>10. CASE FlushBaseline
    <3>1. SessionTypeOK'
      BY <2>10, LostType DEF FlushBaseline, SessionTypeOK
    <3> QED BY <2>10, <3>1
            DEF FlushBaseline, fileVars, FileTypeOK, SessionTypeOK, OutsideTypeOK
  <2>11. CASE FlushBaselineFails
    BY <2>11 DEF FlushBaselineFails, fileVars, historyVars, FileTypeOK,
                 SessionTypeOK, OutsideTypeOK
  <2>12. CASE Open
    <3>1. free' \in Seq(DataSlots) /\ IsMerkleRoot(cachedMerkleRoot')
      BY <2>12, LoadedType, SortedType DEF Open
    <3>2. generation' \in Nat /\ trusted' \in BOOLEAN
      BY <2>12, LoadedType DEF Open
    <3> QED BY <2>12, <3>1, <3>2
            DEF Open, historyVars, FileTypeOK, SessionTypeOK, OutsideTypeOK
  <2>13. CASE ResetBaseline
    BY <2>13 DEF ResetBaseline, NoBaseline, fileVars, sessionVars, historyVars,
                 FileTypeOK, SessionTypeOK, OutsideTypeOK
  <2>14. CASE Crash
    BY <2>14, LostType DEF Crash, fileVars, historyVars, FileTypeOK, OutsideTypeOK
  <2>15. CASE MediaFault
    <3>1. disk' \in [DataSlots -> Content]
      BY <2>15, RewrittenType DEF MediaFault, FileTypeOK
    <3>2. IsAllocBlock(allocBlock')
      BY <2>15 DEF MediaFault, FileTypeOK, IsAllocBlock
    <3> QED BY <2>15, <3>1, <3>2
            DEF MediaFault, sessionVars, historyVars, FileTypeOK, SessionTypeOK,
                OutsideTypeOK
  <2>16. CASE TakeBackup
    <3>1. IsFileImage(FileImage)
      BY DEF FileImage, IsFileImage, FileTypeOK
    <3>2. \A c \in copies' : IsFileImage(c)
      BY <2>16, <3>1 DEF TakeBackup, OutsideTypeOK
    <3> QED BY <2>16, <3>2
            DEF TakeBackup, fileVars, sessionVars, historyVars, FileTypeOK,
                SessionTypeOK, OutsideTypeOK
  <2>17. CASE RestoreBackup
    <3>1. FileTypeOK'
      BY <2>17 DEF RestoreBackup, IsFileImage, FileTypeOK, OutsideTypeOK
    <3> QED BY <2>17, <3>1
            DEF RestoreBackup, sessionVars, historyVars, SessionTypeOK, OutsideTypeOK
  <2>18. CASE UNCHANGED vars
    BY <2>18 DEF vars, fileVars, sessionVars, historyVars, FileTypeOK,
                 SessionTypeOK, OutsideTypeOK
  <2> QED
    BY <2>1, <2>2, <2>3, <2>4, <2>5, <2>6, <2>7, <2>8, <2>9, <2>10, <2>11, <2>12,
       <2>13, <2>14, <2>15, <2>16, <2>17, <2>18
    DEF Next, NodeIO, Flush, Host, OpenRefused
<1> QED BY <1>1, <1>2, PTL DEF Spec

-----------------------------------------------------------------------------
(* Earlier and later contents.                                               *)

LEMMA NotAheadTrans ==
    ASSUME NEW a, NEW b, NEW c,
           IsMerkleRoot(a), IsMerkleRoot(b), IsMerkleRoot(c),
           DOMAIN a \intersect DOMAIN c \subseteq DOMAIN b,
           NotAhead(a, b), NotAhead(b, c)
    PROVE  NotAhead(a, c)
  <1> SUFFICES ASSUME NEW s \in DOMAIN a \intersect DOMAIN c
               PROVE  a[s] = c[s] \/ a[s].ver < c[s].ver
    BY DEF NotAhead
  <1>1. a[s].ver \in Nat /\ b[s].ver \in Nat /\ c[s].ver \in Nat
    BY DEF IsMerkleRoot, Content
  <1>2. /\ a[s] = b[s] \/ a[s].ver < b[s].ver
        /\ b[s] = c[s] \/ b[s].ver < c[s].ver
    BY DEF NotAhead
  <1> QED BY <1>1, <1>2

LEMMA DiskIsRoot ==
    ASSUME FileTypeOK PROVE IsMerkleRoot(disk) /\ DOMAIN disk = DataSlots
  BY DEF FileTypeOK, IsMerkleRoot

(* A slot write never brings older contents back. *)
LEMMA RewriteNotBack ==
    ASSUME FileTypeOK, NEW s \in DataSlots, NEW k, NEW refs,
           disk' = [disk EXCEPT ![s] = Rewritten(s, k, refs)]
    PROVE  NotAhead(disk, disk')
  <1>1. disk[s].ver \in Nat /\ DOMAIN disk = DataSlots
    BY DEF FileTypeOK, Content
  <1> SUFFICES ASSUME NEW t \in DataSlots
               PROVE  disk[t] = disk'[t] \/ disk[t].ver < disk'[t].ver
    BY <1>1 DEF NotAhead
  <1>2. CASE t = s
    <2>1. disk'[t] = Rewritten(s, k, refs)
      BY <1>1, <1>2
    <2> QED BY <1>1, <1>2, <2>1 DEF Rewritten
  <1>3. CASE t # s
    BY <1>1, <1>3
  <1> QED BY <1>2, <1>3

LEMMA StoreNotBack ==
    ASSUME FileTypeOK,
           NEW s \in DataSlots, NEW k, NEW refs,
           Store(s, Rewritten(s, k, refs)) \/ StoreFails(s)
    PROVE  NotAhead(disk, disk')
  <1>1. CASE disk' = disk
    BY <1>1 DEF NotAhead
  <1> QED BY <1>1, RewriteNotBack DEF Store, StoreFails

(* What a root covers is not ahead of the disk it is computed from. *)
LEMMA RootOfDisk ==
    ASSUME FileTypeOK, NEW used \in SUBSET DataSlots
    PROVE  NotAhead(MerkleRootOf(used), disk) /\ NotAhead(disk, MerkleRootOf(used))
  BY DEF FileTypeOK, NotAhead, MerkleRootOf

LEMMA ZeroRootNotAhead ==
    ASSUME NEW r PROVE NotAhead(ZeroRoot, r)
  BY DEF NotAhead, ZeroRoot

-----------------------------------------------------------------------------
(* RootsNotAhead is inductive.                                               *)

FileOrder == InOrder(FileImage)

LEMMA FileOrderIs ==
    FileOrder <=>
        /\ NotAhead(snapshot, disk)
        /\ allocBlock.readable =>
              /\ DOMAIN snapshot = UsedSlots(allocBlock.bitmap)
              /\ NotAhead(allocBlock.merkleRoot, snapshot)
  BY DEF FileOrder, InOrder, FileImage

LEMMA RootsNotAheadIs ==
    RootsNotAhead <=>
        /\ FileOrder
        /\ \A c \in copies : InOrder(c)
        /\ session # "closed" => NotAhead(cachedMerkleRoot, disk)
  BY DEF RootsNotAhead, FileOrder

(* A change of the slots that brings nothing older back. *)
LEMMA DiskStep ==
    ASSUME FileTypeOK, SessionTypeOK, FileTypeOK', RootsNotAhead,
           NotAhead(disk, disk'),
           UNCHANGED <<allocBlock, snapshot, copies, cachedMerkleRoot, session>>
    PROVE  RootsNotAhead'
  <1>1. /\ IsMerkleRoot(disk) /\ DOMAIN disk = DataSlots
        /\ IsMerkleRoot(disk')
        /\ IsMerkleRoot(snapshot) /\ DOMAIN snapshot \subseteq DataSlots
        /\ IsMerkleRoot(cachedMerkleRoot)
        /\ DOMAIN cachedMerkleRoot \subseteq DataSlots
    BY DEF FileTypeOK, SessionTypeOK, IsMerkleRoot
  <1>2. NotAhead(snapshot, disk')
    BY <1>1, NotAheadTrans, FileOrderIs, RootsNotAheadIs
  <1>3. session # "closed" => NotAhead(cachedMerkleRoot, disk')
    BY <1>1, NotAheadTrans, RootsNotAheadIs
  <1>4. InOrder(FileImage)'
    BY <1>2, FileOrderIs, RootsNotAheadIs DEF InOrder, FileImage
  <1>5. \A c \in copies' : InOrder(c)
    BY RootsNotAheadIs
  <1> QED BY <1>3, <1>4, <1>5 DEF RootsNotAhead

(* A step that does not touch the slots' contents on disk, the saved root or *)
(* the copies keeps RootsNotAhead if the root in memory stays behind.        *)
LEMMA MemoryStep ==
    ASSUME RootsNotAhead, UNCHANGED <<disk, allocBlock, snapshot, copies>>,
           session' # "closed" => NotAhead(cachedMerkleRoot', disk)
    PROVE  RootsNotAhead'
  <1>1. InOrder(FileImage)'
    BY FileOrderIs, RootsNotAheadIs DEF InOrder, FileImage
  <1>2. \A c \in copies' : InOrder(c)
    BY RootsNotAheadIs
  <1> QED BY <1>1, <1>2 DEF RootsNotAhead

LEMMA FreshNotAhead ==
    ASSUME FileTypeOK, SessionTypeOK, NotAhead(cachedMerkleRoot, disk)
    PROVE  NotAhead(FreshMerkleRoot, disk)
  BY RootOfDisk, UsedType DEF FreshMerkleRoot

(* save_free_list: the root written, fresh or stale, is not ahead of what    *)
(* the save describes, because the save describes the disk.                  *)
LEMMA SaveStep ==
    ASSUME FileTypeOK, SessionTypeOK, RootsNotAhead, FlushSave
    PROVE  RootsNotAhead'
  <1> DEFINE used == UsedSlots(Range(free))
  <1>1. used \in SUBSET DataSlots /\ UsedSlots(Range(free)) = used
    BY UsedType
  <1> HIDE DEF used
  <1>2. NotAhead(FreshMerkleRoot, disk)
    BY FreshNotAhead, RootsNotAheadIs DEF FlushSave
  <1>3. /\ IsMerkleRoot(disk) /\ DOMAIN disk = DataSlots
        /\ IsMerkleRoot(FreshMerkleRoot) /\ IsMerkleRoot(MerkleRootOf(used))
        /\ DOMAIN FreshMerkleRoot \subseteq DataSlots
    BY <1>1, DiskIsRoot, FreshRootType DEF IsMerkleRoot
  <1>4. NotAhead(FreshMerkleRoot, MerkleRootOf(used))
    BY <1>1, <1>2, <1>3, RootOfDisk, NotAheadTrans
  <1>5. NotAhead(MerkleRootOf(used), disk) /\ DOMAIN MerkleRootOf(used) = used
    BY <1>1, RootOfDisk DEF MerkleRootOf
  <1>6. /\ disk' = disk /\ snapshot' = MerkleRootOf(used)
        /\ allocBlock' = AllocBlock(generation + 1, FreshMerkleRoot, Range(free))
        /\ cachedMerkleRoot' = FreshMerkleRoot /\ copies' = copies
    BY <1>1 DEF FlushSave
  <1>7. InOrder(FileImage)'
    BY <1>1, <1>4, <1>5, <1>6 DEF InOrder, FileImage, AllocBlock
  <1>8. \A c \in copies' : InOrder(c)
    BY <1>6, RootsNotAheadIs
  <1> QED BY <1>2, <1>6, <1>7, <1>8 DEF RootsNotAhead

LEMMA RootsInit ==
    ASSUME Init PROVE RootsNotAhead
  <1>1. disk \in [DataSlots -> Content] /\ {RootSlot} \in SUBSET DataSlots
    BY SlotsAssumption DEF Init, Content
  <1>2. NotAhead(snapshot, disk) /\ DOMAIN snapshot = {RootSlot}
    BY <1>1 DEF Init, NotAhead, MerkleRootOf
  <1>3. UsedSlots(allocBlock.bitmap) = {RootSlot}
    BY <1>1 DEF Init, AllocBlock, UsedSlots
  <1>4. allocBlock.merkleRoot = ZeroRoot
    BY DEF Init, AllocBlock
  <1>5. FileOrder
    BY <1>2, <1>3, <1>4, ZeroRootNotAhead, FileOrderIs
  <1> QED BY <1>5, RootsNotAheadIs DEF Init

LEMMA RootsStep ==
    ASSUME TypeOK, TypeOK', RootsNotAhead, [Next]_vars
    PROVE  RootsNotAhead'
  <1>0. FileTypeOK /\ SessionTypeOK /\ FileTypeOK' /\ SessionTypeOK'
    BY DEF TypeOK
  <1>1. CASE NodeIO
    <2>1. References \in SUBSET DataSlots /\ RootSlot \in DataSlots
      BY <1>0, ReferencesType, SlotsAssumption
    <2>2. pending \in SUBSET DataSlots
      BY <1>0 DEF SessionTypeOK
    <2>3. NotAhead(disk, disk')
      <3>1. CASE WriteNode
        BY <1>0, <3>1, StoreNotBack DEF WriteNode
      <3>2. CASE WriteNodeFails
        BY <1>0, <3>2, StoreNotBack DEF WriteNodeFails
      <3>3. CASE UpdateNode
        BY <1>0, <2>1, <2>2, <3>3, StoreNotBack DEF UpdateNode
      <3>4. CASE AddEntry
        BY <1>0, <2>1, <3>4, StoreNotBack DEF AddEntry
      <3>5. CASE RemoveEntry
        BY <1>0, <2>1, <3>5, StoreNotBack DEF RemoveEntry
      <3>6. CASE WriteEntryFails
        BY <1>0, <2>1, <3>6, StoreNotBack DEF WriteEntryFails
      <3>7. CASE FreeNode
        BY <1>0, <2>2, <3>7, StoreNotBack DEF FreeNode
      <3> QED BY <1>1, <3>1, <3>2, <3>3, <3>4, <3>5, <3>6, <3>7 DEF NodeIO
    <2>4. UNCHANGED <<allocBlock, snapshot, copies, cachedMerkleRoot, session>>
      BY <1>1 DEF NodeIO, WriteNode, WriteNodeFails, UpdateNode, AddEntry, RemoveEntry,
                  WriteEntryFails, FreeNode
    <2> QED BY <1>0, <2>3, <2>4, DiskStep
  <1>2. CASE FlushSave
    BY <1>0, <1>2, SaveStep
  <1>3. CASE FlushSaveFails
    <2>1. NotAhead(FreshMerkleRoot, disk)
      BY <1>0, <1>3, FreshNotAhead, RootsNotAheadIs DEF FlushSaveFails
    <2>2. allocBlock'.readable => allocBlock' = allocBlock
      BY <1>0, <1>3 DEF FlushSaveFails, FileTypeOK, IsAllocBlock
    <2>3. /\ UNCHANGED <<disk, snapshot, copies>>
          /\ cachedMerkleRoot' = FreshMerkleRoot
      BY <1>3 DEF FlushSaveFails
    <2>4. InOrder(FileImage)'
      BY <2>2, <2>3, FileOrderIs, RootsNotAheadIs DEF InOrder, FileImage
    <2>5. \A c \in copies' : InOrder(c)
      BY <2>3, RootsNotAheadIs
    <2> QED BY <2>1, <2>3, <2>4, <2>5 DEF RootsNotAhead
  <1>4. CASE FlushBaseline
    BY <1>4, MemoryStep, RootsNotAheadIs
    DEF FlushBaseline, InMemoryStateLost, fileVars
  <1>5. CASE FlushBaselineFails
    BY <1>5, MemoryStep, RootsNotAheadIs DEF FlushBaselineFails, fileVars
  <1>6. CASE Open
    <2>1. LoadedRoot = ZeroRoot \/ LoadedRoot = MerkleRootOf(UsedSlots(LoadedFree))
      BY <1>6 DEF Open, LoadOutcome
    <2>2. UsedSlots(LoadedFree) \in SUBSET DataSlots
      BY <1>0, LoadedType DEF UsedSlots
    <2>3. NotAhead(LoadedRoot, disk)
      BY <1>0, <2>1, <2>2, ZeroRootNotAhead, RootOfDisk
    <2> QED BY <1>6, <2>3, MemoryStep DEF Open
  <1>7. CASE ResetBaseline
    BY <1>7, MemoryStep, RootsNotAheadIs DEF ResetBaseline, fileVars, sessionVars
  <1>8. CASE Crash
    BY <1>8, MemoryStep DEF Crash, InMemoryStateLost, fileVars
  <1>9. CASE /\ MediaFault /\ UNCHANGED disk
             /\ allocBlock' = [allocBlock EXCEPT !.readable = FALSE]
    <2>1. /\ ~allocBlock'.readable /\ session' = "closed"
          /\ UNCHANGED <<disk, snapshot, copies>>
      BY <1>0, <1>9 DEF MediaFault, FileTypeOK, IsAllocBlock, sessionVars
    <2>2. InOrder(FileImage)'
      BY <2>1, FileOrderIs, RootsNotAheadIs DEF InOrder, FileImage
    <2>3. \A c \in copies' : InOrder(c)
      BY <2>1, RootsNotAheadIs
    <2> QED BY <2>1, <2>2, <2>3 DEF RootsNotAhead
  <1>10. CASE /\ MediaFault /\ UNCHANGED allocBlock
              /\ \E s \in DataSlots :
                    disk' = [disk EXCEPT ![s] = Rewritten(s, "noise", {})]
    <2> PICK s \in DataSlots : disk' = [disk EXCEPT ![s] = Rewritten(s, "noise", {})]
      BY <1>10
    <2>1. NotAhead(disk, disk')
      BY <1>0, RewriteNotBack
    <2>2. UNCHANGED <<allocBlock, snapshot, copies, cachedMerkleRoot, session>>
      BY <1>10 DEF MediaFault, sessionVars
    <2> QED BY <1>0, <2>1, <2>2, DiskStep
  <1>11. CASE TakeBackup
    <2>1. /\ copies' = copies \union {FileImage}
          /\ UNCHANGED <<disk, allocBlock, snapshot, session, cachedMerkleRoot>>
      BY <1>11 DEF TakeBackup, fileVars, sessionVars
    <2>2. InOrder(FileImage)'
      BY <2>1, FileOrderIs, RootsNotAheadIs DEF InOrder, FileImage
    <2>3. \A c \in copies' : InOrder(c)
      BY <2>1, RootsNotAheadIs DEF FileOrder
    <2>4. session' # "closed" => NotAhead(cachedMerkleRoot', disk')
      BY <2>1, RootsNotAheadIs
    <2> QED BY <2>2, <2>3, <2>4 DEF RootsNotAhead
  <1>12. CASE RestoreBackup
    <2> PICK c \in copies : /\ disk' = c.disk
                            /\ allocBlock' = c.allocBlock
                            /\ snapshot' = c.snapshot
      BY <1>12 DEF RestoreBackup
    <2>1. InOrder(c)
      BY RootsNotAheadIs
    <2>2. InOrder(FileImage)'
      BY <2>1 DEF InOrder, FileImage
    <2>3. (\A d \in copies' : InOrder(d)) /\ session' = "closed"
      BY <1>12, RootsNotAheadIs DEF RestoreBackup, sessionVars
    <2> QED BY <2>2, <2>3 DEF RootsNotAhead
  <1>13. CASE UNCHANGED vars
    BY <1>13, MemoryStep, RootsNotAheadIs DEF vars, fileVars, sessionVars
  <1> QED
    BY <1>1, <1>2, <1>3, <1>4, <1>5, <1>6, <1>7, <1>8, <1>9, <1>10, <1>11, <1>12, <1>13
    DEF Next, Flush, Host, OpenRefused, MediaFault

(* No Merkle root, current or stale, in memory or in any copy of the file,   *)
(* is ahead of the save it belongs to (update_merkle_root, save_free_list).  *)
THEOREM RootsNeverAhead == Spec => []RootsNotAhead
<1>1. Init => RootsNotAhead
  BY RootsInit
<1>2. TypeOK /\ TypeOK' /\ RootsNotAhead /\ [Next]_vars => RootsNotAhead'
  BY RootsStep
<1> QED BY <1>1, <1>2, TypeCorrect, PTL DEF Spec

(* A stored root that matches the disk matches the save too: a stale root is *)
(* behind the save in some slot, and the disk is not.                        *)
LEMMA MatchingRootIsTheSave ==
    ASSUME FileTypeOK, RootsNotAhead, LoadOutcome = "ok", LoadedRoot # ZeroRoot
    PROVE  FileAsSaved
  <1>1. allocBlock.readable /\ LoadedRoot = allocBlock.merkleRoot
    BY DEF LoadedRoot
  <1>2. allocBlock.merkleRoot = MerkleRootOf(UsedSlots(allocBlock.bitmap))
    BY <1>1 DEF LoadOutcome, LoadedFree
  <1>3. /\ NotAhead(snapshot, disk)
        /\ DOMAIN snapshot = UsedSlots(allocBlock.bitmap)
        /\ NotAhead(allocBlock.merkleRoot, snapshot)
    BY <1>1, FileOrderIs, RootsNotAheadIs
  <1>4. ASSUME NEW s \in DOMAIN snapshot PROVE disk[s] = snapshot[s]
    <2>1. /\ s \in DOMAIN allocBlock.merkleRoot
          /\ allocBlock.merkleRoot[s] = disk[s] /\ s \in DOMAIN disk
      BY <1>2, <1>3, <1>4, DiskIsRoot DEF MerkleRootOf, UsedSlots
    <2>2. /\ disk[s] = snapshot[s] \/ disk[s].ver < snapshot[s].ver
          /\ snapshot[s] = disk[s] \/ snapshot[s].ver < disk[s].ver
      BY <1>3, <2>1 DEF NotAhead
    <2>3. disk[s].ver \in Nat /\ snapshot[s].ver \in Nat
      BY <2>1 DEF FileTypeOK, IsMerkleRoot, Content
    <2> QED BY <2>2, <2>3
  <1> QED BY <1>1, <1>4 DEF FileAsSaved

(* An open that succeeds against a stored Merkle root shows exactly the last *)
(* save, whatever crashed, failed, decayed or was restored before it.        *)
THEOREM AcceptedIsSaved == Spec => []AcceptedAsSaved
<1>1. TypeOK /\ RootsNotAhead => AcceptedAsSaved
  BY MatchingRootIsTheSave DEF TypeOK, AcceptedAsSaved
<1> QED BY <1>1, TypeCorrect, RootsNeverAhead, PTL

-----------------------------------------------------------------------------
(* The free list: alloc and free_slot keep it sorted and free of repetition. *)

LEMMA PopFree ==
    ASSUME NEW s, free \in Seq(DataSlots), Descending(free), Alloc(s)
    PROVE  /\ Descending(free')
           /\ s \in Range(free)
           /\ Range(free') = Range(free) \ {s}
  <1> DEFINE n == Len(free)
  <1>1. /\ n \in Nat /\ n > 0 /\ s = free[n] /\ DOMAIN free = 1..n
        /\ DOMAIN free' = 1..(n - 1) /\ \A i \in 1..(n - 1) : free'[i] = free[i]
    BY DEF Alloc
  <1> HIDE DEF n
  <1>2. Descending(free')
    BY <1>1 DEF Descending
  <1>3. s \in Range(free)
    BY <1>1 DEF Range
  <1>4. \A i \in 1..(n - 1) : free[i] # s
    <2> SUFFICES ASSUME NEW i \in 1..(n - 1) PROVE free[i] # s
      OBVIOUS
    <2>1. i \in DOMAIN free /\ n \in DOMAIN free /\ i < n
      BY <1>1
    <2>2. free[i] > free[n]
      BY <2>1 DEF Descending
    <2>3. free[i] \in DataSlots /\ free[n] \in DataSlots
      BY <1>1
    <2>4. free[i] \in Nat /\ free[n] \in Nat
      BY <2>3, SlotsAssumption
    <2> QED BY <1>1, <2>2, <2>4
  <1>5. Range(free') = Range(free) \ {s}
    BY <1>1, <1>4 DEF Range
  <1> QED BY <1>2, <1>3, <1>5

(* The slots up to the insertion point stay, the others move up by one. *)
LEMMA InsertPlaces ==
    ASSUME NEW q \in Seq(DataSlots), NEW s \in DataSlots, NEW p \in 0..Len(q)
    PROVE  /\ DOMAIN InsertAfter(q, p, s) = 1..(Len(q) + 1)
           /\ InsertAfter(q, p, s)[p + 1] = s
           /\ \A i \in 1..p : InsertAfter(q, p, s)[i] = q[i]
           /\ \A i \in (p + 2)..(Len(q) + 1) : InsertAfter(q, p, s)[i] = q[i - 1]
  <1> DEFINE a == SubSeq(q, 1, p)
             b == SubSeq(q, p + 1, Len(q))
             c == a \o <<s>>
  <1>1. /\ a \in Seq(DataSlots) /\ Len(a) = p
        /\ \A i \in 1..p : a[i] = q[i]
    OBVIOUS
  <1>2. /\ b \in Seq(DataSlots) /\ Len(b) = Len(q) - p
        /\ \A i \in 1..(Len(q) - p) : b[i] = q[p + i]
    OBVIOUS
  <1> HIDE DEF a, b
  <1>3. /\ c \in Seq(DataSlots) /\ Len(c) = p + 1 /\ c[p + 1] = s
        /\ \A i \in 1..p : c[i] = q[i]
    BY <1>1
  <1>4. InsertAfter(q, p, s) = c \o b
    BY DEF InsertAfter, a, b
  <1> HIDE DEF c
  <1>5. DOMAIN (c \o b) = 1..(Len(q) + 1)
    <2>1. Len(c \o b) = Len(c) + Len(b) /\ c \o b \in Seq(DataSlots)
      BY <1>2, <1>3, ConcatProperties
    <2>2. Len(c) + Len(b) = Len(q) + 1
      BY <1>2, <1>3
    <2> QED BY <2>1, <2>2
  <1>6. \A i \in 1..(p + 1) : (c \o b)[i] = c[i]
    BY <1>2, <1>3
  <1>7. \A i \in (p + 2)..(Len(q) + 1) : (c \o b)[i] = b[i - (p + 1)]
    BY <1>2, <1>3
  <1>8. \A i \in (p + 2)..(Len(q) + 1) : b[i - (p + 1)] = q[i - 1]
    <2> SUFFICES ASSUME NEW i \in (p + 2)..(Len(q) + 1)
                 PROVE  b[i - (p + 1)] = q[i - 1]
      OBVIOUS
    <2>1. i - (p + 1) \in 1..(Len(q) - p) /\ p + (i - (p + 1)) = i - 1
      OBVIOUS
    <2> QED BY <1>2, <2>1
  <1> QED BY <1>3, <1>4, <1>5, <1>6, <1>7, <1>8

LEMMA InsertFree ==
    ASSUME NEW q \in Seq(DataSlots), Descending(q),
           NEW s \in DataSlots, s \notin Range(q),
           NEW p \in 0..Len(q), IsPartitionPoint(q, s, p)
    PROVE  /\ Descending(InsertAfter(q, p, s))
           /\ Range(InsertAfter(q, p, s)) = Range(q) \union {s}
  <1> DEFINE n == Len(q)
             r == InsertAfter(q, p, s)
  <1>1. /\ n \in Nat /\ p \in 0..n /\ DOMAIN q = 1..n /\ DOMAIN r = 1..(n + 1)
        /\ r[p + 1] = s
        /\ \A i \in 1..p : r[i] = q[i]
        /\ \A i \in (p + 2)..(n + 1) : r[i] = q[i - 1]
    <2>1. n \in Nat /\ p \in 0..n /\ DOMAIN q = 1..n
      OBVIOUS
    <2>2. /\ DOMAIN r = 1..(n + 1) /\ r[p + 1] = s
          /\ \A i \in 1..p : r[i] = q[i]
          /\ \A i \in (p + 2)..(n + 1) : r[i] = q[i - 1]
      BY InsertPlaces, Zenon
    <2> QED BY <2>1, <2>2
  <1>11. \A i \in 1..n : q[i] \in DataSlots /\ q[i] \in Range(q)
    BY <1>1 DEF Range
  <1>2. \A i \in 1..n : q[i] \in Nat /\ q[i] # s
    BY <1>11, SlotsAssumption
  <1>3. /\ \A i \in 1..p : q[i] > s
        /\ \A i \in (p + 1)..n : q[i] < s
    BY <1>1, <1>2, SlotsAssumption DEF IsPartitionPoint
  <1> HIDE DEF n, r
  <1>4. Descending(r)
    <2> SUFFICES ASSUME NEW i \in 1..(n + 1), NEW j \in 1..(n + 1), i < j
                 PROVE  r[i] > r[j]
      BY <1>1 DEF Descending
    <2>1. CASE j <= p
      <3>1. i \in 1..p /\ j \in 1..p /\ i \in DOMAIN q /\ j \in DOMAIN q
        BY <1>1, <2>1
      <3> QED BY <1>1, <3>1 DEF Descending
    <2>2. CASE j = p + 1
      <3>1. i \in 1..p
        BY <1>1, <2>2
      <3> QED BY <1>1, <1>3, <2>2, <3>1
    <2>3. CASE i = p + 1
      <3>1. j \in (p + 2)..(n + 1) /\ j - 1 \in (p + 1)..n
        BY <1>1, <2>3
      <3>2. q[j - 1] < s /\ q[j - 1] \in Nat /\ s \in Nat
        BY <1>1, <1>2, <1>3, <3>1, SlotsAssumption
      <3> QED BY <1>1, <2>3, <3>1, <3>2
    <2>4. CASE i <= p /\ j >= p + 2
      <3>1. i \in 1..p /\ j \in (p + 2)..(n + 1) /\ i < j - 1
            /\ i \in DOMAIN q /\ j - 1 \in DOMAIN q
        BY <1>1, <2>4
      <3> QED BY <1>1, <3>1 DEF Descending
    <2>5. CASE i >= p + 2
      <3>1. i \in (p + 2)..(n + 1) /\ j \in (p + 2)..(n + 1) /\ i - 1 < j - 1
            /\ i - 1 \in DOMAIN q /\ j - 1 \in DOMAIN q
        BY <1>1, <2>5
      <3> QED BY <1>1, <3>1 DEF Descending
    <2> QED BY <1>1, <2>1, <2>2, <2>3, <2>4, <2>5
  <1>5. Range(r) = Range(q) \union {s}
    <2>1. ASSUME NEW x \in Range(r) PROVE x \in Range(q) \union {s}
      <3> PICK i \in 1..(n + 1) : x = r[i]
        BY <1>1, <2>1 DEF Range
      <3>1. i \in 1..p \/ i = p + 1 \/ (i \in (p + 2)..(n + 1) /\ i - 1 \in 1..n)
        BY <1>1
      <3>2. CASE i \in 1..p
        <4>1. x = q[i] /\ i \in DOMAIN q
          BY <1>1, <3>2
        <4> QED BY <4>1 DEF Range
      <3>3. CASE i \in (p + 2)..(n + 1) /\ i - 1 \in 1..n
        <4>1. x = q[i - 1] /\ i - 1 \in DOMAIN q
          BY <1>1, <3>3
        <4> QED BY <4>1 DEF Range
      <3> QED BY <1>1, <3>1, <3>2, <3>3
    <2>2. ASSUME NEW x \in Range(q) \union {s} PROVE x \in Range(r)
      <3>1. CASE x = s
        <4>1. p + 1 \in DOMAIN r
          BY <1>1
        <4> QED BY <1>1, <3>1, <4>1 DEF Range
      <3>2. CASE x \in Range(q)
        <4> PICK i \in 1..n : x = q[i]
          BY <1>1, <3>2 DEF Range
        <4>1. CASE i \in 1..p
          BY <1>1, <4>1 DEF Range
        <4>2. CASE i \in (p + 1)..n
          <5>1. i + 1 \in (p + 2)..(n + 1) /\ (i + 1) - 1 = i /\ i + 1 \in DOMAIN r
            BY <1>1, <4>2
          <5> QED BY <1>1, <5>1 DEF Range
        <4> QED BY <1>1, <4>1, <4>2
      <3> QED BY <2>2, <3>1, <3>2
    <2> QED BY <2>1, <2>2
  <1> QED BY <1>4, <1>5 DEF r

-----------------------------------------------------------------------------
(* OwnersDisjoint is inductive.                                              *)

LEMMA OwnersDisjointIs ==
    OwnersDisjoint <=>
        /\ TreeSaved(FileImage)
        /\ \A c \in copies : TreeSaved(c)
        /\ trusted /\ session # "closed" => OneOwnerEach
  BY DEF OwnersDisjoint

(* A step that leaves the saves alone only has to keep the owners apart. *)
LEMMA OwnersStep ==
    ASSUME OwnersDisjoint, UNCHANGED <<allocBlock, snapshot, trusted, copies>>,
           trusted /\ session' # "closed" => OneOwnerEach'
    PROVE  OwnersDisjoint'
  <1>1. TreeSaved(FileImage)'
    BY OwnersDisjointIs DEF TreeSaved, FileImage
  <1>2. \A c \in copies' : TreeSaved(c)
    BY OwnersDisjointIs
  <1> QED BY <1>1, <1>2 DEF OwnersDisjoint

(* A slot write elsewhere leaves the directory as it is; one that fails on   *)
(* the root block leaves it as it is or unreadable, naming nothing.          *)
LEMMA StoreElsewhere ==
    ASSUME FileTypeOK, NEW s \in DataSlots, s # RootSlot, NEW k, NEW refs,
           Store(s, Rewritten(s, k, refs)) \/ StoreFails(s)
    PROVE  References' = References
  BY SlotsAssumption DEF FileTypeOK, Store, StoreFails, References

LEMMA StoreRoot ==
    ASSUME FileTypeOK, NEW k, NEW refs,
           Store(RootSlot, Rewritten(RootSlot, k, refs))
    PROVE  References' = refs
  BY SlotsAssumption DEF FileTypeOK, Store, Rewritten, References

LEMMA StoreRootFails ==
    ASSUME FileTypeOK, StoreFails(RootSlot)
    PROVE  References' = References \/ References' = {}
  BY SlotsAssumption DEF FileTypeOK, StoreFails, Rewritten, References

LEMMA OwnersNodeIO ==
    ASSUME FileTypeOK, SessionTypeOK, OneOwnerEach, NodeIO
    PROVE  OneOwnerEach'
  <1>1. /\ Descending(free) /\ free \in Seq(DataSlots)
        /\ Range(free) \intersect ({RootSlot} \union References \union pending) = {}
        /\ pending \intersect References = {}
        /\ RootSlot \notin pending \union References
        /\ References \subseteq DataSlots /\ pending \subseteq DataSlots
        /\ Range(free) \subseteq DataSlots
    BY ReferencesType, UsedType DEF OneOwnerEach, InUse, SessionTypeOK
  <1>2. CASE WriteNode
    <2> PICK s \in DataSlots : /\ Alloc(s) /\ Store(s, Rewritten(s, "file", {}))
                              /\ pending' = pending \union {s}
      BY <1>2 DEF WriteNode
    <2>1. /\ Descending(free') /\ s \in Range(free)
          /\ Range(free') = Range(free) \ {s}
      BY <1>1, PopFree
    <2>2. References' = References
      BY <1>1, <2>1, StoreElsewhere
    <2> QED BY <1>1, <2>1, <2>2 DEF OneOwnerEach, InUse
  <1>3. CASE WriteNodeFails
    <2> PICK s \in DataSlots : Alloc(s) /\ StoreFails(s)
      BY <1>3 DEF WriteNodeFails
    <2>1. /\ Descending(free') /\ s \in Range(free)
          /\ Range(free') = Range(free) \ {s}
      BY <1>1, PopFree
    <2>2. References' = References /\ pending' = pending
      BY <1>1, <1>3, <2>1, StoreElsewhere DEF WriteNodeFails
    <2> QED BY <1>1, <2>1, <2>2 DEF OneOwnerEach, InUse
  <1>4. CASE UpdateNode
    <2>1. References' = References /\ pending' = pending /\ free' = free
      BY <1>1, <1>4, StoreElsewhere DEF UpdateNode
    <2> QED BY <1>1, <2>1 DEF OneOwnerEach, InUse
  <1>5. CASE AddEntry
    <2> PICK s \in pending :
            /\ Store(RootSlot, Rewritten(RootSlot, "dir", References \union {s}))
            /\ pending' = pending \ {s}
      BY <1>5 DEF AddEntry
    <2>1. References' = References \union {s} /\ free' = free
      BY <1>5, StoreRoot DEF AddEntry
    <2> QED BY <1>1, <2>1 DEF OneOwnerEach, InUse
  <1>6. CASE RemoveEntry
    <2> PICK s \in References :
            /\ Store(RootSlot, Rewritten(RootSlot, "dir", References \ {s}))
            /\ pending' = pending \union {s}
      BY <1>6 DEF RemoveEntry
    <2>1. References' = References \ {s} /\ free' = free
      BY <1>6, StoreRoot DEF RemoveEntry
    <2> QED BY <1>1, <2>1 DEF OneOwnerEach, InUse
  <1>7. CASE WriteEntryFails
    <2>1. /\ References' = References \/ References' = {}
          /\ pending' = pending /\ free' = free
      BY <1>7, StoreRootFails DEF WriteEntryFails
    <2> QED BY <1>1, <2>1 DEF OneOwnerEach, InUse
  <1>8. CASE FreeNode
    <2> PICK s \in pending, p \in 0..Len(free) :
            /\ Store(s, Rewritten(s, "noise", {})) \/ StoreFails(s)
            /\ pending' = pending \ {s}
            /\ IsPartitionPoint(free, s, p)
            /\ free' = InsertAfter(free, p, s)
      BY <1>8 DEF FreeNode
    <2>1. s \in DataSlots /\ s # RootSlot /\ s \notin Range(free) /\ s \notin References
      BY <1>1
    <2>2. Descending(free') /\ Range(free') = Range(free) \union {s}
      BY <1>1, <2>1, InsertFree
    <2>3. References' = References
      BY <2>1, StoreElsewhere
    <2> QED BY <1>1, <2>1, <2>2, <2>3 DEF OneOwnerEach, InUse
  <1> QED BY <1>2, <1>3, <1>4, <1>5, <1>6, <1>7, <1>8 DEF NodeIO

(* A save of a volume whose owners are apart describes a tree in use. *)
LEMMA OwnersSave ==
    ASSUME FileTypeOK, SessionTypeOK, OwnersDisjoint, FlushSave
    PROVE  OwnersDisjoint'
  <1>1. /\ Range(free) \subseteq DataSlots /\ References \subseteq DataSlots
        /\ RootSlot \in DataSlots
    BY ReferencesType, UsedType, SlotsAssumption
  <1>2. /\ allocBlock'.bitmap = Range(free)
        /\ snapshot' = MerkleRootOf(UsedSlots(Range(free)))
        /\ UNCHANGED <<disk, free, pending, copies, trusted>> /\ session = "open"
    BY DEF FlushSave, AllocBlock
  <1>3. trusted => OneOwnerEach
    BY <1>2, OwnersDisjointIs
  <1>4. TreeSaved(FileImage)'
    <2> SUFFICES ASSUME trusted PROVE TreeSaved(FileImage)'
      BY <1>2 DEF TreeSaved, FileImage
    <2>1. /\ RootSlot \in UsedSlots(Range(free))
          /\ References \subseteq UsedSlots(Range(free)) \ {RootSlot}
      BY <1>1, <1>3 DEF OneOwnerEach, InUse, UsedSlots
    <2>2. /\ DOMAIN snapshot' = UsedSlots(Range(free))
          /\ snapshot'[RootSlot].refs = References
      BY <1>2, <2>1 DEF MerkleRootOf, References
    <2> QED BY <1>2, <2>1, <2>2 DEF TreeSaved, FileImage
  <1>5. \A c \in copies' : TreeSaved(c)
    BY <1>2, OwnersDisjointIs
  <1>6. trusted' => OneOwnerEach'
    BY <1>2, <1>3 DEF OneOwnerEach, InUse, References
  <1> QED BY <1>4, <1>5, <1>6 DEF OwnersDisjoint

(* An open that finds the file as saved loads exactly what the save used. *)
LEMMA OwnersOpen ==
    ASSUME FileTypeOK, OwnersDisjoint, Open
    PROVE  OwnersDisjoint'
  <1>1. UNCHANGED <<disk, allocBlock, snapshot, copies>> /\ pending' = {}
    BY DEF Open
  <1>2. trusted' = (trusted /\ FileAsSaved)
    BY DEF Open
  <1>3. TreeSaved(FileImage)'
    BY <1>1, <1>2, OwnersDisjointIs DEF TreeSaved, FileImage
  <1>4. ASSUME trusted' PROVE OneOwnerEach'
    <2>1. trusted /\ allocBlock.readable /\ \A s \in DOMAIN snapshot : disk[s] = snapshot[s]
      BY <1>2, <1>4 DEF FileAsSaved
    <2>2. Descending(free') /\ Range(free') = allocBlock.bitmap
      BY <2>1, LoadedType, SortedType DEF Open, LoadedFree
    <2>3. /\ RootSlot \in DOMAIN snapshot
          /\ snapshot[RootSlot].refs \subseteq DOMAIN snapshot \ {RootSlot}
          /\ DOMAIN snapshot = UsedSlots(allocBlock.bitmap)
      BY <2>1, OwnersDisjointIs DEF TreeSaved, FileImage
    <2>4. References' = snapshot[RootSlot].refs
      BY <1>1, <2>1, <2>3 DEF References
    <2> QED BY <1>1, <2>2, <2>3, <2>4 DEF OneOwnerEach, InUse, UsedSlots
  <1>5. \A c \in copies' : TreeSaved(c)
    BY <1>1, OwnersDisjointIs
  <1> QED BY <1>3, <1>4, <1>5 DEF OwnersDisjoint

LEMMA OwnersInit ==
    ASSUME Init PROVE OwnersDisjoint
  <1>1. /\ snapshot = [s \in {RootSlot} |-> disk[s]] /\ disk[RootSlot].refs = {}
        /\ UsedSlots(allocBlock.bitmap) = {RootSlot}
        /\ copies = {} /\ session = "closed"
    BY SlotsAssumption DEF Init, MerkleRootOf, AllocBlock, UsedSlots
  <1>2. TreeSaved(FileImage)
    BY <1>1 DEF TreeSaved, FileImage
  <1> QED BY <1>1, <1>2, OwnersDisjointIs

LEMMA OwnersNext ==
    ASSUME TypeOK, OwnersDisjoint, [Next]_vars
    PROVE  OwnersDisjoint'
  <1>0. FileTypeOK /\ SessionTypeOK
    BY DEF TypeOK
  <1>1. CASE NodeIO
    <2>1. UNCHANGED <<allocBlock, snapshot, trusted, copies>> /\ session = "open"
      BY <1>1 DEF NodeIO, WriteNode, WriteNodeFails, UpdateNode, AddEntry, RemoveEntry,
                  WriteEntryFails, FreeNode
    <2> QED BY <1>0, <1>1, <2>1, OwnersNodeIO, OwnersStep, OwnersDisjointIs
  <1>2. CASE FlushSave
    BY <1>0, <1>2, OwnersSave
  <1>3. CASE FlushSaveFails
    <2>1. /\ allocBlock'.readable => allocBlock' = allocBlock
          /\ UNCHANGED <<disk, snapshot, trusted, copies, session, free, pending>>
      BY <1>0, <1>3 DEF FlushSaveFails, FileTypeOK, IsAllocBlock
    <2>2. TreeSaved(FileImage)'
      BY <2>1, OwnersDisjointIs DEF TreeSaved, FileImage
    <2>3. \A c \in copies' : TreeSaved(c)
      BY <2>1, OwnersDisjointIs
    <2>4. trusted' /\ session' # "closed" => OneOwnerEach'
      BY <2>1, OwnersDisjointIs DEF OneOwnerEach, InUse, References
    <2> QED BY <2>2, <2>3, <2>4 DEF OwnersDisjoint
  <1>4. CASE \/ FlushBaseline \/ FlushBaselineFails \/ ResetBaseline \/ Crash
             \/ UNCHANGED vars
    <2>1. UNCHANGED <<disk, allocBlock, snapshot, trusted, copies>>
      BY <1>4 DEF FlushBaseline, FlushBaselineFails, ResetBaseline, Crash, vars, fileVars
    <2>2. session' = "closed" \/ (UNCHANGED <<free, pending>> /\ session # "closed")
      BY <1>4 DEF FlushBaseline, FlushBaselineFails, ResetBaseline, Crash, vars,
                  InMemoryStateLost, sessionVars
    <2>3. trusted /\ session' # "closed" => OneOwnerEach'
      BY <2>1, <2>2, OwnersDisjointIs DEF OneOwnerEach, InUse, References
    <2> QED BY <2>1, <2>3, OwnersStep
  <1>5. CASE Open
    BY <1>0, <1>5, OwnersOpen
  <1>6. CASE MediaFault
    <2>1. /\ allocBlock'.readable => allocBlock' = allocBlock
          /\ UNCHANGED <<snapshot, trusted, copies>> /\ session' = "closed"
      BY <1>0, <1>6 DEF MediaFault, FileTypeOK, IsAllocBlock, sessionVars
    <2>2. TreeSaved(FileImage)'
      BY <2>1, OwnersDisjointIs DEF TreeSaved, FileImage
    <2>3. \A c \in copies' : TreeSaved(c)
      BY <2>1, OwnersDisjointIs
    <2> QED BY <2>1, <2>2, <2>3 DEF OwnersDisjoint
  <1>7. CASE TakeBackup
    <2>1. /\ copies' = copies \union {FileImage} /\ session' = "closed"
          /\ UNCHANGED <<allocBlock, snapshot, trusted>>
      BY <1>7 DEF TakeBackup, fileVars, sessionVars
    <2>2. TreeSaved(FileImage)'
      BY <2>1, OwnersDisjointIs DEF TreeSaved, FileImage
    <2>3. \A c \in copies' : TreeSaved(c)
      BY <2>1, OwnersDisjointIs
    <2> QED BY <2>1, <2>2, <2>3 DEF OwnersDisjoint
  <1>8. CASE RestoreBackup
    <2> PICK c \in copies : /\ allocBlock' = c.allocBlock
                            /\ snapshot' = c.snapshot
                            /\ trusted' = c.trusted
      BY <1>8 DEF RestoreBackup
    <2>1. TreeSaved(c)
      BY OwnersDisjointIs
    <2>2. TreeSaved(FileImage)'
      BY <2>1 DEF TreeSaved, FileImage
    <2>3. (\A d \in copies' : TreeSaved(d)) /\ session' = "closed"
      BY <1>8, OwnersDisjointIs DEF RestoreBackup, sessionVars
    <2> QED BY <2>2, <2>3 DEF OwnersDisjoint
  <1> QED
    BY <1>1, <1>2, <1>3, <1>4, <1>5, <1>6, <1>7, <1>8 DEF Next, Flush, Host, OpenRefused

(* Free slots, slots a directory names and slots an operation holds exclude  *)
(* each other, and every save describes a tree whose slots are used.         *)
THEOREM OwnersStayDisjoint == Spec => []OwnersDisjoint
<1>1. Init => OwnersDisjoint
  BY OwnersInit
<1>2. TypeOK /\ OwnersDisjoint /\ [Next]_vars => OwnersDisjoint'
  BY OwnersNext
<1> QED BY <1>1, <1>2, TypeCorrect, PTL DEF Spec

(* alloc never hands out a slot that has an owner, nor one slot twice, as    *)
(* long as every open found the file as a save had left it.                  *)
THEOREM OneOwner == Spec => []NoSlotHasTwoOwners
<1>1. OwnersDisjoint => NoSlotHasTwoOwners
  BY DEF OwnersDisjoint, OneOwnerEach, NoSlotHasTwoOwners
<1> QED BY <1>1, OwnersStayDisjoint, PTL

-----------------------------------------------------------------------------
(* What the generation counter and the baseline promise, for any number of   *)
(* slots, saves, copies and faults: a file that is as its last save left it  *)
(* opens, and a copy older than the last flush that completed does not. Each *)
(* holds under the faults its theorem allows, and not beyond them.           *)

(* What tells a file from an older copy of itself: the saves it went through *)
(* and the generation in its allocation block.                               *)
FileAge == [saves |-> lineage, generation |-> allocBlock.generation]

CopyAge(c) == [saves |-> c.lineage, generation |-> c.allocBlock.generation]

Ages == {FileAge} \union {CopyAge(c) : c \in copies}

(* The serial numbers of the saves are fresh, and between save_free_list     *)
(* and RollbackState::update the file alone has the last one.                *)
SavesCounted ==
    /\ \A a \in Ages : a.saves \subseteq 1..saves
    /\ flushed \subseteq 1..saves
    /\ session = "flushing" =>
          /\ saves \in lineage
          /\ \A c \in copies : saves \notin c.lineage
          /\ generation = allocBlock.generation

(* The baseline is not ahead of the counter of an open container, nor of a   *)
(* file that went through the last completed flush.                          *)
BaselineBehind ==
    /\ session # "closed" => baseline <= generation
    /\ \A a \in Ages : flushed \subseteq a.saves => baseline <= a.generation

(* Without failing writes a stored root is the root of the save it is in,    *)
(* and a root in memory that is not marked dirty is the root of the slots.   *)
RootsCurrent ==
    /\ allocBlock.readable => allocBlock.merkleRoot \in {ZeroRoot, snapshot}
    /\ \A c \in copies :
          c.allocBlock.readable => c.allocBlock.merkleRoot \in {ZeroRoot, c.snapshot}
    /\ session # "closed" /\ ~merkleDirty =>
          cachedMerkleRoot \in {ZeroRoot, MerkleRootOf(UsedSlots(Range(free)))}

(* Of two files, one of which descends from the other, the later has the     *)
(* higher generation; the baseline is higher than that of any file that the  *)
(* last completed flush descends from.                                       *)
GenerationsGrow ==
    /\ \A a \in Ages : a.generation >= 1
    /\ \A a, b \in Ages : a.saves \subseteq b.saves =>
          /\ a.generation <= b.generation
          /\ a.saves # b.saves => a.generation < b.generation
    /\ session # "closed" => allocBlock.generation <= generation
    /\ baseline # NoBaseline =>
          \A a \in Ages : a.saves \subseteq flushed /\ a.saves # flushed
              => a.generation < baseline

(* A container without a baseline whose allocation block cannot be read      *)
(* opens with its counter at 0; here one of the two never happens.           *)
CounterKept ==
    \/ "reset" \notin Faults
    \/ Faults \intersect {"io", "media"} = {}

AlwaysReadable ==
    /\ "reset" \notin Faults => baseline # NoBaseline
    /\ Faults \intersect {"io", "media"} = {} =>
          /\ allocBlock.readable
          /\ \A c \in copies : c.allocBlock.readable

-----------------------------------------------------------------------------
(* What the steps do to ages, counter and baseline.                          *)

LEMMA AgesAre ==
    ASSUME TypeOK
    PROVE  /\ \A a \in Ages : a.saves \subseteq Nat /\ a.generation \in Nat
           /\ FileAge \in Ages
           /\ \A c \in copies : CopyAge(c) \in Ages
           /\ \A a \in Ages : a = FileAge \/ \E c \in copies : a = CopyAge(c)
  <1>1. lineage \subseteq Nat /\ allocBlock.generation \in Nat
    BY DEF TypeOK, FileTypeOK, IsAllocBlock
  <1>2. \A c \in copies : c.lineage \subseteq Nat /\ c.allocBlock.generation \in Nat
    BY DEF TypeOK, OutsideTypeOK, IsFileImage, IsAllocBlock
  <1>3. FileAge.saves = lineage /\ FileAge.generation = allocBlock.generation
    BY DEF FileAge
  <1>4. ASSUME NEW c \in copies
        PROVE  CopyAge(c).saves = c.lineage
               /\ CopyAge(c).generation = c.allocBlock.generation
    BY DEF CopyAge
  <1>5. /\ FileAge \in Ages
        /\ \A c \in copies : CopyAge(c) \in Ages
        /\ \A a \in Ages : a = FileAge \/ \E c \in copies : a = CopyAge(c)
    BY DEF Ages
  <1> QED BY <1>1, <1>2, <1>3, <1>4, <1>5

(* No age is new, and no flush completes. *)
NothingSaved ==
    /\ Ages' \subseteq Ages
    /\ UNCHANGED historyVars
    /\ baseline' = baseline \/ (baseline' = NoBaseline /\ "reset" \in Faults)
    /\ session' = "flushing" =>
          session = "flushing" /\ UNCHANGED <<lineage, allocBlock, copies, generation>>
    /\ session' # "closed" =>
          /\ FileAge' = FileAge
          /\ \/ session # "closed" /\ generation' \in {generation, generation + 1}
             \/ /\ session = "closed" /\ LoadOutcome = "ok"
                /\ generation' = LoadedGeneration /\ baseline' = baseline

(* Everything but save_free_list and the update of the baseline. *)
LEMMA MostStepsSaveNothing ==
    ASSUME TypeOK, [Next]_vars
    PROVE  NothingSaved \/ FlushSave \/ FlushBaseline
  <1> USE DEF NothingSaved
  <1>1. CASE NodeIO
    <2>1. /\ UNCHANGED <<allocBlock, lineage, copies, baseline, session, generation>>
          /\ UNCHANGED historyVars /\ session = "open"
      BY <1>1 DEF NodeIO, WriteNode, WriteNodeFails, UpdateNode, AddEntry, RemoveEntry,
                  WriteEntryFails, FreeNode
    <2> QED BY <2>1 DEF Ages, FileAge, CopyAge
  <1>2. CASE FlushSaveFails
    <2>1. /\ allocBlock'.generation = allocBlock.generation
          /\ UNCHANGED <<lineage, copies, baseline, session>>
          /\ UNCHANGED historyVars /\ session = "open" /\ generation' = generation + 1
      BY <1>2 DEF FlushSaveFails, TypeOK, FileTypeOK, IsAllocBlock
    <2> QED BY <2>1 DEF Ages, FileAge, CopyAge
  <1>3. CASE FlushBaselineFails \/ UNCHANGED vars
    <2>1. /\ UNCHANGED <<allocBlock, lineage, copies, baseline, generation>>
          /\ UNCHANGED historyVars
          /\ session' = session \/ (session = "flushing" /\ session' = "open")
      BY <1>3 DEF FlushBaselineFails, vars, fileVars, sessionVars
    <2> QED BY <2>1 DEF Ages, FileAge, CopyAge
  <1>4. CASE Crash
    <2>1. /\ UNCHANGED <<allocBlock, lineage, copies, baseline>>
          /\ UNCHANGED historyVars /\ session' = "closed"
      BY <1>4 DEF Crash, fileVars, InMemoryStateLost
    <2> QED BY <2>1 DEF Ages, FileAge, CopyAge
  <1>5. CASE ResetBaseline
    <2>1. /\ UNCHANGED <<allocBlock, lineage, copies, session, generation>>
          /\ UNCHANGED historyVars /\ session # "flushing"
          /\ baseline' = NoBaseline /\ "reset" \in Faults
      BY <1>5 DEF ResetBaseline, fileVars, sessionVars
    <2> QED BY <2>1 DEF Ages, FileAge, CopyAge
  <1>6. CASE Open
    <2>1. /\ UNCHANGED <<allocBlock, lineage, copies, baseline>>
          /\ UNCHANGED historyVars /\ session = "closed" /\ session' = "open"
          /\ LoadOutcome = "ok" /\ generation' = LoadedGeneration
      BY <1>6 DEF Open
    <2> QED BY <2>1 DEF Ages, FileAge, CopyAge
  <1>7. CASE MediaFault
    <2>1. /\ allocBlock'.generation = allocBlock.generation
          /\ UNCHANGED <<lineage, copies, baseline>>
          /\ UNCHANGED historyVars /\ session' = "closed"
      BY <1>7 DEF MediaFault, TypeOK, FileTypeOK, IsAllocBlock, sessionVars
    <2> QED BY <2>1 DEF Ages, FileAge, CopyAge
  <1>8. CASE TakeBackup
    <2>1. /\ UNCHANGED <<allocBlock, lineage, baseline>>
          /\ UNCHANGED historyVars /\ session' = "closed"
          /\ copies' = copies \union {FileImage}
      BY <1>8 DEF TakeBackup, fileVars, sessionVars
    <2>2. CopyAge(FileImage) = FileAge
      BY DEF CopyAge, FileImage, FileAge
    <2> QED BY <2>1, <2>2 DEF Ages, FileAge, CopyAge
  <1>9. CASE RestoreBackup
    <2> PICK c \in copies : allocBlock' = c.allocBlock /\ lineage' = c.lineage
      BY <1>9 DEF RestoreBackup
    <2>1. /\ UNCHANGED <<copies, baseline>>
          /\ UNCHANGED historyVars /\ session' = "closed"
      BY <1>9 DEF RestoreBackup, sessionVars
    <2> QED BY <2>1 DEF Ages, FileAge, CopyAge
  <1> QED
    BY <1>1, <1>2, <1>3, <1>4, <1>5, <1>6, <1>7, <1>8, <1>9
    DEF Next, Flush, Host, OpenRefused

(* save_free_list: the file gets an age that nothing had. *)
LEMMA SavingAges ==
    ASSUME TypeOK, SavesCounted, FlushSave
    PROVE  /\ saves + 1 \in lineage' /\ lineage' = lineage \union {saves + 1}
           /\ FileAge' = [saves |-> lineage', generation |-> generation + 1]
           /\ Ages' \subseteq Ages \union {FileAge'}
           /\ generation' = generation + 1 /\ allocBlock'.generation = generation + 1
           /\ UNCHANGED <<baseline, copies, flushed>> /\ saves' = saves + 1
           /\ session = "open" /\ session' = "flushing"
           /\ \A a \in Ages : saves + 1 \notin a.saves
           /\ saves + 1 \notin flushed
  <1>1. saves \in Nat
    BY DEF TypeOK, OutsideTypeOK
  <1>2. saves + 1 \notin 1..saves
    BY <1>1
  <1> QED BY <1>2 DEF FlushSave, FileAge, CopyAge, Ages, AllocBlock, SavesCounted

(* RollbackState::update: no file changes. *)
LEMMA UpdateAges ==
    ASSUME FlushBaseline
    PROVE  /\ Ages' = Ages /\ FileAge' = FileAge /\ FileAge \in Ages
           /\ session = "flushing" /\ session' \in {"open", "closed"}
           /\ baseline' = generation /\ flushed' = lineage
           /\ session' # "closed" => generation' = generation
           /\ UNCHANGED <<allocBlock, copies, saves>>
  BY DEF FlushBaseline, fileVars, InMemoryStateLost, Ages, FileAge, CopyAge

-----------------------------------------------------------------------------
(* The invariants.                                                           *)

LEMMA CountedInit == ASSUME Init PROVE SavesCounted
  BY DEF Init, SavesCounted, Ages, FileAge, AllocBlock

LEMMA CountedStep ==
    ASSUME TypeOK, SavesCounted, [Next]_vars
    PROVE  SavesCounted'
  <1>0. saves \in Nat
    BY DEF TypeOK, OutsideTypeOK
  <1>1. CASE NothingSaved
    BY <1>1 DEF NothingSaved, SavesCounted, historyVars
  <1>2. CASE FlushSave
    <2>1. 1..saves \subseteq 1..(saves + 1) /\ saves + 1 \in 1..(saves + 1)
      BY <1>0
    <2>2. FileAge \in Ages /\ FileAge.saves = lineage
      BY DEF Ages, FileAge
    <2>3. \A c \in copies : c.lineage = CopyAge(c).saves /\ CopyAge(c) \in Ages
      BY DEF CopyAge, Ages
    <2>4. lineage' \subseteq 1..saves'
      BY <1>2, <2>1, <2>2, SavingAges DEF SavesCounted
    <2>5. ASSUME NEW a \in Ages' PROVE a.saves \subseteq 1..saves'
      <3>1. CASE a = FileAge'
        <4>1. FileAge'.saves = lineage'
          BY DEF FileAge
        <4> QED BY <2>4, <3>1, <4>1
      <3>2. CASE a \in Ages
        BY <1>2, <2>1, <3>2, SavingAges DEF SavesCounted
      <3> QED BY <1>2, <3>1, <3>2, SavingAges
    <2> QED BY <1>2, <2>1, <2>3, <2>5, SavingAges DEF SavesCounted
  <1>3. CASE FlushBaseline
    <2>1. FileAge.saves = lineage
      BY DEF FileAge
    <2> QED BY <1>3, <2>1, UpdateAges DEF SavesCounted
  <1> QED BY <1>1, <1>2, <1>3, MostStepsSaveNothing

LEMMA BehindInit == ASSUME Init PROVE BaselineBehind
  BY DEF Init, BaselineBehind, Ages, FileAge, AllocBlock

LEMMA BehindStep ==
    ASSUME TypeOK, SavesCounted, BaselineBehind, [Next]_vars
    PROVE  BaselineBehind'
  <1>0. /\ baseline \in Nat /\ generation \in Nat
        /\ \A a \in Ages : a.generation \in Nat
    BY AgesAre DEF TypeOK, OutsideTypeOK, SessionTypeOK
  <1>1. CASE NothingSaved
    <2>1. LoadedGeneration \in Nat
      BY DEF LoadedGeneration, TypeOK, FileTypeOK, IsAllocBlock
    <2>2. session' # "closed" => baseline' <= generation'
      BY <1>0, <1>1, <2>1 DEF NothingSaved, BaselineBehind, LoadOutcome, NoBaseline
    <2>3. \A a \in Ages' : flushed' \subseteq a.saves => baseline' <= a.generation
      BY <1>0, <1>1 DEF NothingSaved, BaselineBehind, NoBaseline, historyVars
    <2> QED BY <2>2, <2>3 DEF BaselineBehind
  <1>2. CASE FlushSave
    BY <1>0, <1>2, SavingAges DEF BaselineBehind
  <1>3. CASE FlushBaseline
    <2>1. FileAge.saves = lineage /\ FileAge.generation = allocBlock.generation
      BY DEF FileAge
    <2>2. \A c \in copies : CopyAge(c).saves = c.lineage
      BY DEF CopyAge
    <2>3. \A a \in Ages : lineage \subseteq a.saves => a = FileAge
      BY <1>3, <2>2, UpdateAges, AgesAre DEF SavesCounted
    <2>4. generation = FileAge.generation
      BY <1>3, <2>1, UpdateAges DEF SavesCounted
    <2> QED BY <1>0, <1>3, <2>3, <2>4, UpdateAges DEF BaselineBehind
  <1> QED BY <1>1, <1>2, <1>3, MostStepsSaveNothing

(* The saves have numbers of their own and the baseline stays behind them.   *)
THEOREM BaselineStaysBehind == Spec => [](SavesCounted /\ BaselineBehind)
<1>1. Init => SavesCounted /\ BaselineBehind
  BY CountedInit, BehindInit
<1>2. TypeOK /\ SavesCounted /\ BaselineBehind /\ [Next]_vars
        => (SavesCounted /\ BaselineBehind)'
  BY CountedStep, BehindStep
<1> QED BY <1>1, <1>2, TypeCorrect, PTL DEF Spec

-----------------------------------------------------------------------------
(* A file that is as its last save left it opens.                            *)

LEMMA CurrentInit == ASSUME Init PROVE RootsCurrent
  BY DEF Init, RootsCurrent, AllocBlock

LEMMA CurrentStep ==
    ASSUME TypeOK, RootsCurrent, "io" \notin Faults, [Next]_vars
    PROVE  RootsCurrent'
  <1>1. CASE NodeIO
    <2>1. UNCHANGED <<allocBlock, snapshot, copies>> /\ merkleDirty'
      BY <1>1 DEF NodeIO, WriteNode, WriteNodeFails, UpdateNode, AddEntry, RemoveEntry,
                  WriteEntryFails, FreeNode, Store, StoreFails
    <2> QED BY <2>1 DEF RootsCurrent
  <1>2. CASE FlushSave
    <2>1. /\ allocBlock' = AllocBlock(generation + 1, FreshMerkleRoot, Range(free))
          /\ snapshot' = MerkleRootOf(UsedSlots(Range(free)))
          /\ merkleDirty' /\ copies' = copies /\ session # "closed"
      BY <1>2 DEF FlushSave
    <2>2. FreshMerkleRoot \in {ZeroRoot, MerkleRootOf(UsedSlots(Range(free)))}
      BY <2>1 DEF FreshMerkleRoot, RootsCurrent
    <2>3. allocBlock'.merkleRoot = FreshMerkleRoot
      BY <2>1 DEF AllocBlock
    <2>4. allocBlock'.merkleRoot \in {ZeroRoot, snapshot'}
      BY <2>1, <2>2, <2>3
    <2> QED BY <2>1, <2>4 DEF RootsCurrent, ZeroRoot
  <1>3. CASE FlushBaseline \/ ResetBaseline \/ Crash \/ UNCHANGED vars
    <2>1. UNCHANGED <<disk, allocBlock, snapshot, copies>>
      BY <1>3 DEF FlushBaseline, ResetBaseline, Crash, vars, fileVars
    <2>2. session' # "closed" =>
            session # "closed" /\ UNCHANGED <<free, merkleDirty, cachedMerkleRoot>>
      BY <1>3 DEF FlushBaseline, ResetBaseline, Crash, vars, sessionVars, InMemoryStateLost
    <2> QED BY <2>1, <2>2 DEF RootsCurrent, MerkleRootOf, ZeroRoot
  <1>4. CASE Open
    <2>1. /\ UNCHANGED <<disk, allocBlock, snapshot, copies>> /\ LoadOutcome = "ok"
          /\ free' \in SortedDescending(LoadedFree) /\ cachedMerkleRoot' = LoadedRoot
      BY <1>4 DEF Open
    <2>2. LoadedFree \in SUBSET DataSlots
      BY DEF LoadedFree, TypeOK, FileTypeOK, IsAllocBlock
    <2>3. Range(free') = LoadedFree
      BY <2>1, <2>2, SortedType
    <2>4. LoadedRoot \in {ZeroRoot, MerkleRootOf(UsedSlots(LoadedFree))}
      BY <2>1 DEF LoadOutcome
    <2>5. MerkleRootOf(UsedSlots(Range(free)))' = MerkleRootOf(UsedSlots(LoadedFree))
      BY <2>1, <2>3 DEF MerkleRootOf, UsedSlots
    <2> QED BY <2>1, <2>4, <2>5 DEF RootsCurrent, ZeroRoot
  <1>5. CASE MediaFault
    <2>1. /\ allocBlock'.readable => allocBlock' = allocBlock
          /\ UNCHANGED <<snapshot, copies>> /\ session' = "closed"
      BY <1>5 DEF MediaFault, TypeOK, FileTypeOK, IsAllocBlock, sessionVars
    <2> QED BY <2>1 DEF RootsCurrent, ZeroRoot
  <1>6. CASE TakeBackup
    <2>1. /\ UNCHANGED <<allocBlock, snapshot>> /\ session' = "closed"
          /\ copies' = copies \union {FileImage}
      BY <1>6 DEF TakeBackup, fileVars, sessionVars
    <2> QED BY <2>1 DEF RootsCurrent, ZeroRoot, FileImage
  <1>7. CASE RestoreBackup
    <2> PICK c \in copies : allocBlock' = c.allocBlock /\ snapshot' = c.snapshot
      BY <1>7 DEF RestoreBackup
    <2>1. copies' = copies /\ session' = "closed"
      BY <1>7 DEF RestoreBackup, sessionVars
    <2> QED BY <2>1 DEF RootsCurrent, ZeroRoot
  <1> QED
    BY <1>1, <1>2, <1>3, <1>4, <1>5, <1>6, <1>7
    DEF Next, Flush, Host, OpenRefused, FlushSaveFails, FlushBaselineFails

(* The Merkle root of such a file is the one its slots have.                 *)
LEMMA SavedFileVerifies ==
    ASSUME TypeOK, RootsNotAhead, RootsCurrent, FileAsSaved, LoadedRoot # ZeroRoot
    PROVE  LoadedRoot = MerkleRootOf(UsedSlots(LoadedFree))
  <1>1. /\ allocBlock.readable /\ LoadedRoot = allocBlock.merkleRoot
        /\ LoadedFree = allocBlock.bitmap
    BY DEF LoadedRoot, LoadedFree
  <1>2. LoadedRoot = snapshot /\ DOMAIN snapshot = UsedSlots(LoadedFree)
    BY <1>1, FileOrderIs, RootsNotAheadIs DEF RootsCurrent
  <1>3. snapshot = [s \in DOMAIN snapshot |-> snapshot[s]]
    BY DEF TypeOK, FileTypeOK, IsMerkleRoot
  <1>4. snapshot = [s \in DOMAIN snapshot |-> disk[s]]
    BY <1>3 DEF FileAsSaved
  <1> QED BY <1>2, <1>4 DEF MerkleRootOf

(* Where no write fails halfway, a file that is as its last save left it,    *)
(* and went through the last completed flush, opens: neither a crash between *)
(* save_free_list and RollbackState::update, nor a root that a clean flush   *)
(* stored again, nor any copy taken, lost or restored locks the owner out.   *)
THEOREM OwnerNotLockedOut ==
    "io" \notin Faults => (Spec => []NoFalseAlarm)
<1> SUFFICES ASSUME "io" \notin Faults PROVE Spec => []NoFalseAlarm
  OBVIOUS
<1>1. Init => RootsCurrent
  BY CurrentInit
<1>2. TypeOK /\ RootsCurrent /\ [Next]_vars => RootsCurrent'
  BY CurrentStep
<1>3. TypeOK /\ RootsNotAhead /\ RootsCurrent /\ BaselineBehind => NoFalseAlarm
  <2> SUFFICES ASSUME TypeOK, RootsNotAhead, RootsCurrent, BaselineBehind,
                      FileAsSaved, flushed \subseteq lineage
               PROVE  LoadOutcome = "ok"
    BY DEF NoFalseAlarm
  <2>1. FileAge \in Ages /\ FileAge.saves = lineage
        /\ FileAge.generation = allocBlock.generation
    BY DEF Ages, FileAge
  <2>2. baseline <= LoadedGeneration
    BY <2>1 DEF BaselineBehind, LoadedGeneration, FileAsSaved
  <2>3. baseline \in Nat /\ LoadedGeneration \in Nat
    BY DEF TypeOK, OutsideTypeOK, FileTypeOK, IsAllocBlock, LoadedGeneration
  <2>4. ~(LoadedGeneration < baseline)
    BY <2>2, <2>3
  <2> QED BY <2>4, SavedFileVerifies DEF LoadOutcome
<1> QED
  BY <1>1, <1>2, <1>3, TypeCorrect, RootsNeverAhead, BaselineStaysBehind, PTL DEF Spec

-----------------------------------------------------------------------------
(* An older copy is refused.                                                 *)

LEMMA GrowInit == ASSUME Init PROVE GenerationsGrow /\ AlwaysReadable
  <1>1. Ages = {FileAge} /\ FileAge.generation = 1 /\ FileAge.saves = {1}
        /\ allocBlock.generation = 1 /\ allocBlock.readable
    BY DEF Init, Ages, FileAge, AllocBlock
  <1>2. GenerationsGrow
    BY <1>1 DEF Init, GenerationsGrow
  <1> QED BY <1>1, <1>2 DEF Init, AlwaysReadable, NoBaseline

LEMMA ReadableStep ==
    ASSUME TypeOK, SavesCounted, GenerationsGrow, AlwaysReadable, [Next]_vars
    PROVE  AlwaysReadable'
  <1>1. baseline # NoBaseline /\ "reset" \notin Faults => baseline' # NoBaseline
    <2>1. CASE NothingSaved \/ FlushSave
      BY <2>1, SavingAges DEF NothingSaved
    <2>2. CASE FlushBaseline
      <3>1. FileAge.generation >= 1 /\ FileAge.generation = allocBlock.generation
        BY <2>2, UpdateAges DEF GenerationsGrow, FileAge
      <3> QED BY <2>2, <3>1, UpdateAges DEF SavesCounted, NoBaseline
    <2> QED BY <2>1, <2>2, MostStepsSaveNothing
  <1>2. ASSUME Faults \intersect {"io", "media"} = {}
        PROVE  allocBlock'.readable /\ \A c \in copies' : c.allocBlock.readable
    <2>1. allocBlock.readable /\ \A c \in copies : c.allocBlock.readable
      BY <1>2 DEF AlwaysReadable
    <2>2. CASE UNCHANGED <<allocBlock, copies>>
      BY <2>1, <2>2
    <2>3. CASE FlushSave
      BY <2>1, <2>3 DEF FlushSave, AllocBlock
    <2>4. CASE TakeBackup
      BY <2>1, <2>4 DEF TakeBackup, fileVars, FileImage
    <2>5. CASE RestoreBackup
      BY <2>1, <2>5 DEF RestoreBackup
    <2> QED
      BY <1>2, <2>2, <2>3, <2>4, <2>5
      DEF Next, NodeIO, Flush, Host, WriteNode, WriteNodeFails, UpdateNode, AddEntry,
          RemoveEntry, WriteEntryFails, FreeNode, FlushSaveFails, FlushBaseline,
          FlushBaselineFails, ResetBaseline, Crash, Open, OpenRefused, MediaFault,
          vars, fileVars
  <1> QED BY <1>1, <1>2 DEF AlwaysReadable

(* Under CounterKept an open finds the counter of the file.                  *)
LEMMA CounterLoaded ==
    ASSUME TypeOK, CounterKept, AlwaysReadable, LoadOutcome = "ok"
    PROVE  LoadedGeneration = allocBlock.generation
  <1>1. baseline \in Nat
    BY DEF TypeOK, OutsideTypeOK
  <1>2. ASSUME ~allocBlock.readable PROVE FALSE
    <2>1. "reset" \notin Faults /\ baseline # NoBaseline
      BY <1>2 DEF CounterKept, AlwaysReadable
    <2>2. LoadedGeneration = 0
      BY <1>2 DEF LoadedGeneration
    <2>3. LoadedGeneration < baseline
      BY <1>1, <2>1, <2>2 DEF NoBaseline
    <2> QED BY <2>3 DEF LoadOutcome
  <1> QED BY <1>2 DEF LoadedGeneration

LEMMA GrowStep ==
    ASSUME TypeOK, CounterKept, SavesCounted, GenerationsGrow, AlwaysReadable,
           [Next]_vars
    PROVE  GenerationsGrow'
  <1>0. /\ baseline \in Nat /\ generation \in Nat /\ saves \in Nat
        /\ allocBlock.generation \in Nat
        /\ \A a \in Ages : a.generation \in Nat
    BY AgesAre DEF TypeOK, OutsideTypeOK, SessionTypeOK, FileTypeOK, IsAllocBlock
  <1>1. FileAge \in Ages /\ FileAge.saves = lineage
        /\ FileAge.generation = allocBlock.generation
    BY DEF Ages, FileAge
  <1>2. FileAge'.saves = lineage' /\ FileAge'.generation = allocBlock'.generation
    BY DEF FileAge
  <1>3. CASE NothingSaved
    <2>1. session' # "closed" => allocBlock'.generation <= generation'
      BY <1>0, <1>1, <1>2, <1>3, CounterLoaded DEF NothingSaved, GenerationsGrow
    <2>2. baseline' # NoBaseline => baseline' = baseline
      BY <1>3 DEF NothingSaved
    <2>3. Ages' \subseteq Ages /\ flushed' = flushed
      BY <1>3 DEF NothingSaved, historyVars
    <2> QED BY <2>1, <2>2, <2>3 DEF GenerationsGrow
  <1>4. CASE FlushSave
    <2>1. allocBlock.generation <= generation
      BY <1>4, SavingAges DEF GenerationsGrow
    <2>2. ASSUME NEW a \in Ages, a.saves \subseteq lineage'
          PROVE  a.generation < generation + 1
      <3>1. a.saves \subseteq lineage
        BY <1>4, <2>2, SavingAges
      <3>2. a.generation <= allocBlock.generation
        BY <1>1, <2>2, <3>1 DEF GenerationsGrow
      <3> QED BY <1>0, <2>1, <3>2
    <2>3. ASSUME NEW a \in Ages PROVE ~(lineage' \subseteq a.saves)
      BY <1>4, SavingAges
    <2>4. FileAge'.generation = generation + 1
      BY <1>4, SavingAges, <1>2
    <2>5. Ages' \subseteq Ages \union {FileAge'}
      BY <1>4, SavingAges
    <2>6. \A a \in Ages' : a.generation >= 1
      BY <1>0, <2>4, <2>5 DEF GenerationsGrow
    <2>7. ASSUME NEW a \in Ages', NEW b \in Ages', a.saves \subseteq b.saves
          PROVE  /\ a.generation <= b.generation
                 /\ a.saves # b.saves => a.generation < b.generation
      <3>1. CASE a \in Ages /\ b \in Ages
        BY <2>7, <3>1 DEF GenerationsGrow
      <3>2. CASE a \in Ages /\ b = FileAge'
        BY <1>0, <1>2, <2>2, <2>4, <2>7, <3>2
      <3>3. CASE a = FileAge' /\ b \in Ages
        BY <1>2, <2>3, <2>7, <3>3
      <3>4. CASE a = FileAge' /\ b = FileAge'
        BY <1>0, <2>4, <3>4
      <3> QED BY <2>5, <3>1, <3>2, <3>3, <3>4
    <2>8. session' # "closed" => allocBlock'.generation <= generation'
      BY <1>0, <1>4, SavingAges
    <2>9. ASSUME baseline' # NoBaseline, NEW a \in Ages',
                 a.saves \subseteq flushed', a.saves # flushed'
          PROVE  a.generation < baseline'
      <3>1. a # FileAge'
        BY <1>2, <1>4, <2>9, SavingAges
      <3> QED BY <1>4, <2>5, <2>9, <3>1, SavingAges DEF GenerationsGrow
    <2> QED BY <2>6, <2>7, <2>8, <2>9 DEF GenerationsGrow
  <1>5. CASE FlushBaseline
    <2>1. baseline' = FileAge.generation /\ flushed' = FileAge.saves
      BY <1>1, <1>5, UpdateAges DEF SavesCounted
    <2>2. session' # "closed" => allocBlock'.generation <= generation'
      BY <1>5, UpdateAges DEF GenerationsGrow
    <2> QED BY <1>1, <1>5, <2>1, <2>2, UpdateAges DEF GenerationsGrow
  <1> QED BY <1>3, <1>4, <1>5, MostStepsSaveNothing

(* While a baseline exists a copy that the last completed flush descends     *)
(* from is refused, after any number of saves, crashes, failing writes,      *)
(* backups and restores.  It takes that the counter never starts again at 0, *)
(* as it does when an allocation block that cannot be read is rebuilt after  *)
(* the baseline was reset.                                                   *)
THEOREM OlderCopiesRefused ==
    CounterKept => (Spec => []OlderCopyRefused)
<1> SUFFICES ASSUME CounterKept PROVE Spec => []OlderCopyRefused
  OBVIOUS
<1>1. Init => GenerationsGrow /\ AlwaysReadable
  BY GrowInit
<1>2. TypeOK /\ SavesCounted /\ GenerationsGrow /\ AlwaysReadable /\ [Next]_vars
        => (GenerationsGrow /\ AlwaysReadable)'
  BY GrowStep, ReadableStep
<1>3. TypeOK /\ GenerationsGrow /\ AlwaysReadable => OlderCopyRefused
  <2> SUFFICES ASSUME TypeOK, GenerationsGrow, AlwaysReadable, LoadOutcome = "ok",
                      lineage \subseteq flushed, lineage # flushed,
                      baseline # NoBaseline
               PROVE  FALSE
    BY DEF OlderCopyRefused
  <2>1. /\ FileAge \in Ages /\ FileAge.saves = lineage
        /\ FileAge.generation = allocBlock.generation
    BY DEF Ages, FileAge
  <2>2. LoadedGeneration < baseline
    BY <2>1, CounterLoaded DEF GenerationsGrow
  <2> QED BY <2>2 DEF LoadOutcome
<1> QED BY <1>1, <1>2, <1>3, TypeCorrect, BaselineStaysBehind, PTL DEF Spec

-----------------------------------------------------------------------------
(* SlotStore implements VolumePromise: each step of the store is a step of   *)
(* the promise or none.  And where nothing fails it loses no slot.           *)

(* A restored file brings another time's save back, which is not promised.   *)
(* Where the state file may be reset, so that a volume without allocation    *)
(* block opens, and a save may fail after its root was computed, a volume    *)
(* with no slot in use may be taken for sealed and then be saved without a   *)
(* seal.                                                                     *)
PromiseFaults ==
    /\ "restore" \notin Faults
    /\ ~("io" \in Faults /\ "reset" \in Faults)

(* The root block is in use at all times: no open works from a bitmap that   *)
(* was not saved, since the state file never allows the counter to be 0.     *)
RootInUse ==
    /\ baseline >= 1
    /\ session # "closed" => generation >= 1 /\ RootSlot \notin Range(free) \union pending
    /\ allocBlock.readable => RootSlot \notin allocBlock.bitmap
    /\ RootSlot \notin References

(* The next save of a sealed volume has a root to write. *)
SealKept ==
    session # "closed" /\ LoadedRoot # ZeroRoot => merkleDirty \/ cachedMerkleRoot # ZeroRoot

RootKept == "reset" \notin Faults => RootInUse

PromiseInv == SealKept /\ RootKept

View == IF session = "closed" THEN <<>> ELSE MerkleRootOf(UsedSlots(Range(free)))

-----------------------------------------------------------------------------
(* Ranges of the free list, which need not be free of repetition here.       *)

LEMMA PopRange ==
    ASSUME NEW s, free \in Seq(DataSlots), Alloc(s)
    PROVE  s \in Range(free) /\ Range(free) = Range(free') \union {s}
  <1> DEFINE n == Len(free)
  <1>1. /\ n \in Nat /\ n > 0 /\ s = free[n] /\ DOMAIN free = 1..n
        /\ DOMAIN free' = 1..(n - 1) /\ \A i \in 1..(n - 1) : free'[i] = free[i]
    BY DEF Alloc
  <1> HIDE DEF n
  <1>2. 1..n = (1..(n - 1)) \union {n}
    BY <1>1
  <1> QED
    BY <1>1, <1>2 DEF Range

LEMMA InsertRange ==
    ASSUME NEW q \in Seq(DataSlots), NEW s \in DataSlots, NEW p \in 0..Len(q)
    PROVE  Range(InsertAfter(q, p, s)) = Range(q) \union {s}
  <1> DEFINE n == Len(q)
             r == InsertAfter(q, p, s)
  <1>1. /\ n \in Nat /\ p \in 0..n /\ DOMAIN q = 1..n /\ DOMAIN r = 1..(n + 1)
        /\ r[p + 1] = s
        /\ \A i \in 1..p : r[i] = q[i]
        /\ \A i \in (p + 2)..(n + 1) : r[i] = q[i - 1]
    BY InsertPlaces
  <1> HIDE DEF n, r
  <1>2. \A i \in 1..(n + 1) : i \in 1..p \/ i = p + 1 \/ (i \in (p + 2)..(n + 1) /\ i - 1 \in 1..n)
    BY <1>1
  <1>3. \A i \in 1..n : i \in 1..p \/ (i + 1 \in (p + 2)..(n + 1) /\ (i + 1) - 1 = i)
    BY <1>1
  <1>4. Range(r) \subseteq Range(q) \union {s}
    <2> SUFFICES ASSUME NEW i \in 1..(n + 1) PROVE r[i] \in Range(q) \union {s}
      BY <1>1 DEF Range
    <2>1. CASE i \in 1..p
      BY <1>1, <2>1 DEF Range
    <2>2. CASE i = p + 1
      BY <1>1, <2>2
    <2>3. CASE i \in (p + 2)..(n + 1) /\ i - 1 \in 1..n
      BY <1>1, <2>3 DEF Range
    <2> QED
      BY <1>2, <2>1, <2>2, <2>3
  <1>5. s \in Range(r)
    BY <1>1 DEF Range
  <1>6. Range(q) \subseteq Range(r)
    <2> SUFFICES ASSUME NEW i \in 1..n PROVE q[i] \in Range(r)
      BY <1>1 DEF Range
    <2>1. CASE i \in 1..p
      <3>1. i \in 1..(n + 1) /\ r[i] = q[i]
        BY <1>1, <2>1
      <3> QED
        BY <1>1, <3>1 DEF Range
    <2>2. CASE i + 1 \in (p + 2)..(n + 1) /\ (i + 1) - 1 = i
      <3>1. i + 1 \in 1..(n + 1) /\ r[i + 1] = q[i]
        BY <1>1, <2>2
      <3> QED
        BY <1>1, <3>1 DEF Range
    <2> QED
      BY <1>3, <2>1, <2>2
  <1>7. Range(r) = Range(q) \union {s}
    BY <1>4, <1>5, <1>6
  <1> QED
    BY <1>7 DEF r

-----------------------------------------------------------------------------
(* What the node operations do to slots and free list.                       *)

(* One slot may be written; it may leave the free list or come to it.        *)
SlotMove(s) ==
    /\ session = "open" /\ session' = "open"
    /\ \A t \in DataSlots \ {s} : disk'[t] = disk[t]
    /\ merkleDirty' \in {merkleDirty, TRUE}
    /\ \/ Range(free') = Range(free)
       \/ Range(free') = Range(free) \union {s}
       \/ s \in Range(free) /\ Range(free') = Range(free) \ {s}
    /\ UNCHANGED <<allocBlock, baseline, generation, cachedMerkleRoot, snapshot, copies>>

LEMMA StoreMoves ==
    ASSUME FileTypeOK, SessionTypeOK, NEW s \in DataSlots, NEW k, NEW refs,
           Store(s, Rewritten(s, k, refs)) \/ StoreFails(s)
    PROVE  /\ \A t \in DataSlots \ {s} : disk'[t] = disk[t]
           /\ merkleDirty' \in {merkleDirty, TRUE}
  BY DEF Store, StoreFails, FileTypeOK

LEMMA NodeMoves ==
    ASSUME TypeOK, NodeIO
    PROVE  \E s \in DataSlots : SlotMove(s)
  <1>1. /\ FileTypeOK /\ SessionTypeOK /\ free \in Seq(DataSlots)
        /\ Range(free) \subseteq DataSlots /\ RootSlot \in DataSlots
        /\ References \subseteq DataSlots /\ pending \subseteq DataSlots
    BY ReferencesType, UsedType, SlotsAssumption DEF TypeOK, SessionTypeOK
  <1>2. /\ session = "open" /\ session' = "open"
        /\ UNCHANGED <<allocBlock, baseline, generation, cachedMerkleRoot, snapshot, copies>>
    BY DEF NodeIO, WriteNode, WriteNodeFails, UpdateNode, AddEntry, RemoveEntry, WriteEntryFails,
           FreeNode
  <1>3. ASSUME NEW s \in DataSlots, NEW k, NEW refs, UNCHANGED free,
               Store(s, Rewritten(s, k, refs)) \/ StoreFails(s)
        PROVE  SlotMove(s)
    BY <1>1, <1>2, <1>3, StoreMoves DEF SlotMove
  <1>4. CASE WriteNode \/ WriteNodeFails
    <2>1. PICK s \in DataSlots : /\ Alloc(s)
                                 /\ Store(s, Rewritten(s, "file", {})) \/ StoreFails(s)
      BY <1>4 DEF WriteNode, WriteNodeFails
    <2>2. s \in Range(free) /\ Range(free) = Range(free') \union {s}
      BY <1>1, <2>1, PopRange
    <2>3. Range(free') = Range(free) \/ Range(free') = Range(free) \ {s}
      BY <2>2
    <2> QED
      BY <1>1, <1>2, <2>1, <2>2, <2>3, StoreMoves DEF SlotMove
  <1>5. CASE UpdateNode
    BY <1>1, <1>3, <1>5 DEF UpdateNode
  <1>6. CASE AddEntry \/ RemoveEntry \/ WriteEntryFails
    BY <1>1, <1>3, <1>6 DEF AddEntry, RemoveEntry, WriteEntryFails
  <1>7. CASE FreeNode
    <2>1. PICK s \in pending :
             /\ Store(s, Rewritten(s, "noise", {})) \/ StoreFails(s)
             /\ \E p \in 0..Len(free) : free' = InsertAfter(free, p, s)
      BY <1>7 DEF FreeNode
    <2>2. s \in DataSlots
      BY <1>1
    <2>3. Range(free') = Range(free) \union {s}
      BY <1>1, <2>1, <2>2, InsertRange
    <2> QED
      BY <1>1, <1>2, <2>1, <2>2, <2>3, StoreMoves DEF SlotMove
  <1> QED
    BY <1>4, <1>5, <1>6, <1>7 DEF NodeIO

-----------------------------------------------------------------------------
(* The root block stays in use where the state file is not reset.            *)

LEMMA RootStart == Init => RootInUse /\ SealKept
  BY SlotsAssumption DEF Init, RootInUse, SealKept, AllocBlock, References

(* Nobody but the directory operations writes the root block. *)
RootNotFree == RootSlot \notin Range(free) \union pending \union References

LEMMA RootNodeIO ==
    ASSUME TypeOK, RootNotFree, NodeIO
    PROVE  RootNotFree'
  <1>1. /\ FileTypeOK /\ SessionTypeOK /\ free \in Seq(DataSlots)
        /\ RootSlot \in DataSlots
        /\ References \subseteq DataSlots /\ pending \subseteq DataSlots
    BY ReferencesType, SlotsAssumption DEF TypeOK, SessionTypeOK
  <1>3. RootSlot \notin Range(free) \union pending \union References
    BY DEF RootNotFree
  <1>4. ASSUME RootSlot \notin Range(free') \union pending' \union References'
        PROVE  RootNotFree'
    BY <1>4 DEF RootNotFree
  <1>5. CASE WriteNode \/ WriteNodeFails
    <2>1. PICK s \in DataSlots :
             /\ Alloc(s)
             /\ Store(s, Rewritten(s, "file", {})) \/ StoreFails(s)
             /\ pending' \subseteq pending \union {s}
      BY <1>5 DEF WriteNode, WriteNodeFails
    <2>2. s \in Range(free) /\ Range(free) = Range(free') \union {s}
      BY <1>1, <2>1, PopRange
    <2>3. References' = References
      BY <1>1, <1>3, <2>1, <2>2, StoreElsewhere
    <2> QED
      BY <1>3, <1>4, <2>1, <2>2, <2>3
  <1>6. CASE UpdateNode
    <2>1. PICK s \in References \union pending :
             Store(s, Rewritten(s, "file", {})) \/ StoreFails(s)
      BY <1>6 DEF UpdateNode
    <2>2. References' = References
      BY <1>1, <1>3, <2>1, StoreElsewhere
    <2> QED
      BY <1>3, <1>4, <1>6, <2>2 DEF UpdateNode
  <1>7. CASE AddEntry
    <2>1. PICK s \in pending :
             Store(RootSlot, Rewritten(RootSlot, "dir", References \union {s}))
      BY <1>7 DEF AddEntry
    <2>2. References' = References \union {s} /\ s # RootSlot
      BY <1>1, <1>3, <2>1, StoreRoot
    <2> QED
      BY <1>3, <1>4, <1>7, <2>2 DEF AddEntry
  <1>8. CASE RemoveEntry
    <2>1. PICK s \in References :
             /\ Store(RootSlot, Rewritten(RootSlot, "dir", References \ {s}))
             /\ pending' = pending \union {s}
      BY <1>8 DEF RemoveEntry
    <2>2. References' = References \ {s} /\ s # RootSlot
      BY <1>1, <1>3, <2>1, StoreRoot
    <2> QED
      BY <1>3, <1>4, <1>8, <2>1, <2>2 DEF RemoveEntry
  <1>9. CASE WriteEntryFails
    <2>1. References' = References \/ References' = {}
      BY <1>1, <1>9, StoreRootFails DEF WriteEntryFails
    <2> QED
      BY <1>3, <1>4, <1>9, <2>1 DEF WriteEntryFails
  <1>10. CASE FreeNode
    <2>1. PICK s \in pending :
             /\ Store(s, Rewritten(s, "noise", {})) \/ StoreFails(s)
             /\ pending' = pending \ {s}
             /\ \E p \in 0..Len(free) : free' = InsertAfter(free, p, s)
      BY <1>10 DEF FreeNode
    <2>2. s \in DataSlots /\ s # RootSlot
      BY <1>1, <1>3
    <2>3. Range(free') = Range(free) \union {s}
      BY <1>1, <2>1, <2>2, InsertRange
    <2>4. References' = References
      BY <1>1, <2>1, <2>2, StoreElsewhere
    <2> QED
      BY <1>3, <1>4, <2>1, <2>2, <2>3, <2>4
  <1> QED
    BY <1>5, <1>6, <1>7, <1>8, <1>9, <1>10 DEF NodeIO

(* An open whose counter is not behind the baseline has read the bitmap. *)
LEMMA RootOpen ==
    ASSUME TypeOK, RootInUse, Open
    PROVE  RootInUse'
  <1>1. FileTypeOK /\ LoadedGeneration \in Nat /\ LoadedFree \in SUBSET DataSlots
    BY LoadedType DEF TypeOK
  <1>2. baseline >= 1 /\ baseline \in Nat
    BY DEF RootInUse, TypeOK, OutsideTypeOK
  <1>3. LoadedGeneration >= baseline
    BY <1>1, <1>2 DEF Open, LoadOutcome
  <1>4. allocBlock.readable
    BY <1>2, <1>3 DEF LoadedGeneration
  <1>5. free' \in SortedDescending(LoadedFree)
    BY DEF Open
  <1>6. Range(free') = LoadedFree
    BY <1>1, <1>5, SortedType
  <1>7. RootSlot \notin Range(free')
    BY <1>4, <1>6 DEF RootInUse, LoadedFree
  <1> QED
    BY <1>1, <1>2, <1>3, <1>7 DEF Open, RootInUse, References

LEMMA RootStep ==
    ASSUME TypeOK, RootInUse, PromiseFaults, [Next]_vars, ~ResetBaseline
    PROVE  RootInUse'
  <1>1. FileTypeOK /\ SessionTypeOK /\ RootSlot \in DataSlots /\ generation \in Nat
    BY SlotsAssumption DEF TypeOK, SessionTypeOK
  <1>2. CASE NodeIO
    <2>1. session = "open" /\ UNCHANGED <<allocBlock, baseline, generation>>
      BY <1>2, NodeMoves DEF SlotMove
    <2>2. RootNotFree
      BY <2>1 DEF RootInUse, RootNotFree
    <2>3. RootNotFree'
      BY <1>2, <2>2, RootNodeIO
    <2> QED
      BY <2>1, <2>3 DEF RootInUse, RootNotFree
  <1>3. CASE FlushSave
    BY <1>1, <1>3 DEF FlushSave, RootInUse, AllocBlock, References
  <1>4. CASE FlushSaveFails
    <2>1. allocBlock'.readable => allocBlock' = allocBlock
      BY <1>1, <1>4 DEF FlushSaveFails, FileTypeOK, IsAllocBlock
    <2> QED
      BY <1>1, <1>4, <2>1 DEF FlushSaveFails, RootInUse, References
  <1>5. CASE FlushBaseline
    BY <1>1, <1>5 DEF FlushBaseline, InMemoryStateLost, RootInUse, References, fileVars
  <1>6. CASE FlushBaselineFails
    BY <1>6 DEF FlushBaselineFails, RootInUse, References, fileVars
  <1>7. CASE Open
    BY <1>7, RootOpen
  <1>8. CASE Crash
    BY <1>8 DEF Crash, InMemoryStateLost, RootInUse, References, fileVars
  <1>9. CASE MediaFault
    <2>1. References' = References \/ References' = {}
      BY <1>1, <1>9 DEF MediaFault, References, Rewritten, FileTypeOK
    <2>2. allocBlock'.readable => allocBlock' = allocBlock
      BY <1>1, <1>9 DEF MediaFault, FileTypeOK, IsAllocBlock
    <2> QED
      BY <1>9, <2>1, <2>2 DEF MediaFault, RootInUse, sessionVars
  <1>10. CASE TakeBackup
    BY <1>10 DEF TakeBackup, RootInUse, References, fileVars, sessionVars
  <1>11. CASE OpenRefused \/ UNCHANGED vars
    BY <1>11 DEF OpenRefused, RootInUse, References, vars, fileVars, sessionVars
  <1>12. ~RestoreBackup
    BY DEF RestoreBackup, PromiseFaults
  <1> QED
    BY <1>2, <1>3, <1>4, <1>5, <1>6, <1>7, <1>8, <1>9, <1>10, <1>11, <1>12
    DEF Next, Flush, Host

-----------------------------------------------------------------------------
(* A sealed volume has a root to write at its next save.                     *)

LEMMA RootIsSeal ==
    ASSUME RootInUse, session # "closed", TypeOK
    PROVE  MerkleRootOf(UsedSlots(Range(free))) # ZeroRoot
  <1>1. RootSlot \in UsedSlots(Range(free))
    BY SlotsAssumption DEF RootInUse, UsedSlots
  <1>2. DOMAIN MerkleRootOf(UsedSlots(Range(free))) = UsedSlots(Range(free))
    BY DEF MerkleRootOf
  <1>3. DOMAIN ZeroRoot = {}
    BY DEF ZeroRoot
  <1> QED
    BY <1>1, <1>2, <1>3

LEMMA SealStep ==
    ASSUME TypeOK, PromiseInv, PromiseFaults, [Next]_vars
    PROVE  SealKept'
  <1>1. CASE NodeIO
    <2>1. PICK s \in DataSlots : SlotMove(s)
      BY <1>1, NodeMoves
    <2>2. LoadedRoot' = LoadedRoot
      BY <2>1 DEF SlotMove, LoadedRoot
    <2>3. session # "closed" /\ UNCHANGED cachedMerkleRoot
      BY <2>1 DEF SlotMove
    <2>4. merkleDirty => merkleDirty'
      <3>1. merkleDirty' = merkleDirty \/ merkleDirty' = TRUE
        BY <2>1, Zenon DEF SlotMove
      <3>2. CASE merkleDirty' = merkleDirty
        BY <3>2, Zenon
      <3>3. CASE merkleDirty' = TRUE
        BY <3>3, Zenon
      <3> QED
        BY <3>1, <3>2, <3>3
    <2>5. LoadedRoot # ZeroRoot => merkleDirty \/ cachedMerkleRoot # ZeroRoot
      BY <2>3 DEF SealKept, PromiseInv
    <2>6. LoadedRoot' # ZeroRoot => merkleDirty' \/ cachedMerkleRoot' # ZeroRoot
      BY <2>2, <2>3, <2>4, <2>5
    <2> QED
      BY <2>6 DEF SealKept
  <1>2. CASE FlushSave
    BY <1>2 DEF FlushSave, SealKept
  <1>3. CASE FlushSaveFails
    <2> SUFFICES ASSUME LoadedRoot' # ZeroRoot PROVE cachedMerkleRoot' # ZeroRoot
      BY DEF SealKept
    <2>1. RootInUse /\ session # "closed"
      BY <1>3 DEF FlushSaveFails, PromiseFaults, PromiseInv, RootKept
    <2>2. allocBlock' = allocBlock
      BY <1>3 DEF FlushSaveFails, LoadedRoot, TypeOK, FileTypeOK, IsAllocBlock
    <2>3. LoadedRoot # ZeroRoot
      BY <2>2 DEF LoadedRoot
    <2>4. cachedMerkleRoot' = FreshMerkleRoot
      BY <1>3 DEF FlushSaveFails
    <2> QED
      BY <2>1, <2>3, <2>4, RootIsSeal DEF FreshMerkleRoot, PromiseInv, SealKept
  <1>4. CASE Open
    BY <1>4 DEF Open, SealKept, LoadedRoot
  <1>5. CASE session' = "closed"
    BY <1>5 DEF SealKept
  <1>6. CASE UNCHANGED <<session, allocBlock, merkleDirty, cachedMerkleRoot>>
    BY <1>6 DEF SealKept, LoadedRoot, PromiseInv
  <1>7. CASE FlushBaseline \/ FlushBaselineFails
    <2>1. session # "closed" /\ UNCHANGED allocBlock
      BY <1>7 DEF FlushBaseline, FlushBaselineFails, fileVars
    <2>2. session' = "closed" \/ UNCHANGED <<merkleDirty, cachedMerkleRoot>>
      BY <1>7 DEF FlushBaseline, FlushBaselineFails, InMemoryStateLost
    <2> QED
      BY <2>1, <2>2 DEF SealKept, LoadedRoot, PromiseInv
  <1>8. CASE Host
    BY <1>5, <1>8
    DEF Host, Crash, InMemoryStateLost, MediaFault, TakeBackup, RestoreBackup, sessionVars
  <1>9. CASE OpenRefused \/ ResetBaseline \/ UNCHANGED vars
    BY <1>6, <1>9 DEF OpenRefused, ResetBaseline, vars, fileVars, sessionVars
  <1> QED
    BY <1>1, <1>2, <1>3, <1>4, <1>7, <1>8, <1>9 DEF Next, Flush

LEMMA PromiseStep ==
    ASSUME TypeOK, PromiseInv, PromiseFaults, [Next]_vars
    PROVE  PromiseInv'
  <1>1. ResetBaseline => "reset" \in Faults
    BY DEF ResetBaseline
  <1>2. "reset" \notin Faults => RootInUse'
    BY <1>1, RootStep DEF PromiseInv, RootKept
  <1>3. RootKept'
    BY <1>2 DEF RootKept
  <1> QED
    BY <1>3, SealStep DEF PromiseInv

-----------------------------------------------------------------------------
(* The refinement.                                                           *)

LEMMA ViewIs ==
    ASSUME TypeOK
    PROVE  /\ session = "closed" => View = <<>>
           /\ session # "closed" =>
                /\ View = MerkleRootOf(UsedSlots(Range(free)))
                /\ DOMAIN View = UsedSlots(Range(free))
                /\ DOMAIN View \subseteq DataSlots
                /\ \A t \in DOMAIN View : View[t] = disk[t]
  BY DEF View, MerkleRootOf, UsedSlots

LEMMA PromiseInit ==
    ASSUME Init PROVE Volume!Init
  <1>1. DOMAIN snapshot = {RootSlot} /\ RootSlot \in DataSlots
    BY SlotsAssumption DEF Init, MerkleRootOf
  <1> QED
    BY <1>1 DEF Init, Volume!Init

(* A node operation takes a slot into use, out of use, or writes one. *)
LEMMA NodePromise ==
    ASSUME TypeOK, TypeOK', NEW s \in DataSlots, SlotMove(s)
    PROVE  Volume!Next
  <1>1. /\ session # "closed" /\ session' # "closed"
        /\ snapshot' = snapshot /\ LoadedRoot' = LoadedRoot
        /\ \A t \in DataSlots \ {s} : disk'[t] = disk[t]
    BY DEF SlotMove, LoadedRoot
  <1>2. /\ View = MerkleRootOf(UsedSlots(Range(free)))
        /\ DOMAIN View = UsedSlots(Range(free)) /\ DOMAIN View \subseteq DataSlots
        /\ \A t \in DOMAIN View : View[t] = disk[t]
    BY <1>1, ViewIs
  <1>3. /\ View' = MerkleRootOf(UsedSlots(Range(free)))'
        /\ DOMAIN View' = UsedSlots(Range(free')) /\ DOMAIN View' \subseteq DataSlots
        /\ \A t \in DOMAIN View' : View'[t] = disk'[t]
    BY <1>1 DEF View, MerkleRootOf, UsedSlots
  <1>4. \A t \in (DOMAIN View \intersect DOMAIN View') \ {s} : View'[t] = View[t]
    BY <1>1, <1>2, <1>3
  <1>5. merkleDirty' \in {merkleDirty, TRUE}
    BY DEF SlotMove
  <1>6. CASE DOMAIN View' = DOMAIN View
    <2>1. \A t \in DOMAIN View \ {s} : View'[t] = View[t]
      BY <1>4, <1>6
    <2>2. Volume!Overwrite
      BY <1>1, <1>5, <1>6, <2>1, Zenon DEF Volume!Overwrite, Volume!Noted, View
    <2> QED
      BY <2>2 DEF Volume!Next
  <1>7. CASE s \notin DOMAIN View /\ DOMAIN View' = DOMAIN View \union {s}
    <2>1. \A t \in DOMAIN View : View'[t] = View[t]
      BY <1>4, <1>7
    <2>2. s \in DataSlots \ DOMAIN View
      BY <1>7
    <2>3. Volume!Allocate
      BY <1>1, <1>5, <1>7, <2>1, <2>2, Zenon DEF Volume!Allocate, Volume!Noted, View
    <2> QED
      BY <2>3 DEF Volume!Next
  <1>8. CASE s \in DOMAIN View /\ DOMAIN View' = DOMAIN View \ {s}
    <2>1. View' = [t \in DOMAIN View \ {s} |-> View[t]]
      <3>1. View' = [t \in UsedSlots(Range(free')) |-> disk'[t]]
        BY <1>3 DEF MerkleRootOf
      <3> QED
        BY <1>3, <1>4, <1>8, <3>1
    <2>2. Volume!Release
      BY <1>1, <1>5, <1>8, <2>1, Zenon DEF Volume!Release, Volume!Noted, View
    <2> QED
      BY <2>2 DEF Volume!Next
  <1>9. \/ DOMAIN View' = DOMAIN View
        \/ s \notin DOMAIN View /\ DOMAIN View' = DOMAIN View \union {s}
        \/ s \in DOMAIN View /\ DOMAIN View' = DOMAIN View \ {s}
    <2>1. \/ Range(free') = Range(free)
          \/ Range(free') = Range(free) \union {s}
          \/ s \in Range(free) /\ Range(free') = Range(free) \ {s}
      BY DEF SlotMove
    <2> QED
      BY <1>2, <1>3, <2>1 DEF UsedSlots
  <1> QED
    BY <1>6, <1>7, <1>8, <1>9

(* save_free_list makes the view durable, and seals what it changed. *)
LEMMA SavePromise ==
    ASSUME TypeOK, PromiseInv, FlushSave
    PROVE  Volume!Next
  <1>1. session # "closed" /\ session' # "closed"
    BY DEF FlushSave
  <1>2. View = MerkleRootOf(UsedSlots(Range(free)))
    BY <1>1, ViewIs
  <1>3. snapshot' = View
    BY <1>2 DEF FlushSave
  <1>4. View' = View
    BY <1>1 DEF View, FlushSave, MerkleRootOf
  <1>5. LoadedRoot' = FreshMerkleRoot
    BY DEF FlushSave, LoadedRoot, AllocBlock
  <1>6. (LoadedRoot # ZeroRoot \/ merkleDirty) /\ View # <<>> => LoadedRoot' # ZeroRoot
    BY <1>1, <1>2, <1>5 DEF FreshMerkleRoot, PromiseInv, SealKept, ZeroRoot
  <1>7. merkleDirty' = TRUE
    BY DEF FlushSave
  <1>8. Volume!Save
    <2>1. {(LoadedRoot # ZeroRoot)', merkleDirty'} \subseteq BOOLEAN
      BY <1>7
    <2> QED
      BY <1>1, <1>3, <1>4, <1>6, <2>1, Zenon DEF Volume!Save, View
  <1> QED
    BY <1>8 DEF Volume!Next

(* It may also fail, and take the allocation block with it. *)
LEMMA FailPromise ==
    ASSUME TypeOK, FlushSaveFails
    PROVE  Volume!Next
  <1>1. /\ session' = session /\ View' = View /\ snapshot' = snapshot /\ merkleDirty' = FALSE
    BY DEF FlushSaveFails, View, MerkleRootOf
  <1>2. (LoadedRoot # ZeroRoot)' = (LoadedRoot # ZeroRoot) \/ (LoadedRoot # ZeroRoot)' = FALSE
    BY DEF FlushSaveFails, LoadedRoot, TypeOK, FileTypeOK, IsAllocBlock
  <1>3. Volume!FailSave
    BY <1>1, <1>2, Zenon DEF Volume!FailSave, View
  <1> QED
    BY <1>3 DEF Volume!Next

(* An open of a sealed volume shows what the last save made durable. *)
LEMMA OpenPromise ==
    ASSUME TypeOK, RootsNotAhead, Open
    PROVE  Volume!Next
  <1>1. /\ session = "closed" /\ session' # "closed" /\ merkleDirty' = FALSE
        /\ UNCHANGED <<disk, allocBlock, snapshot>> /\ LoadOutcome = "ok"
        /\ free' \in SortedDescending(LoadedFree)
    BY DEF Open
  <1>2. FileTypeOK /\ LoadedFree \in SUBSET DataSlots
    BY LoadedType DEF TypeOK
  <1>3. Range(free') = LoadedFree
    BY <1>1, <1>2, SortedType
  <1>4. View' = [t \in UsedSlots(LoadedFree) |-> disk[t]]
    BY <1>1, <1>3 DEF View, MerkleRootOf
  <1>5. DOMAIN View' \subseteq DataSlots
    BY <1>4 DEF UsedSlots
  <1>6. LoadedRoot # ZeroRoot => View' = snapshot
    <2> SUFFICES ASSUME LoadedRoot # ZeroRoot PROVE View' = snapshot
      OBVIOUS
    <2>1. FileAsSaved
      BY <1>1, <1>2, MatchingRootIsTheSave
    <2>2. DOMAIN snapshot = UsedSlots(LoadedFree)
      BY <2>1, RootsNotAheadIs, FileOrderIs DEF FileAsSaved, LoadedFree
    <2>3. snapshot = [t \in DOMAIN snapshot |-> snapshot[t]]
      BY <1>2 DEF FileTypeOK, IsMerkleRoot
    <2> QED
      BY <1>4, <2>1, <2>2, <2>3 DEF FileAsSaved
  <1>7. LoadedRoot' = LoadedRoot
    BY <1>1 DEF LoadedRoot
  <1>8. Volume!Mount
    BY <1>1, <1>5, <1>6, <1>7, Zenon DEF Volume!Mount, View
  <1> QED
    BY <1>8 DEF Volume!Next

LEMMA LeavePromise ==
    ASSUME session # "closed", InMemoryStateLost, UNCHANGED fileVars
    PROVE  Volume!Next
  <1>1. session' = "closed" /\ merkleDirty' = FALSE /\ View' = <<>> /\ snapshot' = snapshot
    BY DEF InMemoryStateLost, fileVars, View
  <1>2. LoadedRoot' = LoadedRoot
    BY DEF fileVars, LoadedRoot
  <1>3. Volume!Leave
    BY <1>1, <1>2, Zenon DEF Volume!Leave, View
  <1> QED
    BY <1>3 DEF Volume!Next

(* Whether anybody has the volume open is all that shows of a session. *)
Unseen ==
    /\ (session # "closed") = (session # "closed")'
    /\ View' = View /\ snapshot' = snapshot /\ merkleDirty' = merkleDirty
    /\ LoadedRoot' = LoadedRoot

LEMMA UnseenPromise ==
    ASSUME Unseen PROVE UNCHANGED Volume!vars
  BY Zenon DEF Unseen, Volume!vars, View

(* Decay of the closed file shows in the seal only. *)
LEMMA MediaPromise ==
    ASSUME TypeOK, MediaFault
    PROVE  Volume!Next
  <1>1. /\ session = "closed" /\ session' = "closed" /\ View = <<>> /\ View' = <<>>
        /\ snapshot' = snapshot /\ merkleDirty' = merkleDirty
    BY DEF MediaFault, sessionVars, View
  <1>2. (LoadedRoot # ZeroRoot)' = (LoadedRoot # ZeroRoot) \/ (LoadedRoot # ZeroRoot)' = FALSE
    BY DEF MediaFault, LoadedRoot, TypeOK, FileTypeOK, IsAllocBlock
  <1>3. Volume!FailSave
    BY <1>1, <1>2, Zenon DEF Volume!FailSave, View
  <1> QED
    BY <1>3 DEF Volume!Next

LEMMA VolumeStep ==
    ASSUME TypeOK, TypeOK', RootsNotAhead, PromiseInv, PromiseFaults, [Next]_vars
    PROVE  [Volume!Next]_(Volume!vars)
  <1>1. CASE NodeIO
    BY <1>1, NodeMoves, NodePromise
  <1>2. CASE FlushSave
    BY <1>2, SavePromise
  <1>3. CASE FlushSaveFails
    BY <1>3, FailPromise
  <1>4. CASE FlushBaseline
    <2>1. CASE InMemoryStateLost
      BY <1>4, <2>1, LeavePromise DEF FlushBaseline
    <2>2. CASE session' = "open" /\ UNCHANGED <<free, merkleDirty>>
      <3>1. Unseen
        BY <1>4, <2>2 DEF FlushBaseline, fileVars, Unseen, View, LoadedRoot, MerkleRootOf
      <3> QED
        BY <3>1, UnseenPromise
    <2> QED
      BY <1>4, <2>1, <2>2 DEF FlushBaseline
  <1>5. CASE FlushBaselineFails
    <2>1. Unseen
      BY <1>5 DEF FlushBaselineFails, fileVars, Unseen, View, LoadedRoot, MerkleRootOf
    <2> QED
      BY <2>1, UnseenPromise
  <1>6. CASE Open
    BY <1>6, OpenPromise
  <1>7. CASE Crash
    BY <1>7, LeavePromise DEF Crash
  <1>8. CASE MediaFault
    BY <1>8, MediaPromise
  <1>9. CASE OpenRefused \/ ResetBaseline \/ TakeBackup \/ UNCHANGED vars
    <2>1. UNCHANGED <<disk, allocBlock, snapshot, session, free, merkleDirty>>
      BY <1>9 DEF OpenRefused, ResetBaseline, TakeBackup, vars, fileVars, sessionVars
    <2>2. Unseen
      BY <2>1 DEF Unseen, View, LoadedRoot, MerkleRootOf
    <2> QED
      BY <2>2, UnseenPromise
  <1>10. ~RestoreBackup
    BY DEF RestoreBackup, PromiseFaults
  <1> QED
    BY <1>1, <1>2, <1>3, <1>4, <1>5, <1>6, <1>7, <1>8, <1>9, <1>10 DEF Next, Flush, Host

(* What a volume shows after an open, a save, a crash or decay is what the   *)
(* filesystem above it may count on: the durable view of a sealed volume or  *)
(* an error (alloc, free_slot, write, save_free_list, load_free_list).       *)
THEOREM VolumeImplemented == PromiseFaults => (Spec => KeepsVolumePromise)
  <1> SUFFICES ASSUME PromiseFaults PROVE Spec => KeepsVolumePromise
    OBVIOUS
  <1>1. Init => PromiseInv /\ Volume!Init
    BY RootStart, PromiseInit DEF PromiseInv, RootKept
  <1>2. TypeOK /\ PromiseInv /\ [Next]_vars => PromiseInv'
    BY PromiseStep
  <1>3. TypeOK /\ TypeOK' /\ RootsNotAhead /\ PromiseInv /\ [Next]_vars
            => [Volume!Next]_(Volume!vars)
    BY VolumeStep
  <1> QED
    BY <1>1, <1>2, <1>3, TypeCorrect, RootsNeverAhead, PTL
    DEF Spec, KeepsVolumePromise, Volume!Spec

-----------------------------------------------------------------------------
(* Without failures no slot is lost.                                         *)

NothingFails == Faults \intersect {"crash", "io", "media"} = {}

(* What a file describes: each slot is free, the root's, or named.           *)
Whole(image) ==
    /\ image.allocBlock.readable
    /\ RootSlot \notin image.allocBlock.bitmap \union image.disk[RootSlot].refs
    /\ image.allocBlock.bitmap \union {RootSlot} \union image.disk[RootSlot].refs = DataSlots

(* An open volume has every slot in its list or in use.  Its file need not   *)
(* tell until the flush that the volume is closed with.                      *)
AllOwned == Range(free) \union InUse = DataSlots /\ RootNotFree

NothingLost ==
    /\ \A c \in copies : Whole(c)
    /\ session = "closed" => Whole(FileImage)
    /\ session # "closed" => AllOwned
    /\ session = "flushing" => allocBlock.readable /\ allocBlock.bitmap = Range(free)

LEMMA WholeIs ==
    Whole(FileImage) <=>
        /\ allocBlock.readable
        /\ RootSlot \notin allocBlock.bitmap \union References
        /\ allocBlock.bitmap \union {RootSlot} \union References = DataSlots
  BY DEF Whole, FileImage, References

LEMMA LostStart == Init => NothingLost
  <1> SUFFICES ASSUME Init PROVE NothingLost
    OBVIOUS
  <1>1. /\ allocBlock.readable /\ allocBlock.bitmap = DataSlots \ {RootSlot}
        /\ References = {} /\ session = "closed" /\ copies = {}
    BY SlotsAssumption DEF Init, AllocBlock, References
  <1> QED
    BY <1>1, WholeIs, SlotsAssumption DEF NothingLost

(* A slot goes from the list to the operation, from there to a directory,    *)
(* and the same way back.                                                    *)
LEMMA OwnedNodeIO ==
    ASSUME TypeOK, NothingFails, AllOwned, NodeIO
    PROVE  AllOwned'
  <1>1. /\ FileTypeOK /\ SessionTypeOK /\ free \in Seq(DataSlots)
        /\ RootSlot \in DataSlots
        /\ References \subseteq DataSlots /\ pending \subseteq DataSlots
    BY ReferencesType, SlotsAssumption DEF TypeOK, SessionTypeOK
  <1>2. RootSlot \notin Range(free) \union pending \union References
    BY DEF AllOwned, RootNotFree
  <1>3. Range(free) \union {RootSlot} \union References \union pending = DataSlots
    BY DEF AllOwned, InUse
  <1>4. ASSUME NEW s \in DataSlots PROVE ~StoreFails(s)
    BY DEF StoreFails, NothingFails
  <1>5. Range(free') \union {RootSlot} \union References' \union pending' = DataSlots
    <2>1. CASE WriteNode
      <3>1. PICK s \in DataSlots :
               /\ Alloc(s)
               /\ Store(s, Rewritten(s, "file", {}))
               /\ pending' = pending \union {s}
        BY <2>1 DEF WriteNode
      <3>2. s \in Range(free) /\ Range(free) = Range(free') \union {s}
        BY <1>1, <3>1, PopRange
      <3>3. References' = References
        BY <1>1, <1>2, <3>1, <3>2, StoreElsewhere
      <3> QED
        BY <1>3, <3>1, <3>2, <3>3
    <2>2. CASE UpdateNode
      <3>1. PICK s \in References \union pending :
               Store(s, Rewritten(s, "file", {})) \/ StoreFails(s)
        BY <2>2 DEF UpdateNode
      <3>2. References' = References
        BY <1>1, <1>2, <3>1, StoreElsewhere
      <3> QED
        BY <1>3, <2>2, <3>2 DEF UpdateNode
    <2>3. CASE AddEntry
      <3>1. PICK s \in pending :
               /\ Store(RootSlot, Rewritten(RootSlot, "dir", References \union {s}))
               /\ pending' = pending \ {s}
        BY <2>3 DEF AddEntry
      <3>2. References' = References \union {s}
        BY <1>1, <3>1, StoreRoot
      <3> QED
        BY <1>1, <1>3, <2>3, <3>1, <3>2 DEF AddEntry
    <2>4. CASE RemoveEntry
      <3>1. PICK s \in References :
               /\ Store(RootSlot, Rewritten(RootSlot, "dir", References \ {s}))
               /\ pending' = pending \union {s}
        BY <2>4 DEF RemoveEntry
      <3>2. References' = References \ {s}
        BY <1>1, <3>1, StoreRoot
      <3> QED
        BY <1>1, <1>3, <2>4, <3>1, <3>2 DEF RemoveEntry
    <2>5. CASE FreeNode
      <3>1. PICK s \in pending :
               /\ Store(s, Rewritten(s, "noise", {})) \/ StoreFails(s)
               /\ pending' = pending \ {s}
               /\ \E p \in 0..Len(free) : free' = InsertAfter(free, p, s)
        BY <2>5 DEF FreeNode
      <3>2. s \in DataSlots /\ s # RootSlot
        BY <1>1, <1>2
      <3>3. Range(free') = Range(free) \union {s}
        BY <1>1, <3>1, <3>2, InsertRange
      <3>4. References' = References
        BY <1>1, <3>1, <3>2, StoreElsewhere
      <3> QED
        BY <1>1, <1>3, <3>1, <3>3, <3>4
    <2>6. ~WriteNodeFails /\ ~WriteEntryFails
      BY <1>1, <1>4 DEF WriteNodeFails, WriteEntryFails
    <2> QED
      BY <2>1, <2>2, <2>3, <2>4, <2>5, <2>6 DEF NodeIO
  <1>6. RootNotFree'
    BY RootNodeIO DEF AllOwned
  <1> QED
    BY <1>5, <1>6 DEF AllOwned, InUse

LEMMA LostStep ==
    ASSUME TypeOK, NothingFails, NothingLost, [Next]_vars
    PROVE  NothingLost'
  <1>1. FileTypeOK
    BY DEF TypeOK
  <1>2. CASE NodeIO
    <2>1. session = "open" /\ session' = "open" /\ copies' = copies
      BY <1>2, NodeMoves DEF SlotMove
    <2>2. AllOwned'
      BY <1>2, <2>1, OwnedNodeIO DEF NothingLost
    <2> QED
      BY <2>1, <2>2 DEF NothingLost
  <1>3. CASE FlushSave
    <2>1. UNCHANGED <<disk, free, pending, copies>> /\ session = "open" /\ session' = "flushing"
      BY <1>3 DEF FlushSave
    <2>2. AllOwned'
      BY <2>1 DEF NothingLost, AllOwned, InUse, References, RootNotFree
    <2>3. allocBlock'.readable /\ allocBlock'.bitmap = Range(free')
      BY <1>3 DEF FlushSave, AllocBlock
    <2> QED
      BY <2>1, <2>2, <2>3 DEF NothingLost
  <1>4. CASE FlushBaseline
    <2>1. UNCHANGED <<disk, allocBlock, copies>> /\ session = "flushing"
      BY <1>4 DEF FlushBaseline, fileVars
    <2>2. CASE session' = "open" /\ UNCHANGED <<free, pending>>
      BY <2>1, <2>2 DEF NothingLost, AllOwned, InUse, References, RootNotFree
    <2>3. CASE pending = {} /\ session' = "closed"
      <3>1. Whole(FileImage)
        BY <2>1, <2>3, WholeIs DEF NothingLost, AllOwned, InUse, RootNotFree
      <3>2. Whole(FileImage)'
        BY <2>1, <3>1 DEF Whole, FileImage
      <3> QED
        BY <2>1, <2>3, <3>2 DEF NothingLost
    <2> QED
      BY <1>4, <2>2, <2>3 DEF FlushBaseline, InMemoryStateLost
  <1>5. CASE Open
    <2>1. /\ UNCHANGED <<disk, allocBlock, copies>> /\ session = "closed" /\ session' = "open"
          /\ pending' = {} /\ free' \in SortedDescending(LoadedFree)
      BY <1>5 DEF Open
    <2>2. allocBlock.readable /\ LoadedFree = allocBlock.bitmap
      BY <2>1, WholeIs DEF NothingLost, LoadedFree
    <2>3. Range(free') = allocBlock.bitmap
      BY <1>1, <2>1, <2>2, LoadedType, SortedType
    <2>4. References' = References
      BY <2>1 DEF References
    <2>5. AllOwned'
      BY <2>1, <2>3, <2>4, WholeIs DEF NothingLost, AllOwned, InUse, RootNotFree
    <2> QED
      BY <2>1, <2>5 DEF NothingLost
  <1>6. CASE TakeBackup
    <2>1. /\ UNCHANGED <<disk, allocBlock, snapshot, lineage, trusted, session>>
          /\ session = "closed" /\ copies' = copies \union {FileImage}
      BY <1>6 DEF TakeBackup, fileVars, sessionVars
    <2>2. FileImage' = FileImage
      BY <2>1 DEF FileImage
    <2>3. Whole(FileImage)'
      BY <2>1, <2>2 DEF NothingLost, Whole
    <2> QED
      BY <2>1, <2>3 DEF NothingLost
  <1>7. CASE RestoreBackup
    <2>1. PICK c \in copies : disk' = c.disk /\ allocBlock' = c.allocBlock
      BY <1>7 DEF RestoreBackup
    <2>2. UNCHANGED <<session, copies>> /\ session = "closed"
      BY <1>7 DEF RestoreBackup, sessionVars
    <2>3. Whole(FileImage)'
      BY <2>1 DEF NothingLost, Whole, FileImage
    <2> QED
      BY <2>2, <2>3 DEF NothingLost
  <1>8. CASE OpenRefused \/ ResetBaseline \/ UNCHANGED vars
    <2>1. /\ UNCHANGED <<disk, allocBlock, snapshot, lineage, trusted, session, free, pending,
                         copies>>
      BY <1>8 DEF OpenRefused, ResetBaseline, vars, fileVars, sessionVars
    <2>2. FileImage' = FileImage /\ References' = References
      BY <2>1 DEF FileImage, References
    <2> QED
      BY <2>1, <2>2 DEF NothingLost, Whole, AllOwned, InUse, RootNotFree
  <1>9. ~FlushSaveFails /\ ~FlushBaselineFails /\ ~Crash /\ ~MediaFault
    BY DEF FlushSaveFails, FlushBaselineFails, Crash, MediaFault, NothingFails
  <1> QED
    BY <1>2, <1>3, <1>4, <1>5, <1>6, <1>7, <1>8, <1>9 DEF Next, Flush, Host

(* Without crashes, failing writes and decay every slot is free, named by a  *)
(* directory or in an operation's hands, across any number of closes, opens, *)
(* backups and restores (alloc, free_slot, save_free_list, load_free_list).  *)
THEOREM SlotsNotLost == Spec => []NoSlotIsLost
  <1>1. CASE NothingFails
    <2>1. TypeOK /\ NothingLost /\ [Next]_vars => NothingLost'
      BY <1>1, LostStep
    <2>2. NothingLost => NoSlotIsLost
      BY DEF NothingLost, AllOwned, NoSlotIsLost
    <2> QED
      BY <2>1, <2>2, LostStart, TypeCorrect, PTL DEF Spec
  <1>2. CASE ~NothingFails
    <2>1. NoSlotIsLost
      BY <1>2 DEF NothingFails, NoSlotIsLost
    <2> QED
      BY <2>1, PTL
  <1> QED
    BY <1>1, <1>2

-----------------------------------------------------------------------------
(* Where slots, headers and recipients lie (Layout).                         *)

(* What the proofs below calculate with. *)
USE DEF HeaderSize, HeaderRegion, SlotSize, MaxPasswordSlots, MaxKeySlots

LEMMA Numbers ==
    /\ PasswordSlotSize = 176 /\ KeySlotSize = 1743
    /\ RecipientArea = 15352 /\ DataAreaOffset = 16376
    /\ MinSize = 541176
  BY DEF Overhead, PasswordSlotSize, KeySlotSize, RecipientArea, DataAreaOffset, MinSize

(* Headers, password slots, key slots and data slots follow one another and  *)
(* do not overlap (pw_slot_offset, key_slot_offset, slot_offset), for the    *)
(* recipient operations write in the middle of the file without a lock.      *)
THEOREM RegionsApart ==
    ASSUME NEW i \in 0..(MaxPasswordSlots - 1), NEW j \in 0..(MaxKeySlots - 1), NEW s \in Nat
    PROVE  /\ 2 * HeaderSize <= PasswordSlotOffset(i)
           /\ PasswordSlotOffset(i) + PasswordSlotSize = PasswordSlotOffset(i + 1)
           /\ PasswordSlotOffset(i) + PasswordSlotSize <= KeySlotOffset(0)
           /\ KeySlotOffset(j) + KeySlotSize = KeySlotOffset(j + 1)
           /\ KeySlotOffset(j) + KeySlotSize <= DataAreaOffset
           /\ SlotOffset(s) + SlotSize = SlotOffset(s + 1)
  BY Numbers DEF PasswordSlotOffset, KeySlotOffset, SlotOffset

(* The file that create makes is not larger than what was asked for, ends    *)
(* behind its last slot with the tail that headers are written to, and has   *)
(* at least an allocation slot and a root for each volume; the hidden        *)
(* volume's slots come after the outer ones.                                 *)
THEOREM VolumesFit ==
    ASSUME NEW size \in Nat, NEW hiddenSize \in Nat, Accepts(size, hiddenSize)
    PROVE  LET outer  == OuterSlots(size, hiddenSize)
               hidden == HiddenSlots(hiddenSize)
               file   == FileSize(outer + hidden, TRUE)
           IN /\ outer \in Nat /\ hidden \in Nat
              /\ file <= size
              /\ SlotOffset(outer + hidden) = CreatedBackup(file, TRUE)
              /\ OuterRoot < outer
              /\ outer <= HiddenRoot(outer) /\ HiddenRoot(outer) < outer + hidden
              /\ outer <= HiddenAllocation(outer, hidden)
              /\ HiddenAllocation(outer, hidden) < outer + hidden
  <1> DEFINE total == SlotsFor(size, TRUE)
             hidden == HiddenSlots(hiddenSize)
  <1>1. total \in Int /\ total * SlotSize <= size - (DataAreaOffset + 1024)
    BY Numbers DEF SlotsFor, TailSize
  <1>2. hidden \in Nat /\ hidden >= 2 /\ HiddenSlots(hiddenSize) = hidden
    BY DEF HiddenSlots
  <1>3. OuterSlots(size, hiddenSize) = total - hidden /\ total - hidden >= 2
    BY DEF Accepts, OuterSlots
  <1> HIDE DEF total, hidden
  <1> QED
    BY <1>1, <1>2, <1>3, Numbers
    DEF FileSize, TailSize, SlotOffset, CreatedBackup, OuterRoot, HiddenRoot, HiddenAllocation

(* update_slot_counts finds the outer backup where create put it, for every  *)
(* size: a wrong guess would overwrite the hidden volume's header.           *)
THEOREM BackupIsInferred ==
    ASSUME NEW slots \in Nat, NEW withHidden \in BOOLEAN
    PROVE  InferredBackup(FileSize(slots, withHidden))
             = CreatedBackup(FileSize(slots, withHidden), withHidden)
  <1>1. FileSize(slots, withHidden) - DataAreaOffset = slots * SlotSize + TailSize(withHidden)
    BY Numbers DEF FileSize, TailSize
  <1>2. (slots * 32768 + 1024) % 32768 = 1024 /\ (slots * 32768 + 512) % 32768 = 512
    OBVIOUS
  <1> QED
    BY <1>1, <1>2 DEF InferredBackup, CreatedBackup, TailSize

(* A hidden volume's allocation slot and root block are two slots from three *)
(* slots on; with the two that create allows they are one, and the second of *)
(* its two writes takes the place of the first.                              *)
THEOREM RootIsNotAllocation ==
    ASSUME NEW start \in Nat, NEW slots \in Nat
    PROVE  HiddenRoot(start) # HiddenAllocation(start, slots) <=> slots # 2
  BY DEF HiddenRoot, HiddenAllocation

(* Which header encode_header_with_password makes: one that decodes for      *)
(* XChaCha20 only; for the cascade the copy into the buffer panics.          *)
THEOREM HiddenHeaderFits ==
    /\ HiddenShape("xchacha20") = "hidden"
    /\ HiddenShape("deoxys") = "hidden short" /\ HiddenShape("serpent") = "hidden short"
    /\ HiddenShape("triple") = "hidden long"
  <1>1. BodyAvailable = 444 /\ \A cipher \in Ciphers : EncodedBody(cipher) = 444
    BY DEF Ciphers, Overhead, EncodedBody, BodyLength, BodyAvailable
  <1>2. /\ HiddenEncodedBody("xchacha20") = 444
        /\ HiddenEncodedBody("deoxys") = 435 /\ HiddenEncodedBody("serpent") = 436
        /\ HiddenEncodedBody("triple") = 507
    BY DEF HiddenEncodedBody, Overhead
  <1> QED
    BY <1>1, <1>2 DEF HiddenShape, Ciphers

(* The allocation slot holds the bitmap of 260 840 slots with every cipher,  *)
(* and that of 261 417 with none: create of a larger volume fails in         *)
(* save_free_list, when all the rest is written.                             *)
THEOREM LargestVolume ==
    ASSUME NEW slots \in Nat, NEW cipher \in Ciphers
    PROVE  /\ slots <= 260840 => AllocationSize(slots, cipher) <= SlotSize
           /\ slots > 261416 => AllocationSize(slots, cipher) > SlotSize
  BY DEF Ciphers, Overhead, AllocationSize

=============================================================================
