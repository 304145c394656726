------------------------------ MODULE SlotStore ------------------------------
(***************************************************************************)
(* One volume of a Venom container as vnmcore/src/storage/slot_store.rs    *)
(* keeps it, driven through VnmContainer (vnmcore/src/fs/container.rs:     *)
(* open, Node I/O, flush) by the directory operations of                   *)
(* vnmcore/src/fs/fuse.rs, with the anti-rollback baseline of              *)
(* vnmcore/src/rollback.rs.                                                *)
(*                                                                         *)
(* Every action makes at most one write to the container file, so a crash  *)
(* can fall between any two writes.  Cryptography is ideal: a node decrypts*)
(* only where and as it was written, no two encryptions leave the same     *)
(* bytes (a fresh nonce each), and a BLAKE3 Merkle root is equal to another*)
(* only if both cover the same slots with the same bytes.                  *)
(***************************************************************************)
EXTENDS Integers, Sequences, FiniteSets, Functions

CONSTANTS
    DataSlots,      \* slot_start..slot_limit-1 without the allocation slot
    RootSlot,       \* slot of the root directory block
    Faults,         \* which of FaultKinds the environment may inflict
    MaxVersion,     \* bound: writes to one slot
    MaxGeneration,  \* bound: value of the generation counter
    MaxSaves,       \* bound: allocation blocks written
    MaxCopies       \* bound: copies of the file kept elsewhere

(* "io": a read-modify step of the host fails; "media": bytes of the closed *)
(* file change; "restore": the file is replaced with an older copy of it;   *)
(* "reset": the user drops the rollback baseline.                           *)
FaultKinds == {"crash", "io", "media", "restore", "reset"}

ASSUME SlotsAssumption ==
    /\ DataSlots \subseteq Nat
    /\ IsFiniteSet(DataSlots)
    /\ RootSlot \in DataSlots
ASSUME FaultsAssumption == Faults \subseteq FaultKinds
ASSUME BoundsAssumption ==
    {MaxVersion, MaxGeneration, MaxSaves, MaxCopies} \subseteq Nat

VARIABLES
    (* The container file, seen by every later open. *)
    disk,           \* slot -> Content
    allocBlock,     \* the allocation slot: [readable, generation, merkleRoot, bitmap]
    (* The state file ~/.config/venom/rollback.json, this container's entry. *)
    baseline,
    (* The SlotStore of the open VnmContainer. *)
    session,        \* "closed", "open", or "flushing": between two steps of flush
    free,           \* Mutex<Vec<u64>>, kept in descending order
    generation,
    cachedMerkleRoot,
    merkleDirty,
    pending,        \* slots a filesystem operation holds that no directory names
    copies,         \* copies of the closed container file kept elsewhere
    (* History carried by the file and by its copies: the used slots and     *)
    (* their contents at the last save, the serial numbers of all the saves  *)
    (* the file has gone through, and whether every open so far found        *)
    (* exactly what a save had described.                                    *)
    snapshot,
    lineage,
    trusted,
    (* History: number of saves, and the file's lineage at the last flush    *)
    (* that completed.                                                       *)
    saves,
    flushed

fileVars    == <<disk, allocBlock, snapshot, lineage, trusted>>
sessionVars == <<session, free, generation, cachedMerkleRoot, merkleDirty, pending>>
historyVars == <<saves, flushed>>
vars        == <<fileVars, baseline, sessionVars, copies, historyVars>>

-----------------------------------------------------------------------------
(* Slot contents.  `ver' tells one write of a slot from another: the bytes   *)
(* are never the same twice.  Only a directory block names other slots.      *)

Content == [ver : Nat, kind : {"noise", "dir", "file"}, refs : SUBSET DataSlots]

(* Mutated form of Rewritten: a fixed nonce. *)
RewrittenSameNonce(s, kind, refs) == [ver |-> disk[s].ver, kind |-> kind, refs |-> refs]

Rewritten(s, kind, refs) == [ver |-> disk[s].ver + 1, kind |-> kind, refs |-> refs]

(* The directory tree is one level deep: the slots the root block names. *)
References == disk[RootSlot].refs

(* What compute_merkle_root can tell apart; [0; 32] for no used slot. *)
IsMerkleRoot(r) == DOMAIN r \subseteq DataSlots /\ r \in [DOMAIN r -> Content]

ZeroRoot == <<>>

MerkleRootOf(used) == [s \in used |-> disk[s]]

UsedSlots(freeSet) == DataSlots \ freeSet

(* Mutated form of AllocBlock: the bitmap starts one slot too early. *)
AllocBlockOneEarly(g, root, freeSet) ==
    [readable |-> TRUE, generation |-> g, merkleRoot |-> root,
     bitmap |-> freeSet \union {0}]

AllocBlock(g, root, freeSet) ==
    [readable |-> TRUE, generation |-> g, merkleRoot |-> root, bitmap |-> freeSet]

IsAllocBlock(b) ==
    /\ b = [readable |-> b.readable, generation |-> b.generation,
            merkleRoot |-> b.merkleRoot, bitmap |-> b.bitmap]
    /\ b.readable \in BOOLEAN
    /\ b.generation \in Nat
    /\ IsMerkleRoot(b.merkleRoot)
    /\ b.bitmap \in SUBSET DataSlots

(* HashMap::get(container_id) = None; generations start at 1, so every      *)
(* generation an allocation block can hold passes the check against it.     *)
NoBaseline == 0

-----------------------------------------------------------------------------
(* The free list.                                                            *)

Descending(q) == \A i, j \in DOMAIN q : i < j => q[i] > q[j]

(* sort_unstable_by(|a, b| b.cmp(a)) of a set of distinct slots. *)
SortedDescending(S) ==
    {q \in [1..Cardinality(S) -> S] : Descending(q) /\ Range(q) = S}

(* partition_point(|&s| s > slot): the length of the prefix above slot. *)
IsPartitionPoint(q, slot, p) ==
    /\ p \in 0..Len(q)
    /\ \A i \in 1..p : q[i] > slot
    /\ \A i \in (p + 1)..Len(q) : q[i] <= slot

InsertAfter(q, p, slot) == SubSeq(q, 1, p) \o <<slot>> \o SubSeq(q, p + 1, Len(q))

-----------------------------------------------------------------------------
FileImage == [disk |-> disk, allocBlock |-> allocBlock, snapshot |-> snapshot,
              lineage |-> lineage, trusted |-> trusted]

IsFileImage(b) ==
    /\ b = [disk |-> b.disk, allocBlock |-> b.allocBlock, snapshot |-> b.snapshot,
            lineage |-> b.lineage, trusted |-> b.trusted]
    /\ b.disk \in [DataSlots -> Content]
    /\ IsAllocBlock(b.allocBlock)
    /\ IsMerkleRoot(b.snapshot)
    /\ b.lineage \subseteq Nat
    /\ b.trusted \in BOOLEAN

FileTypeOK ==
    /\ disk \in [DataSlots -> Content]
    /\ IsAllocBlock(allocBlock)
    /\ IsMerkleRoot(snapshot)
    /\ lineage \subseteq Nat
    /\ trusted \in BOOLEAN

SessionTypeOK ==
    /\ session \in {"closed", "open", "flushing"}
    /\ free \in Seq(DataSlots)
    /\ generation \in Nat
    /\ IsMerkleRoot(cachedMerkleRoot)
    /\ merkleDirty \in BOOLEAN
    /\ pending \in SUBSET DataSlots

OutsideTypeOK ==
    /\ baseline \in Nat
    /\ \A c \in copies : IsFileImage(c)
    /\ saves \in Nat
    /\ flushed \subseteq Nat

TypeOK == FileTypeOK /\ SessionTypeOK /\ OutsideTypeOK

(* VnmContainer::create, seen from its end: the empty root block and the     *)
(* allocation block are on disk with generation 1 and no Merkle root, the    *)
(* baseline is 1, and the handle it returned has been dropped.               *)
Init ==
    /\ disk = [s \in DataSlots |->
                  [ver |-> 0, refs |-> {},
                   kind |-> IF s = RootSlot THEN "dir" ELSE "noise"]]
    /\ allocBlock = AllocBlock(1, ZeroRoot, DataSlots \ {RootSlot})
    /\ baseline = 1
    /\ session = "closed"
    /\ free = <<>>
    /\ generation = 0
    /\ cachedMerkleRoot = ZeroRoot
    /\ merkleDirty = FALSE
    /\ pending = {}
    /\ snapshot = MerkleRootOf({RootSlot})
    /\ lineage = {1}
    /\ trusted = TRUE
    /\ saves = 1
    /\ flushed = {1}
    /\ copies = {}

-----------------------------------------------------------------------------
(* Writing slots.                                                            *)

(* Mutated form of Store: merkle_dirty is not set. *)
StoreKeepsFlag(s, content) ==
    /\ disk[s].ver < MaxVersion
    /\ disk' = [disk EXCEPT ![s] = content]
    /\ UNCHANGED merkleDirty

Store(s, content) ==
    /\ disk[s].ver < MaxVersion
    /\ disk' = [disk EXCEPT ![s] = content]
    /\ merkleDirty' = TRUE

(* Mutated form of Alloc: last() in place of pop(). *)
AllocPeeks(s) ==
    /\ free # <<>>
    /\ s = free[Len(free)]
    /\ UNCHANGED free

(* SlotStore::alloc pops the end of the list: the lowest free slot. *)
Alloc(s) ==
    /\ free # <<>>
    /\ s = free[Len(free)]
    /\ free' = SubSeq(free, 1, Len(free) - 1)

(* The Err exit of a slot write: `?' leaves before merkle_dirty is set, and  *)
(* the slot holds its old bytes or a torn mixture that decrypts to nothing.  *)
StoreFails(s) ==
    /\ "io" \in Faults
    /\ \/ disk' = disk
       \/ /\ disk[s].ver < MaxVersion
          /\ disk' = [disk EXCEPT ![s] = Rewritten(s, "noise", {})]
    /\ UNCHANGED merkleDirty

(* VnmContainer::write_node, for a file or an empty directory. *)
WriteNode ==
    /\ session = "open"
    /\ \E s \in DataSlots :
          /\ Alloc(s)
          /\ Store(s, Rewritten(s, "file", {}))
          /\ pending' = pending \union {s}
    /\ UNCHANGED <<allocBlock, baseline, session, generation, cachedMerkleRoot,
                   copies, snapshot, lineage, trusted, historyVars>>

(* write_node returning Err after alloc: nobody keeps the slot number. *)
WriteNodeFails ==
    /\ session = "open"
    /\ \E s \in DataSlots : Alloc(s) /\ StoreFails(s)
    /\ UNCHANGED <<allocBlock, baseline, session, generation, cachedMerkleRoot,
                   pending, copies, snapshot, lineage, trusted,
                   historyVars>>

(* VnmContainer::update_node on a file the caller can name. *)
UpdateNode ==
    /\ session = "open"
    /\ \E s \in References \union pending :
          Store(s, Rewritten(s, "file", {})) \/ StoreFails(s)
    /\ UNCHANGED <<allocBlock, baseline, session, free, generation,
                   cachedMerkleRoot, pending, copies, snapshot, lineage, trusted,
                   historyVars>>

(* dir_add_entry: read the block, push the entry, write the block back.  The *)
(* entry of the slot is what keeps it from now on.                           *)
AddEntry ==
    /\ session = "open"
    /\ disk[RootSlot].kind = "dir"
    /\ \E s \in pending :
          /\ Store(RootSlot, Rewritten(RootSlot, "dir", References \union {s}))
          /\ pending' = pending \ {s}
    /\ UNCHANGED <<allocBlock, baseline, session, free, generation,
                   cachedMerkleRoot, copies, snapshot, lineage, trusted, historyVars>>

(* Mutated form of RemoveEntry: the block is written back as it was read. *)
RemoveEntryKeepsName ==
    /\ session = "open"
    /\ disk[RootSlot].kind = "dir"
    /\ \E s \in References :
          /\ Store(RootSlot, Rewritten(RootSlot, "dir", References))
          /\ pending' = pending \union {s}
    /\ UNCHANGED <<allocBlock, baseline, session, free, generation,
                   cachedMerkleRoot, copies, snapshot, lineage, trusted, historyVars>>

(* dir_remove_entry: the caller frees the slot it returns. *)
RemoveEntry ==
    /\ session = "open"
    /\ disk[RootSlot].kind = "dir"
    /\ \E s \in References :
          /\ Store(RootSlot, Rewritten(RootSlot, "dir", References \ {s}))
          /\ pending' = pending \union {s}
    /\ UNCHANGED <<allocBlock, baseline, session, free, generation,
                   cachedMerkleRoot, copies, snapshot, lineage, trusted, historyVars>>

(* free_node: wipe with random bytes, an error of which is dropped, then     *)
(* insert into the sorted list; nothing checks that the slot is not there.   *)
FreeNode ==
    /\ session = "open"
    /\ \E s \in pending :
          /\ Store(s, Rewritten(s, "noise", {})) \/ StoreFails(s)
          /\ pending' = pending \ {s}
          /\ \E p \in 0..Len(free) :
                /\ IsPartitionPoint(free, s, p)
                /\ free' = InsertAfter(free, p, s)
    /\ UNCHANGED <<allocBlock, baseline, session, generation, cachedMerkleRoot,
                   copies, snapshot, lineage, trusted, historyVars>>

(* dir_add_entry or dir_remove_entry returning Err from update_node; the     *)
(* slot stays with the caller, or with the entry that is still there.        *)
WriteEntryFails ==
    /\ session = "open"
    /\ disk[RootSlot].kind = "dir"
    /\ StoreFails(RootSlot)
    /\ UNCHANGED <<allocBlock, baseline, session, free, generation, cachedMerkleRoot,
                   pending, copies, snapshot, lineage, trusted, historyVars>>

-----------------------------------------------------------------------------
(* VnmContainer::flush.                                                      *)

(* Mutated form of FreshMerkleRoot: the root is never recomputed. *)
StaleMerkleRoot == cachedMerkleRoot

(* `if is_merkle_dirty() { update_merkle_root()? }' *)
FreshMerkleRoot ==
    IF merkleDirty THEN MerkleRootOf(UsedSlots(Range(free))) ELSE cachedMerkleRoot

(* save_free_list: bump the counter, write counter, root and bitmap to the   *)
(* allocation slot.  That write too goes through SlotStore::write, so the    *)
(* dirty flag is up again afterwards.                                        *)
FlushSave ==
    /\ session = "open"
    /\ generation < MaxGeneration /\ saves < MaxSaves
    /\ cachedMerkleRoot' = FreshMerkleRoot
    /\ generation' = generation + 1
    /\ allocBlock' = AllocBlock(generation + 1, FreshMerkleRoot, Range(free))
    /\ merkleDirty' = TRUE
    /\ snapshot' = MerkleRootOf(UsedSlots(Range(free)))
    /\ saves' = saves + 1
    /\ lineage' = lineage \union {saves + 1}
    /\ session' = "flushing"
    /\ UNCHANGED <<disk, baseline, free, pending, copies, trusted, flushed>>

(* The write of the allocation slot fails: the counter has moved, the flag   *)
(* was cleared by update_merkle_root, flush returns Err.                     *)
FlushSaveFails ==
    /\ "io" \in Faults
    /\ session = "open"
    /\ generation < MaxGeneration
    /\ cachedMerkleRoot' = FreshMerkleRoot
    /\ generation' = generation + 1
    /\ merkleDirty' = FALSE
    /\ \E torn \in BOOLEAN :
          allocBlock' = IF torn THEN [allocBlock EXCEPT !.readable = FALSE]
                                ELSE allocBlock
    /\ UNCHANGED <<disk, baseline, session, free, pending, copies, snapshot,
                   lineage, trusted, historyVars>>

InMemoryStateLost ==
    /\ session' = "closed"
    /\ free' = <<>>
    /\ generation' = 0
    /\ cachedMerkleRoot' = ZeroRoot
    /\ merkleDirty' = FALSE
    /\ pending' = {}

(* flush_file and RollbackState::update.  The caller goes on using the       *)
(* container, or it was Drop for VenomFuse, which no operation is inside of, *)
(* and the container goes away.                                              *)
FlushBaseline ==
    /\ session = "flushing"
    /\ baseline' = generation
    /\ flushed' = lineage
    /\ \/ /\ session' = "open"
          /\ UNCHANGED <<free, generation, cachedMerkleRoot, merkleDirty, pending>>
       \/ /\ pending = {}
          /\ InMemoryStateLost
    /\ UNCHANGED <<fileVars, copies, saves>>

(* The state file cannot be written: flush returns Err, the baseline stays. *)
FlushBaselineFails ==
    /\ "io" \in Faults
    /\ session = "flushing"
    /\ session' = "open"
    /\ UNCHANGED <<fileVars, baseline, free, generation, cachedMerkleRoot,
                   merkleDirty, pending, copies, historyVars>>

(* The process dies, or drops the container without a flush. *)
Crash ==
    /\ "crash" \in Faults
    /\ session # "closed"
    /\ InMemoryStateLost
    /\ UNCHANGED <<fileVars, baseline, copies, historyVars>>

-----------------------------------------------------------------------------
(* VnmContainer::open, from load_free_list on.                               *)

(* What the closed file describes is exactly what its last save described. *)
FileAsSaved ==
    /\ allocBlock.readable
    /\ \A s \in DOMAIN snapshot : disk[s] = snapshot[s]

(* An unreadable allocation block sends load_free_list to rebuild_free_list, *)
(* which leaves the counter at 0 and verifies nothing.                       *)
LoadedGeneration == IF allocBlock.readable THEN allocBlock.generation ELSE 0
LoadedRoot       == IF allocBlock.readable THEN allocBlock.merkleRoot ELSE ZeroRoot
LoadedFree       == IF allocBlock.readable THEN allocBlock.bitmap ELSE DataSlots

(* Mutated forms of LoadOutcome: no verification, and a baseline compared    *)
(* one generation too leniently.                                             *)
LoadUnverified == IF LoadedGeneration < baseline THEN "RollbackDetected" ELSE "ok"

LoadLenient ==
    IF LoadedRoot # ZeroRoot /\ LoadedRoot # MerkleRootOf(UsedSlots(LoadedFree))
    THEN "MerkleIntegrityFailure"
    ELSE IF LoadedGeneration + 1 < baseline THEN "RollbackDetected" ELSE "ok"

(* A zero root means "not computed yet": verification is skipped. *)
LoadOutcome ==
    IF /\ LoadedRoot # ZeroRoot
       /\ LoadedRoot # MerkleRootOf(UsedSlots(LoadedFree))
    THEN "MerkleIntegrityFailure"
    ELSE IF LoadedGeneration < baseline THEN "RollbackDetected" ELSE "ok"

Open ==
    /\ session = "closed"
    /\ LoadOutcome = "ok"
    /\ session' = "open"
    /\ free' \in SortedDescending(LoadedFree)
    /\ generation' = LoadedGeneration
    /\ cachedMerkleRoot' = LoadedRoot
    /\ merkleDirty' = FALSE
    /\ pending' = {}
    /\ trusted' = (trusted /\ FileAsSaved)
    /\ UNCHANGED <<disk, allocBlock, baseline, copies, snapshot, lineage, historyVars>>

(* open returns MerkleIntegrityFailure or RollbackDetected and changes nothing. *)
OpenRefused ==
    /\ session = "closed"
    /\ LoadOutcome # "ok"
    /\ UNCHANGED vars

(* VnmContainer::reset_rollback_state on an open container; or, closed, the  *)
(* state file is deleted or the container is carried to another machine.     *)
ResetBaseline ==
    /\ "reset" \in Faults
    /\ session # "flushing"
    /\ baseline' = NoBaseline
    /\ UNCHANGED <<fileVars, sessionVars, copies, historyVars>>

-----------------------------------------------------------------------------
(* What happens to the file while no process has it open.                    *)

MediaFault ==
    /\ "media" \in Faults
    /\ session = "closed"
    /\ \/ /\ allocBlock.readable
          /\ allocBlock' = [allocBlock EXCEPT !.readable = FALSE]
          /\ UNCHANGED disk
       \/ /\ \E s \in DataSlots :
                /\ disk[s].ver < MaxVersion
                /\ disk' = [disk EXCEPT ![s] = Rewritten(s, "noise", {})]
          /\ UNCHANGED allocBlock
    /\ UNCHANGED <<baseline, sessionVars, copies, snapshot, lineage,
                   trusted, historyVars>>

TakeBackup ==
    /\ "restore" \in Faults
    /\ session = "closed"
    /\ Cardinality(copies) < MaxCopies
    /\ copies' = copies \union {FileImage}
    /\ UNCHANGED <<fileVars, baseline, sessionVars, historyVars>>

RestoreBackup ==
    /\ "restore" \in Faults
    /\ session = "closed"
    /\ \E c \in copies \ {FileImage} :
          /\ disk' = c.disk
          /\ allocBlock' = c.allocBlock
          /\ snapshot' = c.snapshot
          /\ lineage' = c.lineage
          /\ trusted' = c.trusted
    /\ UNCHANGED <<baseline, sessionVars, copies, historyVars>>

-----------------------------------------------------------------------------
NodeIO == \/ WriteNode \/ WriteNodeFails \/ UpdateNode
          \/ AddEntry \/ RemoveEntry \/ WriteEntryFails \/ FreeNode
Flush  == FlushSave \/ FlushSaveFails \/ FlushBaseline \/ FlushBaselineFails
Host   == Crash \/ MediaFault \/ TakeBackup \/ RestoreBackup

Next == NodeIO \/ Flush \/ Open \/ OpenRefused \/ ResetBaseline \/ Host

Spec == Init /\ [][Next]_vars

-----------------------------------------------------------------------------
(***************************************************************************)
(* Properties.                                                             *)
(***************************************************************************)

(* The slots the open volume must not hand out. *)
InUse == {RootSlot} \union References \union pending

(* A slot that a directory names, or that an operation under way holds, is   *)
(* never on the free list, and no slot is on it twice: alloc cannot give one *)
(* slot to two owners.  Holds as long as each open found what a save had     *)
(* described (alloc, free_slot, load_free_list, save_free_list).             *)
NoSlotHasTwoOwners ==
    trusted /\ session # "closed" =>
        /\ Range(free) \intersect InUse = {}
        /\ Descending(free)

(* Without failures no slot is lost either: each is free, named by a         *)
(* directory, or in the hands of an operation, across any number of closes   *)
(* and reopens (alloc, free_slot and the bitmap of save_free_list agree).    *)
NoSlotIsLost ==
    Faults \intersect {"crash", "io", "media"} = {} /\ session # "closed" =>
        Range(free) \union InUse = DataSlots

(* Once a Merkle root is stored, an open that succeeds shows exactly the     *)
(* used slots and contents of the file's last save, whatever crash, failed   *)
(* write or change of the closed file came in between (update_merkle_root,   *)
(* save_free_list, load_free_list).                                          *)
AcceptedAsSaved ==
    session = "closed" /\ LoadOutcome = "ok" /\ LoadedRoot # ZeroRoot => FileAsSaved

(* The other direction: a file that is as its last save left it, and that    *)
(* went through the last flush that completed, opens.  In particular a crash *)
(* between save_free_list and RollbackState::update never locks the owner    *)
(* out, nor does a root that was not recomputed because merkle_dirty was     *)
(* down.                                                                     *)
NoFalseAlarm ==
    session = "closed" /\ FileAsSaved /\ flushed \subseteq lineage
        => LoadOutcome = "ok"

(* While a baseline exists, a copy that the last completed flush descends    *)
(* from is not opened again, whatever crashes, resets and restores came      *)
(* between (generation counter, RollbackState::check and update).            *)
OlderCopyRefused ==
    /\ session = "closed"
    /\ lineage \subseteq flushed /\ lineage # flushed
    /\ baseline # NoBaseline
    => LoadOutcome # "ok"

(* What the volume promises: its view is the contents of the slots in use.   *)
Volume == INSTANCE VolumePromise WITH
    Slots   <- DataSlots,
    mounted <- session # "closed",
    view    <- IF session = "closed" THEN <<>>
               ELSE MerkleRootOf(UsedSlots(Range(free))),
    durable <- snapshot,
    changed <- merkleDirty,
    sealed  <- LoadedRoot # ZeroRoot

(* Every behaviour of the slot store, with crashes and damage to the closed  *)
(* file, is one the promise allows (alloc, free_slot, write, save_free_list, *)
(* load_free_list).                                                          *)
KeepsVolumePromise == Volume!Spec

-----------------------------------------------------------------------------
(* What the properties rest on: strengthenings that every step preserves.    *)

(* The closed file and its copies all describe a tree whose slots are used.  *)
TreeSaved(image) ==
    image.trusted =>
        /\ RootSlot \in DOMAIN image.snapshot
        /\ image.snapshot[RootSlot].refs \subseteq DOMAIN image.snapshot \ {RootSlot}
        /\ image.allocBlock.readable =>
              DOMAIN image.snapshot = UsedSlots(image.allocBlock.bitmap)

OneOwnerEach ==
    /\ Descending(free)
    /\ Range(free) \intersect InUse = {}
    /\ pending \intersect References = {}
    /\ RootSlot \notin pending \union References

(* Free slots, named slots and slots in hand exclude each other, in memory   *)
(* and in what a later open will load (alloc, free_slot, load_free_list).    *)
OwnersDisjoint ==
    /\ \A image \in {FileImage} \union copies : TreeSaved(image)
    /\ trusted /\ session # "closed" => OneOwnerEach

(* Where both cover a slot, later is later than earlier or the same as it. *)
NotAhead(earlier, later) ==
    \A s \in DOMAIN earlier \intersect DOMAIN later :
        earlier[s] = later[s] \/ earlier[s].ver < later[s].ver

InOrder(image) ==
    /\ NotAhead(image.snapshot, image.disk)
    /\ image.allocBlock.readable =>
          /\ DOMAIN image.snapshot = UsedSlots(image.allocBlock.bitmap)
          /\ NotAhead(image.allocBlock.merkleRoot, image.snapshot)

(* A Merkle root, current or stale, is never ahead of the save it goes into, *)
(* nor that save of the slots it covers (update_merkle_root, save_free_list).*)
RootsNotAhead ==
    /\ \A image \in {FileImage} \union copies : InOrder(image)
    /\ session # "closed" => NotAhead(cachedMerkleRoot, disk)

-----------------------------------------------------------------------------
(* What the documentation says of these situations.                         *)

(* SECURITY.md:124, 126 and FORMAT.md:742, 752: a crash loses the unfinished *)
(* file and leaves orphaned slots.  So after it the volume still opens.      *)
CrashLeavesVolumeReadable ==
    session = "closed" => LoadOutcome # "MerkleIntegrityFailure"

(* The same lines: what a crash leaves behind is orphaned, that is used and  *)
(* named by nobody, never the opposite.                                      *)
CrashLeavesOnlyOrphans ==
    session # "closed" => Range(free) \intersect References = {}

(* README.md:15: at mount time any modified or removed slot is detected.     *)
(* Asked of a file whose root was stored once, as FORMAT.md 7.6 allows.      *)
DamageDetected ==
    session = "closed" /\ allocBlock.merkleRoot # ZeroRoot /\ LoadOutcome = "ok"
        => FileAsSaved

(* README.md:23: replacement of the container with an older copy is detected,*)
(* that is with any copy other than one the last completed flush went into.  *)
RestoreDetected ==
    /\ session = "closed"
    /\ ~(flushed \subseteq lineage)
    /\ baseline # NoBaseline
    => LoadOutcome # "ok"

=============================================================================
