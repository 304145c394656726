----------------------------- MODULE FuseNames -----------------------------
(***************************************************************************)
(* Names, inode numbers and slots under vnmcore/src/fs/fuse.rs: lookup,    *)
(* readdir, mkdir, rmdir, create, unlink, rename, open, release and        *)
(* unmount, with the InodeMap and the table of open files.                 *)
(*                                                                         *)
(* FUSE requests reach VenomFuse one at a time, so a request is one action.*)
(* The kernel has checked a request against its own view before sending it *)
(* (a created name is absent, unlink is of a file and rmdir of a directory,*)
(* rename is neither onto another kind nor into the directory moved); what *)
(* it leaves to the filesystem, such as whether a directory is empty, it   *)
(* does not check.  Of a name whose slot was freed under it it may hold for*)
(* a while (TTL) what an earlier lookup said, whatever the slot is now.    *)
(*                                                                         *)
(* Of a file's data only the slots count: an open file gains slots when    *)
(* chunks are written through, and its head names them after a flush.  The *)
(* bytes, the index chain and two handles of one file are FuseFile's.      *)
(***************************************************************************)
EXTENDS Integers, FiniteSets, FiniteSetsExt, Functions
LOCAL INSTANCE TLC

CONSTANTS
    Slots,          \* slots of the volume, the root directory's among them
    Root,           \* OUTER_ROOT_SLOT
    Names,
    Handles,        \* file handles the kernel may hold at once
    Requests,       \* which of RequestKinds there may be
    MaxEntries,     \* entries that fit in the one slot of a directory at most
    MaxInodes       \* bound: inode numbers given out in one mount

(* "unlink open": of a file with a handle.  Renames: "over file" onto a file *)
(* without data or handle, "over data" onto one whose head names slots,      *)
(* "over open" onto one with a handle, "over tree" onto a directory with     *)
(* entries, "no room" with a destination that update_node does not write.    *)
RequestKinds == {"unlink open", "over file", "over data", "over open", "over tree", "no room"}

ASSUME SlotsAssumption == Slots \subseteq Nat /\ IsFiniteSet(Slots) /\ Root \in Slots
ASSUME RequestsAssumption == Requests \subseteq RequestKinds
ASSUME BoundsAssumption == MaxEntries \in Nat /\ MaxInodes \in Nat \ {0}

VARIABLES
    nodes,      \* slot -> VaultNode
    free,       \* slot -> times on the free list
    inodes,     \* InodeMap: inode number -> slot
    nextIno,
    files,      \* open_files: handle -> [head, slots, dirty]
    failed,     \* the last request was answered with an error
    lost,       \* history: a rename has lost what it moved, or a subtree
    dangling    \* history: slots a rename has freed and failed to take the name from

vars == <<nodes, free, inodes, nextIno, files, failed, lost, dangling>>

RootIno == 1

Noise == [kind |-> "noise"]
Directory(entries) == [kind |-> "directory", entries |-> entries]
FileBlock(slots) == [kind |-> "file", slots |-> slots]
FileDataBlock == [kind |-> "data"]

IsDirectory(s) == nodes[s].kind = "directory"
IsFile(s) == nodes[s].kind = "file"

(* What a directory names. *)
Listing(d) == nodes[d].entries

Dirs == [s \in {t \in Slots : IsDirectory(t)} |-> Listing(s)]
Files == {s \in Slots : IsFile(s)}

Tree == INSTANCE NameTree WITH Ids <- Slots, dirs <- Dirs, plain <- Files

-----------------------------------------------------------------------------
(* The volume and the inode map.                                             *)

HasSpace == \E s \in Slots : free[s] > 0
NextFree == Min({s \in Slots : free[s] > 0})
Taken(s) == [free EXCEPT ![s] = @ - 1]
FreedAll(ss) == [s \in Slots |-> IF s \in ss THEN free[s] + 1 ELSE free[s]]

(* Mutated form of Wiped: the wipe fails, and free_slot drops its error. *)
NotWiped(nds, ss) == nds

Wiped(nds, ss) == [s \in Slots |-> IF s \in ss THEN Noise ELSE nds[s]]

(* update_node of a directory fails when its block outgrows the slot: with   *)
(* MaxEntries entries for sure, with fewer when names or slot numbers are    *)
(* long, and then also when one entry is taken out for another.              *)
IsFull(d) == Cardinality(DOMAIN Listing(d)) >= MaxEntries

(* get_or_alloc *)
InodeGiven(slot) ==
    \/ /\ slot \in Range(inodes)
       /\ UNCHANGED <<inodes, nextIno>>
    \/ /\ slot \notin Range(inodes)
       /\ nextIno <= MaxInodes
       /\ inodes' = Tree!With(inodes, nextIno, slot)
       /\ nextIno' = nextIno + 1

(* remove_slot *)
InodeRemoved(slot) == Restrict(inodes, {ino \in DOMAIN inodes : inodes[ino] # slot})

IsOpen(head) == \E h \in DOMAIN files : files[h].head = head

(* The directories the kernel can address. *)
Parents == {s \in Range(inodes) : IsDirectory(s)}

Refused == failed' = TRUE /\ UNCHANGED <<nodes, free, inodes, nextIno, files>>

Init ==
    /\ nodes = [s \in Slots |-> IF s = Root THEN Directory(<<>>) ELSE Noise]
    /\ free = [s \in Slots |-> IF s = Root THEN 0 ELSE 1]
    /\ inodes = [ino \in {RootIno} |-> Root]
    /\ nextIno = RootIno + 1
    /\ files = <<>>
    /\ failed = FALSE
    /\ lost = FALSE
    /\ dangling = {}

-----------------------------------------------------------------------------
(* op_lookup reads what the name leads to; readdir, which gives every entry  *)
(* an inode number too, does not.                                            *)
Lookup(d, name) ==
    /\ name \in DOMAIN Listing(d)
    /\ \/ /\ InodeGiven(Listing(d)[name])
          /\ failed' = FALSE
          /\ UNCHANGED <<nodes, free, files>>
       \/ nodes[Listing(d)[name]] = Noise /\ Refused

(* write_node *)
NodeWritten(node) == [nodes EXCEPT ![NextFree] = node]

(* write_node, then dir_add_entry, which finds no directory any more if the  *)
(* file was put into a slot that was free and d's as well.                   *)
Added(d, name, node) ==
    /\ name \notin DOMAIN Listing(d)
    /\ HasSpace /\ ~IsFull(d)
    /\ NextFree = d => node.kind = "directory"
    /\ nodes' = [NodeWritten(node) EXCEPT ![d].entries = Tree!With(@, name, NextFree)]
    /\ free' = Taken(NextFree)
    /\ InodeGiven(NextFree)
    /\ failed' = FALSE

(* Mutated form of NotAdded: the slot is not given back. *)
NotAddedSlotKept(d) ==
    \/ ~HasSpace /\ Refused
    \/ /\ HasSpace
       /\ nodes' = [nodes EXCEPT ![NextFree] = FileBlock({})]
       /\ free' = Taken(NextFree)
       /\ failed' = TRUE
       /\ UNCHANGED <<inodes, nextIno, files>>

(* Mutated form of NotAdded: the slot is given back twice. *)
NotAddedFreedTwice(d) ==
    \/ ~HasSpace /\ Refused
    \/ /\ HasSpace
       /\ free' = FreedAll({NextFree})
       /\ failed' = TRUE
       /\ UNCHANGED <<nodes, inodes, nextIno, files>>

(* No slot, or no room in the directory: then free_node gives the slot back. *)
NotAdded(d) ==
    \/ ~HasSpace /\ Refused
    \/ /\ HasSpace
       /\ nodes' = Wiped(nodes, {NextFree})
       /\ failed' = TRUE
       /\ UNCHANGED <<free, inodes, nextIno, files>>

Mkdir(d, name) ==
    \/ Added(d, name, Directory(<<>>)) /\ UNCHANGED files
    \/ name \notin DOMAIN Listing(d) /\ NotAdded(d)

Create(d, name) ==
    \/ /\ Added(d, name, FileBlock({}))
       /\ \E h \in Handles \ DOMAIN files :
             files' = Tree!With(files, h, [head |-> NextFree, slots |-> {}, dirty |-> FALSE])
    \/ name \notin DOMAIN Listing(d) /\ NotAdded(d)

(* Mutated form of MayRemove: ENOTEMPTY is forgotten. *)
MayRemoveAny(d) == TRUE

MayRemove(d) == Listing(d) = <<>>

(* Mutated form of DirectoryGone: no remove_slot. *)
DirectoryGoneInodeKept(slot) == inodes

DirectoryGone(slot) == InodeRemoved(slot)

Rmdir(d, name) ==
    /\ name \in DOMAIN Listing(d) /\ IsDirectory(Listing(d)[name])
    /\ LET removed == Listing(d)[name]
       IN \/ ~MayRemove(removed) /\ Refused
          \/ /\ MayRemove(removed)
             /\ nodes' = Wiped([nodes EXCEPT ![d].entries = Tree!Without(@, name)], {removed})
             /\ free' = FreedAll({removed})
             /\ inodes' = DirectoryGone(removed)
             /\ failed' = FALSE
             /\ UNCHANGED <<nextIno, files>>

(* Mutated form of Evicted: the handles stay. *)
EvictedNone(head) == files

(* open_files.retain *)
Evicted(head) == Restrict(files, {h \in DOMAIN files : files[h].head # head})

(* The slots the head names; none if there is no FileBlock to be read.  A    *)
(* slot of dangling that was given to the file twice counts once.            *)
DataOf(head) == IF IsFile(head) THEN nodes[head].slots ELSE {}
SlotsOfFile(head) == DataOf(head) \union {head}

(* op_unlink: handles, slots and inode number go, in this order. *)
Unlink(d, name) ==
    /\ name \in DOMAIN Listing(d)
    /\ LET removed == Listing(d)[name]
       IN /\ IsDirectory(removed) => removed \in dangling
          /\ IsOpen(removed) => "unlink open" \in Requests
          /\ nodes' = Wiped([nodes EXCEPT ![d].entries = Tree!Without(@, name)], SlotsOfFile(removed))
          /\ free' = FreedAll(SlotsOfFile(removed))
          /\ files' = Evicted(removed)
          /\ inodes' = InodeRemoved(removed)
    /\ failed' = FALSE
    /\ UNCHANGED nextIno

-----------------------------------------------------------------------------
(* op_rename.                                                                *)

KindOfTarget(old) ==
    IF IsDirectory(old)
    THEN IF Listing(old) = <<>> THEN "over file" ELSE "over tree"
    ELSE IF IsOpen(old) THEN "over open"
         ELSE IF DataOf(old) # {} THEN "over data" ELSE "over file"

(* s and the directories the kernel knows beneath it: all, until one may be  *)
(* reached through a name that it takes for something else.                  *)
KnownBeneath(s) == {s} \union IF dangling = {} THEN Tree!Beneath(s) ELSE {}

(* What the kernel has checked: it does nothing for two names of one inode,  *)
(* and knows no directory beneath itself.                                    *)
MayAsk(d, name, e, newname) ==
    LET moved == Listing(d)[name]
    IN /\ <<d, name>> # <<e, newname>>
       /\ IsDirectory(moved) => moved \in dangling \/ e \notin KnownBeneath(moved)
       /\ newname \in DOMAIN Listing(e) =>
             LET old == Listing(e)[newname]
             IN /\ {old, moved} \intersect dangling = {} =>
                       old # moved /\ IsDirectory(old) = IsDirectory(moved)
                /\ IsDirectory(old) =>
                       old \in dangling \/ {d, e} \intersect KnownBeneath(old) = {}
                /\ KindOfTarget(old) \in Requests

(* Mutated form of SourceWritten: the destination alone is written. *)
SourceNotWritten(d, name) == nodes

(* dir_remove_entry of the source. *)
SourceWritten(d, name) == [nodes EXCEPT ![d].entries = Tree!Without(@, name)]

(* What the destination names so far; removed, freed and wiped, one slot of  *)
(* it, before the destination is written.                                    *)
Replaced(e, newname) ==
    IF newname \in DOMAIN Listing(e) THEN {Listing(e)[newname]} ELSE {}

ReplacedFreed(e, newname) ==
    /\ free' = FreedAll(Replaced(e, newname))
    /\ inodes' = Restrict(inodes, {ino \in DOMAIN inodes : inodes[ino] \notin Replaced(e, newname)})

(* The source is written first; the destination is read after that, and      *)
(* written last, even if it is itself what was freed.                        *)
Renamed(d, name, e, newname) ==
    /\ nodes' = [Wiped(SourceWritten(d, name), Replaced(e, newname)) EXCEPT
                    ![e] = Directory(Tree!With(SourceWritten(d, name)[e].entries,
                                               newname, Listing(d)[name]))]
    /\ ReplacedFreed(e, newname)
    /\ failed' = FALSE
    /\ UNCHANGED dangling

(* update_node of the destination fails: EIO.  The name of what was moved is *)
(* gone, what was to be replaced is freed, and its name still there.         *)
NotRenamed(d, name, e, newname) ==
    /\ nodes' = Wiped(SourceWritten(d, name), Replaced(e, newname))
    /\ ReplacedFreed(e, newname)
    /\ failed' = TRUE
    /\ dangling' = dangling \union Replaced(e, newname)

(* read_node of what is moved fails: EIO, and its name is gone.              *)
NotRead(d, name) ==
    /\ nodes' = SourceWritten(d, name)
    /\ failed' = TRUE
    /\ UNCHANGED <<free, inodes, dangling>>

Rename(d, name, e, newname) ==
    /\ name \in DOMAIN Listing(d)
    /\ MayAsk(d, name, e, newname)
    /\ LET fits   == d = e \/ newname \in DOMAIN Listing(e) \/ ~IsFull(e)
           onTree == \E old \in Replaced(e, newname) : KindOfTarget(old) = "over tree"
       IN /\ \/ /\ nodes[Listing(d)[name]] # Noise
                /\ \/ fits /\ Renamed(d, name, e, newname)
                   \/ "no room" \in Requests /\ NotRenamed(d, name, e, newname)
             \/ nodes[Listing(d)[name]] = Noise /\ NotRead(d, name)
          /\ lost' = (lost \/ failed' \/ onTree)
    /\ UNCHANGED <<nextIno, files>>

-----------------------------------------------------------------------------
(* Handles.                                                                  *)

Open(h) ==
    /\ h \notin DOMAIN files
    /\ \E head \in Range(inodes) :
          /\ IsFile(head) /\ ~IsOpen(head)
          /\ files' = Tree!With(files, h, [head |-> head, slots |-> nodes[head].slots, dirty |-> FALSE])
    /\ failed' = FALSE
    /\ UNCHANGED <<nodes, free, inodes, nextIno>>

(* op_write that writes one new chunk through. *)
WriteThrough(h) ==
    \/ /\ HasSpace
       /\ nodes' = [nodes EXCEPT ![NextFree] = FileDataBlock]
       /\ free' = Taken(NextFree)
       /\ files' = [files EXCEPT ![h].slots = @ \union {NextFree}, ![h].dirty = TRUE]
       /\ failed' = FALSE
       /\ UNCHANGED <<inodes, nextIno>>
    \/ ~HasSpace /\ Refused

(* flush_fh: the head of every handle of hs is rewritten if its map changed. *)
Flushed(hs) ==
    [s \in Slots |->
        LET writers == {h \in hs : files[h].head = s /\ files[h].dirty}
        IN IF writers = {} THEN nodes[s] ELSE FileBlock(files[CHOOSE h \in writers : TRUE].slots)]

Flush(h) ==
    /\ nodes' = Flushed({h})
    /\ files' = [files EXCEPT ![h].dirty = FALSE]
    /\ failed' = FALSE
    /\ UNCHANGED <<free, inodes, nextIno>>

Release(h) ==
    /\ nodes' = Flushed({h})
    /\ files' = Restrict(files, DOMAIN files \ {h})
    /\ failed' = FALSE
    /\ UNCHANGED <<free, inodes, nextIno>>

(* Drop for VenomFuse, and the next mount: a new InodeMap, and a free list   *)
(* read from a bitmap.                                                       *)
Remount ==
    /\ nodes' = Flushed(DOMAIN files)
    /\ free' = [s \in Slots |-> Min({free[s], 1})]
    /\ inodes' = [ino \in {RootIno} |-> Root]
    /\ nextIno' = RootIno + 1
    /\ files' = <<>>
    /\ failed' = FALSE

Next ==
    \/ /\ \/ \E d \in Parents, name \in Names :
                \/ Lookup(d, name) \/ Mkdir(d, name) \/ Create(d, name)
                \/ Rmdir(d, name) \/ Unlink(d, name)
          \/ \E h \in Handles : Open(h)
          \/ \E h \in DOMAIN files : WriteThrough(h) \/ Flush(h) \/ Release(h)
          \/ Remount
       /\ UNCHANGED <<lost, dangling>>
    \/ \E d, e \in Parents, name, newname \in Names : Rename(d, name, e, newname)

Spec == Init /\ [][Next]_vars

(* For TLC: names are alike. *)
Symmetry == Permutations(Names)

-----------------------------------------------------------------------------
(***************************************************************************)
(* Properties.                                                             *)
(***************************************************************************)

IsNode(node) ==
    \/ node \in {Noise, FileDataBlock}
    \/ node.kind = "directory" /\ node = Directory(node.entries)
       /\ DOMAIN node.entries \subseteq Names /\ Range(node.entries) \subseteq Slots
    \/ node.kind = "file" /\ node = FileBlock(node.slots) /\ node.slots \subseteq Slots

OpenFile == [head : Slots, slots : SUBSET Slots, dirty : BOOLEAN]

TypeOK ==
    /\ DOMAIN nodes = Slots /\ \A s \in Slots : IsNode(nodes[s])
    /\ free \in [Slots -> Nat] /\ \A s \in Slots \ dangling : free[s] <= 1
    /\ DOMAIN inodes \subseteq 1..MaxInodes /\ Range(inodes) \subseteq Slots
    /\ nextIno \in 2..(MaxInodes + 1)
    /\ DOMAIN files \subseteq Handles /\ \A h \in DOMAIN files : files[h] \in OpenFile
    /\ failed \in BOOLEAN /\ lost \in BOOLEAN /\ dangling \subseteq Slots

(* The entries that name s: directory and name. *)
Entries(s) ==
    {e \in (DOMAIN Dirs) \X Names : e[2] \in DOMAIN Listing(e[1]) /\ Listing(e[1])[e[2]] = s}

Named(s) == s = Root \/ Entries(s) # {}

(* Every name leads to a file or a directory of its own whose slots nobody   *)
(* else has: no slot is named twice, and none that is named is free          *)
(* (dir_add_entry, op_unlink, op_rmdir, op_rename).  A rename that fails     *)
(* after it freed what it replaces leaves a name on a free slot; whatever    *)
(* comes of that slot later, no other loses its one owner.                   *)
TreeIsSound ==
    /\ \A s \in Slots \ dangling : Entries(s) # {} =>
          Cardinality(Entries(s)) = 1 /\ free[s] = 0 /\ (IsFile(s) \/ IsDirectory(s))
    /\ \A f \in Files : \A s \in nodes[f].slots \ dangling :
          /\ free[s] = 0 /\ nodes[s] = FileDataBlock
          /\ \A g \in Files \ {f} : s \notin nodes[g].slots

(* A file handle never outlives its file: the head it will write at the next *)
(* flush is that of a file with a name (op_unlink evicts the handles).  Until*)
(* a rename has lost something, here and below.                              *)
HandlesOnFiles ==
    ~lost => \A h \in DOMAIN files : IsFile(files[h].head) /\ Named(files[h].head)

(* No inode number the kernel can send leads to something without a name,    *)
(* nor, once the slot is given out again, to another file (InodeMap).        *)
InodesNamed == ~lost => \A ino \in DOMAIN inodes : Named(inodes[ino])

(* Every slot is free, has a name, is named by a file or is known to a       *)
(* handle: removing and replacing give back all they should.                 *)
NoSlotLeaked ==
    \A s \in Slots :
        \/ free[s] > 0 \/ Named(s)
        \/ \E f \in Files : Named(f) /\ s \in nodes[f].slots
        \/ \E h \in DOMAIN files : s \in files[h].slots

(* SECURITY.md:114-115: a freed slot holds random bytes; of a slot that was  *)
(* freed under its name, only until it is given out again.                   *)
FreeIsNoise == \A s \in Slots \ dangling : free[s] > 0 => nodes[s] = Noise

(* No name leads to a free slot (op_rename). *)
NamesAreTaken == \A s \in Slots : Entries(s) # {} => free[s] = 0

(* A request answered with an error leaves every name where it was (the      *)
(* error paths of op_mkdir, op_create and op_rmdir).                         *)
FailuresKeepNames == [][failed' => lost' \/ UNCHANGED <<Dirs, Files>>]_vars

(* The same of op_rename. *)
FailuresChangeNothing == [][failed' => UNCHANGED <<Dirs, Files>>]_vars

(* Every request does to the names what it does in NameTree, or nothing.     *)
IsNameTree == Tree!Init /\ [][lost' \/ Tree!Next]_<<Dirs, Files>>

=============================================================================
