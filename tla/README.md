# Venom in TLA+

A verification project for Venom, an encrypted container that is mounted
through FUSE: `vnmcore` (Rust: slot store, container, FUSE driver, anti-rollback
state), `vnmcore-ffi` (C interface) and `venom` (Qt application). Paths below are
relative to the repository's source tree; `slot_store.rs:239` means line 239 of
`vnmcore/src/storage/slot_store.rs`, and so on. `PROJECT.json` maps every
definition to the lines it stands for.

## 1. The system

A container is one file: two copies of a header, an area of *recipient slots*
(each holds the master key, sealed for one password or one key pair), and a
data area of 32 KiB *slots*, each one sealed node: a directory block, a file's head
block, a chunk of file data, a block of an index chain, or the *allocation slot*
with the free-slot bitmap, a generation counter and a Merkle root. A slot nobody
uses holds random bytes.

| Component | State | Operations | Talks to |
|---|---|---|---|
| Slot store (`storage/slot_store.rs`, `merkle.rs`) | free list, generation, cached root, `merkle_dirty`; the allocation slot on disk | `alloc`, `free_slot`, `write`, `read`, `wipe`, `update_merkle_root`, `save_free_list`, `load_free_list`, `rebuild_free_list` | the container file, by calls from `VnmContainer` |
| Container (`fs/container.rs`) | path, master key, store, ids; the file's headers, recipient slots and roots | `create`, `open`, `write_node`, `update_node`, `free_node`, `flush`, `reset_rollback_state` | slot store, headers, state file |
| Recipients and headers (`container/*.rs`, `fs/container.rs`) | two header copies, recipient area | `add_password_recipient`, `add_key_recipient`, `remove_key_recipient`, `list_recipients` | the container file, write by write, without a lock |
| Hidden volume (`fs/container.rs`) | two header copies, sealed with a key derived from its password; a second store over the same file | the same | shares the file, and its recipient operations the header and slots, with the outer volume |
| Anti-rollback state (`rollback.rs`) | one JSON file per user: container id -> last generation | `load`, `check`, `update`, `reset`, `persist` | every process of the user, without a lock |
| FUSE file data (`fs/fuse.rs`, `storage/vault_fs.rs`) | per handle: chunk cache, dirty set, slot map, index chain | create, open, read, write, setattr, flush, release, unlink | container; the kernel sends one request at a time (`&mut self`) |
| FUSE names (`fs/fuse.rs`) | directory blocks, inode map, open handles | lookup, readdir, mkdir, rmdir, create, unlink, rename | container |
| C interface (`vnmcore-ffi`) | ownership of a handle | `vnm_mount_blocking`, `vnm_unmount`, `vnm_key_*`, `vnm_keylist_load` | container; callbacks into the application |
| Application, mounts (`venom/`) | `m_mounted`, cards, one `MountWorker` thread per mount | mount, unmount, quit | C interface on the worker thread; queued signals to the main thread |
| Application, keys (`venom/`) | the key directory, `m_keys`, three lists of rows | generate, import, drop, export, delete, create with recipients | C interface; a mount's signal replaces `m_keys` |
| Crypto (`crypto/*.rs`) | none | pure functions | taken as ideal everywhere |
| WinFSP driver (`fs/winfsp.rs`) | - | - | written against an older `FileBlock`; cannot be built with the format of this tree |

What is hard about it:

* **crashes**: slots are overwritten in place, but what vouches for them (bitmap,
  generation, root) is written once, in `flush`, which the FUSE driver calls only
  when it is dropped;
* **two files that must agree**: the container's generation and the baseline in
  the state file, which all processes rewrite whole;
* **partial failures**: errors between the steps of a flush, of a rename, of a
  recipient operation; dropped errors (`let _ = self.wipe(..)`, `op_release`);
* **stale state**: chunk caches against slots, inode numbers against slots that
  are reused at once, plaintext counts in damaged headers;
* **threads and event loops**: a mount runs on a thread of its own, reports through queued
  signals, and the window may close, or a modal question be open, when one arrives;
* **limits**: a full volume, a full cache, a directory or head block that
  outgrows its slot.

`PROJECT.json` lists these hazards one by one, each at its line, with the
properties that would catch it.

What makes each component correct:

* slot store - one owner per slot; an open that succeeds shows exactly the last
  save; an undamaged file always opens; nothing older than the last flush opens;
* container and recipients - whoever was granted access keeps it, whoever was removed stays out,
  the owner and the hidden password get in whatever is done to the others, each header, slot
  and root lies where every operation looks for it;
* state file - a container that was set back is refused, any other is not;
* file data - reads return what writes and truncations made of the file; a flushed
  file can be rebuilt from the slots alone; no slot freed twice, none lost;
* names - a tree, whatever the sequence of requests; a failed request changes no
  name; inode numbers and handles never lead to another node;
* mounts - the list shows what is served; a vault that left it has been flushed; every mount
  is answered and every end handled;
* keys - a row acts on the key it shows; no private key goes that nobody asked to go.

## 2. Modules

| Module | Models | Proofs / composition |
|---|---|---|
| `Container` | `create`, `open` and the recipient operations over headers, recipient slots and roots, outer and hidden | `ContainerProofs`, `Layout` |
| `Layout` | offsets, slot counts and room in headers, as arithmetic | in `SlotStoreProofs` |
| `SlotStore` | the slot store driven through `VnmContainer`, with crash, failing writes, decay, backups | `SlotStoreProofs` |
| `VolumePromise` | abstract: a volume shows a view, saves it, loses or reloads it | refined by `SlotStore` (`KeepsVolumePromise`) |
| `RollbackFile` | the state file among several processes and containers | `RollbackFileProofs` |
| `FuseFile` | the life of one file's data | `FuseFileProofs` (types, memory, slots), `FuseContentProofs` (contents) |
| `NameTree` | abstract: a tree of names | refined by `FuseNames` (`IsNameTree`) |
| `FuseNames` | directory blocks, inode map, handles | `FuseNamesProofs` |
| `MountLifecycle` | threads, signals and the list of mounts in the application | `MountLifecycleProofs` |
| `KeyStore` | the key directory and the window's lists over it | `KeyStoreProofs` |
| `MCContainer` | the symmetries TLC uses | |

The other modules are checked as they stand.

### SlotStore

`disk`, `allocBlock` are the container file; `free`, `generation`,
`cachedMerkleRoot`, `merkleDirty` the fields of `SlotStore` (slot_store.rs:45-59);
`baseline` this container's entry of the state file; `pending` the slots that a
directory operation holds between two calls (a slot is allocated before its entry
is written, and freed after its entry is removed). `snapshot`, `lineage`,
`trusted`, `saves`, `flushed` are history.

Each action makes at most one write to the container file: `WriteNode`,
`UpdateNode`, `FreeNode` are the node I/O of `VnmContainer`; `AddEntry` and
`RemoveEntry` are `dir_add_entry` and `dir_remove_entry` of the driver, on a tree one
level deep (the root block's references stand for all directories: what matters
here is only which slots some block names). `FlushSave` is `update_merkle_root`
and `save_free_list` up to their single write, `FlushBaseline` the rest of
`flush`; between the two a crash may fall. `...Fails` are the error exits, where
the slot holds its old bytes or a torn mixture. `Open` is `load_free_list` and
the baseline check, in the code's order: verification first, baseline second.
`MediaFault`, `TakeBackup`, `RestoreBackup` and `ResetBaseline` happen outside
the program.

A write gives a slot a new `ver`: no two encryptions leave the same bytes. A
Merkle root is the function from used slots to contents, which is what a
collision-free hash tells apart; the zero root is the empty function, as in the
code.

### Container

`headers` are the four places a header copy can have (offset 0, offset 512, EOF-1024,
EOF-512), each the key it decrypts under and the plaintext counts; `slots` the recipient
area, each slot the credential it is for and the key in it; `roots` the key each volume's root
block was sealed with. `file` and `shape` say how far `create` came and what it was asked for:
with or without a password, with or without a hidden volume, and, if with one, which of the
three outcomes its header's encoder has (`HiddenHeaderFits` in `Layout` says which cipher has
which). `session` is a handle: closed, idle, or an operation with the writes it still has to
make. `granted`, `revoked` and `overlapped` are history.

Every operation that writes is the list of its writes, taken from what it read when it began
(`Create`, `AddRecipient`, `RemoveKey`), and `Write` and `Return` make them one by one, so that
a crash, an open or the operation of another handle can come between any two: the code
opens the file anew for each of them. `Counts`, `Unlocks`, `OpensOuter` and `OpensHidden` are
`open`: the plaintext counts with their fallback, the slots in order, any authentic copy of the
header, then the two places of the hidden header. `Damage` is one header copy that reads as
anything, or as an error. A handle of the hidden volume has the same operations; they write
slots of the outer area and only then fail.

What a slot store does with a volume after its root is SlotStore's; there a block opens with the
key it was sealed with, which `HiddenReads` shows not to be so for the hidden volume.

### Layout

The constants and offsets of `header.rs`, `recipient.rs` and `container.rs` in bytes, the
arithmetic of `create` and of `update_slot_counts`, the encrypted size of a header body for each
cipher, and that of the allocation slot. There is no behaviour: the theorems about it, at the end of
`SlotStoreProofs`, say that Container and SlotStore may name places instead of offsets. Its `DataAreaOffset` is 16 376 and the recipient
area 15 352 bytes, as the constants give; the comments next to them (header.rs:56-63, FORMAT.md
section 3) still say 16 632 and 15 608.

### RollbackFile

`Flush` puts the next generation into the container file, then `Load`,
`Truncate`, `Persist` are the steps of `RollbackState::load().update(..)`; `Reset` goes
through the same steps. `std::fs::write` truncates first, so a reader or a crash
can meet an empty file, which `load` takes for no entries. Two processes never
have the same container open here; that is the double-mount question of the plan.

### FuseFile

A byte is the number of the write that put it there. `files` is `open_files`;
`held` the handles the kernel still has (a `release` whose flush fails drops its
error and leaves the handle in the map). One FUSE request is one action, with all
it calls: a `write` includes the evictions and the write-through, a `flush`
the chunks, the excess slots, the index chain and the head, in the code's
order with every error exit in between. Where the code iterates over a `HashSet` or
evicts "some" clean chunk, every order is explored. The volume below is a bag of
free slots that hands out the lowest one: freeing twice is possible, so that it can
be seen. Host errors are left out; a full volume and a head that outgrows its slot
are the failures that remain, both in the code's reach without any fault.

With the real constants (30 000-byte chunks, 4 000 direct ids, 32 732 bytes of
payload per slot) a head with a full first chunk holds only some 900 ids, so the
index chain is reached only by files whose first chunk is short. `HeadRoom`
chooses between the two worlds: in `file_append` it is wide enough for the chain's
code to be exercised, in `file_truncate` (and `Doc_head.cfg`) it is the limit that
bites.

### FuseNames

`nodes` are the slots, `inodes` the `InodeMap`, `files` the open handles with the
slots they have written through. Entries carry no `kind` (the code reads the node
itself wherever a decision depends on it), a directory takes at most `MaxEntries`,
file data is a set of slots. Checks that the kernel makes before a request
arrives (a name exists, is not in the way, a directory is not moved under itself)
are guards, marked as external in the map. One handle per file: two handles of one
file are FuseFile's.

`Rename` follows `op_rename` write by write: the source directory is written, the node is read
(`NotRead`, if its slot is unreadable), what the destination names is removed, freed and wiped
(`Replaced`, `ReplacedFreed`), and the destination is written last. That last write can always fail
(`NotRenamed`): a node block is MessagePack, so a longer name or a larger slot number may outgrow
the slot though an entry was taken out, in the same directory, too. What was moved has no name
then, and what was to be replaced is free while its name still leads there. Two history variables
say what such renames leave behind. `lost`: a node that no directory names, from there or because a
directory that was not empty was replaced; nothing puts it back, so what is claimed of names, of
handles and of inode numbers is claimed until then. `dangling`: the slots that were freed under
their name. Such a slot may be given out again, to a file, a directory or another file's data, while
the old name leads there, too; it may be unlinked twice and come to be on the free list twice; and
requests that reach it find noise, or somebody else's block, of a kind the kernel, which believes an
earlier lookup for a second (`TTL`), does not expect. All this the model goes on with: `Unlink`,
`DataOf` and `Added` are of blocks of any kind, `MayAsk` lets the kernel check no more than it knows
of such names, `Renamed` writes a destination that was itself freed. `TypeOK`, `TreeIsSound` and
`FreeIsNoise` are claimed of every other slot: the fault does not spread. `NamesAreTaken`, which
claims it of the dangling ones too, is violated (`Doc_rename_full`). One thing is less exact there:
a dangling slot that one file has twice is freed once with it, so the count of such a slot on the
free list may be lower than the code's.

### MountLifecycle

A worker's `stage` is where its thread is in `vnm_mount_blocking`: `Report` is the call of
`on_mounted`, which precedes the mount itself, `MountSucceeds` and `MountFails` are
`fuser::mount2`, `Drop` is `flush_all`, `Finish` the last callback. The callbacks post
to `posted`, and `Deliver` is the main thread's event loop: VenomCore changes
`m_mounted`, the window draws `m_vaultCards`; the order of both lists is left out. `kernel` is the mount table, a stack
per mountpoint, as the kernel has it; `Quit` destroys `VenomCore` and its threads, which
Qt answers by ending the process if one still runs. An open that fails shows a
message and changes nothing, so `OnMount` starts where the handle is open.

### KeyStore

`store` is the key directory: per name, the keypair whose private or public file it holds,
or something that does not decode. `m_keys` is the member that all lists load;
`listKeys` and `listCreateKeys` are the rows drawn from it. The mount list's rows carry their
own paths and need no variable. Deletion and export are two actions, `Ask` and the answer,
because their dialogs run an event loop in which `OnMountStarted` may come. What was
read through a reference after that (`NamesRead`) is any name: the memory is no longer
the list's.

### Abstract specifications

`VolumePromise` says what the layers above may count on, with no free list, bitmap,
generation or root: a save makes the view durable, and opening a *sealed* volume
brings back exactly the durable view or nothing. A volume is sealed once a root
was stored; before that, and when the allocation block is unreadable, nothing is
promised - and the violation runs below show what happens then. `NameTree` says
what Linux expects of each request: one atomic change of the tree.

## 3. Runs

Every run ends within two minutes on two cores.

| Run | Question | Result |
|---|---|---|
| `slots_faults` | Crashes, failing writes and decay together: has every slot one owner, does an accepted open show the last save, does SlotStore implement VolumePromise? With an inductive invariant of the proofs | holds |
| `slots_replay` | Kept copies, restores, crashes, resets: does a file that is as its last save left it always open, and is a copy the last completed flush descends from ever accepted? | always; never |
| `file_append` | Appending through eviction, write-through and the index chain until the volume is full: reads, flushed files, slots, bound on dirty chunks | holds |
| `file_truncate` | The same with truncation, open and closed, and unlink, a full volume and heads that outgrow their slot: no slot freed twice, none lost | holds |
| `container_crash` | `create` with and without a password or a hidden volume, then two handles that add and remove, a crash between any two writes, one header copy that reads as anything: do owner, granted and hidden credentials open, does a removed key stay out? | yes, as long as the damage shows; the owner also with operations that overlap |
| `state_shared` | Two processes that interleave, die and fail at the state file: is a container that was not set back ever refused? | never |
| `names_tree` | Tree, handles and inode numbers under all requests, with the renames that lose a name or slots or fail after freeing what they replace: has every slot but those freed that way one name and one owner, is what is free noise; until a name is lost, does FuseNames implement NameTree, do failed requests keep all names? | yes |
| `mount_window` | Mounts, two at once, that fail, end, are unmounted from inside and outside, and a window that closes at any time: no ended session listed, none unlisted before it is flushed, every mount answered, every end handled | holds |
| `key_store` | Key files that come, go and fail to be written, mounts that switch the tab: do rows stand for what they show, is what is acted on what was picked, does a private key get lost by the way? | they do; it is; it does not |
| `doc_crash_refused` | SECURITY.md: a crash leaves orphaned slots in a volume that is still used | violated: one slot write and a crash, and every later open refuses the volume |
| `doc_hole` | fuse.rs: `slot_map[i]` is the slot of chunk i, and open rebuilds it | violated: a chunk never written moves all later ids down by one |
| `doc_hidden` | FORMAT.md: the key derived from the hidden password is the master key of the hidden volume's slots | violated: `create` seals them with a random key that nothing in the file gives back |

The passing runs leave out a request or a fault (`Requests`, `Faults`), or excuse a state,
only where a violation run or an instance below shows that it breaks the property; the rest of
the model is unchanged:

* `file_truncate` has no `extend`, no hole and no unlink of an open file;
* `names_tree` leaves out renames over an open file, excuses `IsNameTree`, `HandlesOnFiles`,
  `InodesNamed` and `FailuresKeepNames` after a name was lost, and in `TypeOK`, `TreeIsSound` and
  `FreeIsNoise` the slots a failed rename freed under their name;
* `slots_replay` has no failing writes (they break `NoFalseAlarm`);
* `container_crash` begins no recipient operation over a damaged primary copy and removes no key
  through a hidden handle; `GrantedOpens` and `RevokedStaysOut` excuse operations that
  overlapped, `GrantedOpens` and `OwnerOpens` a damaged copy whose counts pass for sound;
* `mount_window` excuses sessions that shared their mountpoint from `ServingIsShown` and
  `UnlistedIsClosed`, `key_store` an answer given after the list was replaced and exports into
  the key directory.

### Further instances

These configurations sit beside the runs. The first two hold; each of the others
has a counterexample to the property it checks.

| Configuration | Property | What it shows |
|---|---|---|
| `SlotStore_quiet` | `NoSlotIsLost`, `NoSlotHasTwoOwners` | without failures every slot is free, named or in hand, and exactly one of these, across mounts |
| `FuseNames_space` | `NoSlotLeaked` | without such renames every slot is free, named or in a handle |
| `Doc_crash_orphans` | `CrashLeavesOnlyOrphans` | a crash in the first mount: slots that are named are on the free list (SECURITY.md:124 expects the opposite) |
| `Doc_damage` | `DamageDetected` | an unreadable allocation slot is taken for a new volume and nothing is verified (README.md:15) |
| `Doc_false_alarm` | `NoFalseAlarm` | a `write_node` that failed makes the next flush store a root that does not match (FORMAT.md:684) |
| `Doc_restore` | `RestoreDetected` | a generation spent by a crashed flush is used again after a restore (README.md:23) |
| `Doc_restart` | `OlderCopyRefused` | an unreadable allocation slot after a reset starts the generation at 0 again, and an older copy passes (slot_store.rs:251) |
| `Doc_damaged_counts` | `DamageIsRecovered` | counts that are wrong but not both zero keep `open` from trying a slot that would open (FORMAT.md:706) |
| `Doc_damaged_add` | `OwnerOpens` | adding a recipient over a damaged primary overwrites the owner's slot, then fails |
| `Doc_two_managers` | `DamageIsRecovered` | two handles write the same recipient slot, and one credential that was granted does not open |
| `Doc_hidden_manage` | `GrantedOpens` | `remove_key_recipient` through a hidden handle takes an outer recipient's slot, then fails |
| `Doc_state_failure` | `OlderRefused` | a failed write of the state file forgets all baselines (rollback.rs:25-26) |
| `Doc_extend` | `ReadsSeeWrites` | extending a file leaves bytes that cannot be read back (fuse.rs:635) |
| `Doc_two_handles` | `FlushedIsOnDisk` | the handle flushed last takes the other's chunks out of the head |
| `Doc_head` | `NoRequestFails` | a head block outgrows its slot with slots to spare (vault_fs.rs:6-8) |
| `Doc_unlink_open`, `Doc_closed_truncate` | `NoSlotLeaked` | slots known to a handle alone, or to an index chain, are lost (SECURITY.md:115) |
| `Doc_rename_data` | `NoSlotLeaked` | rename loses the chunks of the file it replaces |
| `Doc_rename_open` | `FreeIsNoise` | rename keeps the open handle of the file it replaces, whose flush writes into the freed slot (SECURITY.md:114-115) |
| `Doc_state_shared` | `OlderRefused` | two processes that flush at once, and one baseline is lost (rollback.rs:7-11) |
| `Doc_card` | `CardsAreOfListed` | a mount that fails after it was reported keeps its card, Mounted (STATUS.md:204-206) |
| `Doc_same_mountpoint` | `ServingIsListed` | the end of one session takes the other of that mountpoint off the list |
| `Doc_quit` | `SafetyNetRuns` | the window closes on a mounted vault and `flush_all` never runs (fuse.rs:13) |
| `Doc_double_mount` | `OneSessionPerVault` | one vault mounted twice (error.rs:39 has a name for it that nobody uses) |
| `Doc_dangling` | `DeletesWhatItNamed` | a mount reported during the question "Delete keypair ...?" and another file is removed |
| `Doc_export` | `ActsOnWhatIsShown` | an export into the key directory, and a row shows a key its file no longer holds |
| `Doc_rename_full` | `FailuresChangeNothing`; `NamesAreTaken` in its place | a rename whose last write fails loses the name and answers EIO; and what it was to replace is free while its name still leads there |

### Bounds

* SlotStore: three or four slots including the root: two that can be in different
  states (named, in hand, free) besides it, which is what ordering in the free list
  and exchange of owners need. `MaxVersion`, `MaxGeneration`, `MaxSaves` of 2-4 allow
  mount, change, flush, crash, mount, change, flush; every invariant speaks of at most
  one save and one open. `MaxCopies` 2: one copy from before and one from after.
* Container: three slots of each kind and three keys, so that a removal shifts
  slots and has a neighbour on either side; four recipient operations fill the area and begin to
  empty it; two handles; damaged and random bytes show three recipients of each kind, the most
  wrong that still passes the room test's type.
* RollbackFile: two containers (one entry must survive the other's update), two
  processes, three generations.
* FuseFile: up to five chunks of two bytes; cache and write-through limits of 2 and
  1, so that eviction and write-through happen within one write; one id per direct
  array or index block in `file_append`, so that a chain has several blocks, and seven
  slots, one less than the largest file takes; four slots in `file_truncate`, which a
  file of four chunks fills; 3-4 writes.
* FuseNames: three nodes besides the root, three names, alike (`Symmetry`): directories in
  directories, renames across them and within one, directories that are full, one reuse of a slot,
  also of a dangling one. `MaxInodes` is the only counter, and it stops lookups, not other requests.
* MountLifecycle: three mounts asked for (`MaxMounts`), two threads at once (`MaxThreads`), two
  mountpoints: an end of one session next to another of the same and of another mountpoint, and
  a third after both. One vault: its name plays no part but in `Doc_double_mount`.
* KeyStore: two keypairs, their own names, one foreign `.key` and one `.pub` name: two files
  of one key, two keys in turn under one name. No counters.

Deadlock is checked except in `mount_window`, which ends when the window is closed, in
`container_crash`, where a create that crashed, or panicked, leaves a file that nothing opens, and in `state_shared`, where all containers may be set back and none
opens (`reset_rollback_state` needs one that is open): there the real system stops too.

### Fairness

Only `mount_window` claims liveness, under weak fairness of `Deliver` (Qt's event loop runs
while the program does; a modal dialog runs one too) and of each thread's own next step
(threads are scheduled, and between two callbacks `vnm_mount_blocking` waits for nobody but
the kernel). Serving is not such a step: nothing makes a user unmount, a session end or
the window close, so the properties speak of a mount from its start to its report and from
the session's end on. Elsewhere the driver runs when the kernel sends a request,
nothing in the code retries or polls, and no liveness is claimed.

## 4. Proofs

Checked by TLAPS for every value of the constants, under the assumptions the
modules name (slots are a finite set of naturals that contains the root; faults are
among the listed kinds; bounds are naturals; the numbers of mounts and threads are
naturals; the names in the key directory are finitely many, and those of keys, other `.key` files
and `.pub` files differ):

| Theorem | States |
|---|---|
| `SlotStoreProofs!TypeCorrect` | `Spec => []TypeOK` |
| `SlotStoreProofs!RootsNeverAhead` | `Spec => []RootsNotAhead` |
| `SlotStoreProofs!AcceptedIsSaved` | `Spec => []AcceptedAsSaved` |
| `SlotStoreProofs!OwnersStayDisjoint` | `Spec => []OwnersDisjoint` |
| `SlotStoreProofs!OneOwner` | `Spec => []NoSlotHasTwoOwners` |
| `SlotStoreProofs!BaselineStaysBehind` | `Spec => [](SavesCounted /\ BaselineBehind)` |
| `SlotStoreProofs!OwnerNotLockedOut` | `"io" \notin Faults => (Spec => []NoFalseAlarm)` |
| `SlotStoreProofs!OlderCopiesRefused` | `CounterKept => (Spec => []OlderCopyRefused)` |
| `SlotStoreProofs!VolumeImplemented` | `PromiseFaults => (Spec => KeepsVolumePromise)`, the refinement of `VolumePromise` |
| `SlotStoreProofs!SlotsNotLost` | `Spec => []NoSlotIsLost` |
| `RollbackFileProofs!BaselinesCorrect` | `Spec => [](TypeOK /\ BaselinesBelowPeak)` |
| `RollbackFileProofs!RefusalsAreTrue` | `Spec => []NoFalseRefusal` |
| `RollbackFileProofs!SetBackIsRefused` | `Alone => (Spec => []OlderRefused)` |
| `ContainerProofs!TypeCorrect` | `Spec => []TypeOK` |
| `ContainerProofs!OwnerStays` | `"manage" \notin Faults => (Spec => []OwnerOpens)` |
| `ContainerProofs!HiddenVolumeStays` | `Spec => []HiddenStays` |
| `ContainerProofs!RevokedKeysStayOut` | `Spec => []RevokedStaysOut` |
| `ContainerProofs!GrantedGetIn` | `"manage" \notin Faults /\ "hidden manage" \notin Faults => (Spec => []GrantedOpens)` |
| `FuseFileProofs!TypeCorrect` | `Spec => []TypeOK` |
| `FuseFileProofs!MemoryIsBounded` | `"truncate" \notin Requests => (Spec => []DirtyBounded)` |
| `FuseFileProofs!FreedOnce` | `OneHandle`: `Spec => [](~failed => NoSlotFreedTwice)` |
| `FuseFileProofs!NothingLeaks` | `OneHandle /\ Lossless`: `Spec => []NoSlotLeaked` |
| `FuseContentProofs!WritesAreRead` | `OneHandle /\ Plain`: `Spec => []ReadsSeeWrites` |
| `FuseContentProofs!FlushedReadsBack` | `OneHandle /\ Plain`: `Spec => []FlushedIsOnDisk` |
| `FuseNamesProofs!TypeCorrect` | `NoneOverOpen`: `Spec => []TypeOK` |
| `FuseNamesProofs!EveryNameItsOwn` | `NoneOverOpen`: `Spec => []TreeIsSound` |
| `FuseNamesProofs!FreedIsWiped` | `NoneOverOpen`: `Spec => []FreeIsNoise` |
| `FuseNamesProofs!HandlesHaveFiles`, `InodesHaveNames` | `NoneOverOpen`: `Spec => []HandlesOnFiles`, `[]InodesNamed` |
| `FuseNamesProofs!FailedRequestsKeepNames` | `NoneOverOpen`: `Spec => FailuresKeepNames` |
| `FuseNamesProofs!ImplementsNameTree` | `NoneOverOpen`: `Spec => IsNameTree`, the refinement of `NameTree` |
| `MountLifecycleProofs!TypeCorrect` | `Spec => []TypeOK` |
| `MountLifecycleProofs!NoGhosts`, `ServingShown`, `UnlistedClosed` | `Spec => []NoGhostListed`, `[]ServingIsShown`, `[]UnlistedIsClosed` |
| `KeyStoreProofs!TypeCorrect`, `RowsStayKeys` | `Spec => []TypeOK`, `[]RowsAreKeys` |
| `KeyStoreProofs!RowsActedOn` | `Destinations = {} => (Spec => []ActsOnWhatIsShown)` |
| `KeyStoreProofs!PrivateKeysStay` | `Spec => KeysStay` |
| `SlotStoreProofs!RegionsApart`, `VolumesFit`, `BackupIsInferred`, `RootIsNotAllocation` | where things lie, for every size |
| `SlotStoreProofs!HiddenHeaderFits`, `LargestVolume` | what fits into a header and an allocation slot, for every cipher |

*AcceptedAsSaved* is not inductive: that the stored root matches the slots says nothing about
the last save unless one knows that the root is not from a later time than that
save. Stale roots do occur (a failed `write_node` leaves one behind), so equality of
root and save would be false. What is inductive is an order: on common slots, the
cached root is never newer than the disk, a stored root never newer than the
save it was written with, the save never newer than the disk (`NotAhead`,
compared by `ver`), in the file and in every copy of it. If a root then matches the disk, save
and disk are squeezed together on the used slots, and those are the bitmap's by
the same invariant.

*NoSlotHasTwoOwners* needs what an open will find as well as what memory holds, so
`OwnersDisjoint` says it of the open volume, of the file and of each copy:
the free list is strictly descending and disjoint from what is named or in hand, and the
snapshot's bitmap is disjoint from what the snapshot's root block names. An open
takes the disjointness from the file because `trusted` says the file still is what a
save described. `InsertFree` is the lemma about the sorted insertion of
`free_slot`: the list stays strictly descending if the slot was not in it, which
is what the disjointness provides.

*NoFalseAlarm* needs two things of a file that is as its last save left it. Its baseline is
not ahead: `BaselineBehind` keeps the baseline at or below the counter of an open container and
the generation of every file or copy that the last completed flush went into, and
`SavesCounted` says that between `save_free_list` and `RollbackState::update` only the file
itself has the newest save. Its root is the root of that save: `RootsCurrent`, which a write
that fails after `alloc` breaks (`Doc_false_alarm`), hence the hypothesis.

*OlderCopyRefused* rests on `GenerationsGrow`: of two files of which one descends from the other
the later has the higher generation. That fails once the counter starts again at 0, which takes
an allocation block that cannot be read and a baseline that was reset (`Doc_restart`):
`CounterKept` excludes the two together and nothing else.

*KeepsVolumePromise* takes each step of the store to one step of the promise or to none
(`VolumeStep`): a node operation takes a slot into use, out of use, or writes one (`NodePromise`);
`FlushSave` makes the view durable (`SavePromise`); an open of a sealed volume shows the durable
view because the root it has matched is that of the last save (`OpenPromise`, on
the invariant behind *AcceptedAsSaved*). Two more invariants are needed. `RootInUse`: the root block is
never on the free list, since an open that rebuilds the list from an unreadable allocation block has
counter 0, below every baseline that was not reset. `SealKept`: a sealed volume that is open has a root
to write, cached or yet to be computed, so no save takes the seal away. `PromiseFaults` leaves
out restores, which bring an older view back by design, and resets *together with* failing
writes: a volume that was opened without its bitmap after a reset may then have no slot
in use, whose root is the zero root, which counts as none, and be saved without a seal. TLC has
checked both invariants and the refinement under crashes, failing writes and decay, `SealKept` and the
refinement under crashes, decay and resets, and finds the refinement violated with resets and
failing writes.

*NoSlotIsLost* is a statement about memory, and an open replaces memory by what the file says. So
`NothingLost` says of the file and of each copy, too, that bitmap, root and names make up all slots; an open
volume may have left this behind, but it is closed only after a flush with nothing in hand.

*NoGhostListed*, *ServingIsShown* and *UnlistedIsClosed* come from one invariant, `MainInv`. The
queue has each thread's report before its end (`SignalsInOrder`), so a listed session that has
finished has its end still to be handled; two threads of one mountpoint of which neither is over
know of each other (`OverlapsMarked`), so the end of one takes nobody off the list who had the
mountpoint for himself. The mount table is part of the invariant because what `fusermount` takes
down must be a session that serves.

*RowsAreKeys* is kept by a deletion, which draws the key manager's list, only since no
question is ever open over the create tab (`AskedElsewhere`), although a mount reported meanwhile
may have changed the tab to the first. What a row *does* takes `KeyInv`: no file of a key comes under
a name that has been drawn without the list being drawn again (`RowsTrue`), and while a question is
open none comes at all (`QuestionTrue`), so the file acted on is the shown key's or is gone.
Exports alone draw nothing; where one goes into the key directory a row may show the key that
was there (`Doc_export`), hence `Destinations = {}` in `RowsActedOn`. They reach `.pub` names
only, so `PrivateKeysStay` needs no hypothesis. That the list can be sorted at all is
`SortedExists`: an entry's place is the number of those that come before it, an injection of a finite
set into as many places. TLC has checked `KeyInv` on the instance of `key_store`, and with an
export into the directory.

*NoFalseRefusal* follows from `BaselinesBelowPeak`: no entry, neither in the state file nor
in the memory of a process that has loaded but not yet written, is above the highest
generation its container ever carried. It holds through every interleaving since an old map
written back only lowers entries.

*OlderRefused* is true of one process that neither dies nor fails in the middle (`Alone`; `Doc_state_failure` and
`Doc_state_shared` violate it otherwise). `AloneInv` says that the file has every entry that a flush has
returned Ok for, except between truncation and write, when the process has them all in memory
(`Carries`), and that an open container is not behind its own.

*OwnerOpens* speaks of the end of `create`, but what makes it true happens before and
beside it: `OwnerKept` says of every write that is still to be made, by whatever operation
of whatever handle, that it is *safe* (a header counts a password and is the outer volume's
where those are, the first password slot is the owner's, the outer root has the outer key), and
of a `create` under way that each of the three things the owner needs is there or among
its writes. Safe writes never take such a thing back, so any interleaving of operations keeps
them; a crash only drops writes. One header copy that is damaged leaves another whose counts
`open` falls back on. TLC has checked `OwnerKept` over `container_crash`. The hypothesis is
needed: with the fault `"manage"` an operation takes its slot index from damaged bytes
(`Doc_damaged_add`).

*HiddenStays* comes from `HeadersKept`, which has no hypothesis: every write still to be made leaves
each header to its volume (`ApartWrites`: only `create` writes where a hidden volume's headers are, and
last under the derived key), and a `create` under way either has the second hidden header in the file
or still among its writes. That an operation of a handle of the *hidden* volume writes none of
them is `SessionApart`: those header writes fail before they are reached.

*RevokedStaysOut* says that nothing is left of a removed key. While the removal runs this is false, so
`RevokedKept` follows it: whatever slot is still the key's is still to be overwritten, and with
nothing of the key's (`Erases`). It needs the key to be in one slot only, which the `alone` of the
session records when the removal starts, and that no other handle writes meanwhile
(`~overlapped`, `Doc_two_managers`); no fault and no damage needs to be excluded, since what decays
opens nothing.

*GrantedOpens* is the longest argument. A recipient opens if *some* header that `open` may take counts a
slot of his, so `Grants` asks for the slot to be within the counts of both, and `GrantedKept` says in
which states an operation can be. An addition is at one of three points: before its slot, before
the primary header, before the backup (`SlotComes`, `SlotCame`, `SlotCounted`). A removal of
slot j of n that has written the slots below m is `ShiftLeft(h, n, j, m)`: each slot that is yet
to be overwritten is either the removed key's or was copied into the slot below by the write before, so
that at every point, and after every crash, each remaining recipient is in one of two
adjacent slots, both counted. Where the slot is found is the least index the counts allow (the library's
`WFMin`; no induction over the area). The two hypotheses are needed: with `"manage"` the index
comes from damaged bytes (`Doc_damaged_add`), with `"hidden manage"` a handle of the hidden volume takes a
counted slot and then fails (`Doc_hidden_manage`).
TLC has checked `HeadersKept`, `RevokedKept` and `GrantedKept` on the instance of `container_crash`.

The loops of `FuseFile` (chunks of a request, chunks of a flush, blocks of an index chain, evictions)
are `Iterate`s: a function from the number of rounds to what they have come to, or to the
set of what they can have come to. `Recursion` shows that the function exists and `Induction` that a set P
which holds 0, and i with i - 1, holds the number of every round. A set stands for the predicate because the
library's induction theorems take an operator, which the provers cannot instantiate. Each loop over sets
then has a lemma in its own terms (`WriteChunksInduction`, `SpillInduction`, `FlushInduction`,
`FlushAllInduction`): what a set of pairs of round and state has at the start, and keeps in each round,
it has at the end. The walk along an index chain, which could run in a circle, is bounded by the number
of slots, as in the model.

*TypeOK* takes every request, also one that fails, through every loop with its types. *DirtyBounded* is the
count of what `op_write` leaves unwritten: every chunk that the write-through has passed is off the dirty
ones in memory. With truncation it is false, since `setattr` marks a chunk that need not be cached, and such
chunks can take the place of the cached ones in a write-through.

*NoSlotFreedTwice* and *NoSlotLeaked* come from one invariant, `SlotsInv`: the slots of the file are
exactly those that are not free (`Owner`). Which slots these are changes in the middle of
each request. At rest (`Rests`) they are what the head on disk names: itself, its direct slots, the blocks of its
index chain and the slots those name (`Names`, over `Chained`, the chain without gap or
circle). With a handle (`Held`) they are the head, the chain's blocks and what the handle's map has, which is
*more* than the head names as long as the handle is dirty, and the same once it is flushed. `Apart`
(no slot twice in a map) is what makes freeing the excess free each slot once. `OneSlots` is the
invariant of the step. Three hypotheses, each with an instance that shows what happens
without: `OneHandle`, at most one handle at a time (`Doc_two_handles`: the second knows
nothing of the slots that the first has added); `Lossless`, for leaks, no unlink of an open file
(`Doc_unlink_open`), and no unlink or truncation of a closed file that may have an index chain
(`Doc_closed_truncate`); and `~failed`: a flush that finds at its last write that the head does not fit has
by then freed the excess slots and the old chain, which the head on disk still names.
TLC finds this with seven slots, `HeadRoom` 2, a write of six bytes, a truncation and a flush;
the two runs, whose bounds exclude it, check the property also after a failure.

*ReadsSeeWrites* and *FlushedIsOnDisk* add the text to the slots (`TextInv`, on top of `SlotsInv`,
because writing into a slot leaves the other chunks alone only where no two chunks share one). For each chunk
of the file (`Has`): a cached copy shows the text, and a chunk that is not both cached and dirty is
right on disk (`Saved`). So eviction, which takes only clean chunks, loses nothing, and a
truncation, which leaves a dirty mark on a chunk that may not be cached, does no harm. `Fresh` says the same of what the
head names: a handle that is not dirty has the head's size and slots, in the order of the map. A flush is followed
through its four steps (`FlushFhFull`): chunks, excess, index chain, head. At rest the
text is all on disk (`Restful`), an open brings it back into a handle (`OpenedFull`), and a read
joins the chunks to the text again (`ReadBackIs`). `Plain` leaves out three requests, each
known to lose the text: a write that leaves a hole (`doc_hole`: the ids behind it move down by one at
the next open), an extension (`Doc_extend`), and setattr(size) on a closed file that has an index chain, which
frees the chain and keeps none of its ids (`Doc_closed_truncate` with `HeadRoom` 4 and without
`"seek"` violates `FlushedIsOnDisk`, too). Both runs are instances of the hypotheses; so is whatever
appends, overwrites, truncates, unlinks and reopens with one handle at a time. TLC had checked on both
what `TextInv` says of the handle and of the disk.

The theorems about `FuseNames` share two invariants. `SlotsInv` is about what slots hold, one slot
at a time and of none in `dangling`: an
entry leads to a file or directory and no two lead to the same (`EntriesApart`), the slots of a
file are data and of no other file (`DataApart`), no two handles are of one file and what a handle
has written through is of its own file (`HandlesApart`), what is free is wiped. None of the four is
inductive without the others: a removal wipes the slots of head and handles, and only if these are
nobody else's does no other file lose its data. `KnownInv` is about what the kernel still knows
(handles and inode numbers) and holds until a rename has lost something; until then `dangling` is
empty, which is in `SlotsInv`, and every slot is spoken of. `NamesStep` then takes
every request to its step of `NameTree`. `NoneOverOpen` excludes renames over a file that is open:
`rename` leaves its handle, and the flush of it writes into a slot that is free, or another's
(`Doc_rename_open`), so without the hypothesis the theorems are false.

`BackupIsInferred` is what lets `Container` have one `BackupPlace`: `update_slot_counts` does
not know whether there is a hidden volume and guesses it from the file's size.

Only model-checked: the liveness of `MountLifecycle`, since liveness and ENABLED are out of the
prover's reach; of `FuseFile`, `NoSlotFreedTwice` after a request has failed (on the instances of the
two runs) and what several handles of one file keep of it; and one instance beside the runs,
`NoSlotLeaked` of `FuseNames`.

## 5. Not modelled

* Ciphers, KDF, KEM, byte layouts: pure; taken as ideal. Sizes and offsets are in `Layout`.
* The bytes of a key file, and the passphrase of a protected one.
* Locked memory: no behaviour a state machine shows.
* WinFSP: cannot be built with the format in this tree.
* In the application: cards of containers that are not mounted, the rows of the mount list, form
  fields, keys on removable drives. In the C interface: getters, copying of strings, and the
  early returns of `vnm_mount_blocking` for a null argument, which the application never passes.
* The inside of a hidden volume after `open`: the code is the outer volume's, SlotStore, over
  blocks that do not decrypt (`doc_hidden`).
* That a refused container can be brought back: `reset_rollback_state` needs one that is open,
  so there is no behaviour to model.

## 6. Plan

Done, in this order, the most important first: slot store with its promise and
proofs; file data; recipients; state file with proofs; names with their promise; mounts; keys;
create and open with outer and hidden volume, which took the recipients in, with proofs; layout.

Next:

1. `DoubleMount` - two sessions over one SlotStore file, since nothing returns
   `AlreadyMounted`.
2. Composition of `FuseFile` over `SlotStore` with crashes: what an application that
   called fsync may count on.
3. Two handles of one file, and extension, in `FuseFile`: what still holds of them.

Proofs next: `NoSlotLeaked` of `FuseNames`, and what a *failed* flush
leaves of a file: which of its slots the old head still names.
