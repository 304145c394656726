------------------------------ MODULE Container ------------------------------
(***************************************************************************)
(* Who can open a container, and which volume they get: VnmContainer's     *)
(* create, open and recipient operations (vnmcore/src/fs/container.rs) over*)
(* the header copies and the recipient area of vnmcore/src/container.      *)
(*                                                                         *)
(* Each of these operations reads what it needs and then makes its writes  *)
(* one by one; nothing orders, groups or locks them, so a crash, or the    *)
(* operation of another handle, can fall between any two.  A header or a   *)
(* block is the key it decrypts under.  The counts in a header are         *)
(* plaintext that nothing authenticates.                                   *)
(***************************************************************************)
EXTENDS Integers, Sequences

CONSTANTS
    Passwords, Keys,    \* credentials: passwords, and key pairs
    Owner,              \* the password the container is created with
    HiddenPassword,     \* the password of its hidden volume
    Nobody,             \* in place of a credential: random bytes
    MaxSlots,           \* MAX_PASSWORD_SLOTS, MAX_KEY_SLOTS
    Shapes,             \* which of ShapeKinds create is asked for
    Handles,            \* open VnmContainers of this file
    Faults,
    NoiseCounts,        \* bound: counts that random or damaged bytes show
    MaxOperations       \* bound: recipient operations begun

(* "crash": a process dies; "sector": one header copy reads as an error or   *)
(* as zeros; "bytes": one header copy reads as anything; "manage": recipient *)
(* operations go on although the primary copy is damaged, "hidden manage":   *)
(* keys are removed through a handle of the hidden volume.                   *)
FaultKinds == {"crash", "sector", "bytes", "manage", "hidden manage"}

(* "keys only": no password; "hidden": with a hidden volume, whose header    *)
(* encode_header_with_password gives the length one cipher needs: for the    *)
(* others it comes out too short to decode ("hidden short") or too long for  *)
(* the buffer ("hidden long").                                               *)
HiddenShapes == {"hidden", "hidden short", "hidden long"}
ShapeKinds == {"plain", "keys only"} \union HiddenShapes

ASSUME CredentialsAssumption ==
    /\ {Owner, HiddenPassword} \subseteq Passwords /\ Owner # HiddenPassword
    /\ Passwords \intersect Keys = {}
    /\ Nobody \notin Passwords \union Keys
ASSUME BoundsAssumption ==
    /\ MaxSlots \in Nat \ {0} /\ MaxOperations \in Nat
    /\ NoiseCounts \subseteq 0..MaxSlots
    /\ Shapes \subseteq ShapeKinds /\ Faults \subseteq FaultKinds

VARIABLES
    file,           \* "absent", "partial", or "made": create returned Ok (history)
    shape,          \* what create was asked for
    headers,        \* place of a header copy -> what is there
    slots,          \* recipient area: <<kind, index>> -> slot
    roots,          \* volume -> key that its root block decrypts under
    session,        \* handle -> Closed, Idle, or the operation under way
    granted,        \* history: credentials added by an operation that returned Ok
    revoked,        \* history: keys whose only slot a removal that returned Ok took
    overlapped,     \* history: an operation began while another was under way
    operations

fileVars == <<headers, slots, roots>>
historyVars == <<granted, revoked, overlapped, operations>>
vars == <<file, shape, fileVars, session, historyVars>>

Kinds == {"password", "key"}
Indices == 0..(MaxSlots - 1)
Credentials == Passwords \union Keys
KindOf(c) == IF c \in Passwords THEN "password" ELSE "key"

(* Offsets 0, 512, EOF-1024 and EOF-512.  Without a hidden volume the second *)
(* and third are no header's: random bytes, and the end of the last slot.    *)
Places == {"start", "second", "end2", "end"}

(* K_master of the outer volume, the key derived from the hidden password,   *)
(* the k_hidden that create draws, or a key nobody has.                      *)
CryptKeys == {"outer", "derived", "k_hidden", "none"}

Volumes == {"outer", "hidden"}
Counted(pw, key) == [kind \in Kinds |-> IF kind = "password" THEN pw ELSE key]
AllCounts == [Kinds -> 0..MaxSlots]

(* encode_header, encode_header_with_password; the AAD goes with the key. *)
Header(key, n) == [key |-> key, n |-> n]
Slot(c, key) == [credential |-> c, key |-> key]
NoiseSlot == Slot(Nobody, "none")

Closed == [task |-> "closed"]
Idle(volume) == [task |-> "idle", volume |-> volume]
Busy(h) == session[h].task \in {"create", "add", "remove"}

-----------------------------------------------------------------------------
(* VnmContainer::open.                                                       *)

SomeCount(header) == header.n["password"] > 0 \/ header.n["key"] > 0

(* Both counts zero look like damage: the first of EOF-512 and EOF-1024 that *)
(* has one above zero stands in, also if it is the hidden volume's.          *)
Counts ==
    IF SomeCount(headers["start"]) THEN headers["start"].n
    ELSE IF SomeCount(headers["end"]) THEN headers["end"].n
    ELSE IF SomeCount(headers["end2"]) THEN headers["end2"].n
    ELSE headers["start"].n

(* try_password_slot, try_key_slot, with every cipher in turn. *)
IsFor(slot, c) == slot.credential = c

(* try_pw_slots, try_key_slots: the key in the first slot that c opens. *)
Unlocks(c) ==
    \E i \in Indices :
        LET slot == slots[<<KindOf(c), i>>]
        IN /\ i < Counts[KindOf(c)]
           /\ IsFor(slot, c) /\ slot.key = "outer"
           /\ \A k \in Indices : k < i => ~IsFor(slots[<<KindOf(c), k>>], c)

Authentic(key, places) == \E p \in places : headers[p].key = key

OpensOuter(c) == Unlocks(c) /\ Authentic("outer", {"start", "end", "end2"})

(* try_hidden_at: reached also when a slot gave a key that fits no header. *)
OpensHidden(c) ==
    c = HiddenPassword /\ ~OpensOuter(c) /\ Authentic("derived", {"end", "second"})

Opens(c) == OpensOuter(c) \/ OpensHidden(c)

Open(h) ==
    /\ file # "absent"
    /\ session[h] = Closed
    /\ \E c \in Credentials :
          \/ OpensOuter(c) /\ session' = [session EXCEPT ![h] = Idle("outer")]
          \/ OpensHidden(c) /\ session' = [session EXCEPT ![h] = Idle("hidden")]
    /\ UNCHANGED <<file, shape, fileVars, historyVars>>

(* The VnmContainer is dropped. *)
Close(h) ==
    /\ session[h].task = "idle"
    /\ session' = [session EXCEPT ![h] = Closed]
    /\ UNCHANGED <<file, shape, fileVars, historyVars>>

-----------------------------------------------------------------------------
(* Operations as the writes they make.                                       *)

HeaderWrite(place, header) == [to |-> "header", place |-> place, value |-> header]
SlotWrite(kind, i, slot) == [to |-> "slot", place |-> <<kind, i>>, value |-> slot]
RootWrite(volume, key) == [to |-> "root", place |-> volume, value |-> key]

(* create: where the outer backup goes.  update_slot_counts: where it is,    *)
(* inferred from what the file size leaves modulo the slot size              *)
(* (BackupIsInferred in Layout: the two agree).                              *)
CreatedBackup(sh) == IF sh \in HiddenShapes THEN "end2" ELSE "end"

(* Mutated form of BackupPlace: the tail is not looked at. *)
BackupAtEnd == "end"

BackupPlace == IF shape \in HiddenShapes THEN "end2" ELSE "end"

(* The hidden header is first sealed with k_hidden, then with the key that   *)
(* the password derives; the hidden store keeps k_hidden.                    *)
HiddenHeader(sh) ==
    Header(IF sh = "hidden" THEN "derived" ELSE "none", Counted(1, 0))

HiddenWrites(sh) ==
    LET sealed == HeaderWrite("end", Header("k_hidden", Counted(1, 0)))
    IN IF sh \notin HiddenShapes THEN <<>>
       ELSE IF sh = "hidden long" THEN <<sealed>>
       ELSE <<sealed, HeaderWrite("end", HiddenHeader(sh)), HeaderWrite("second", HiddenHeader(sh)),
              RootWrite("hidden", "k_hidden")>>

OuterWrites(sh) ==
    LET header == Header("outer", Counted(IF sh = "keys only" THEN 0 ELSE 1, 0))
        start  == HeaderWrite("start", header)
        backup == HeaderWrite(CreatedBackup(sh), header)
        root   == RootWrite("outer", "outer")
    IN IF sh = "keys only" THEN <<start, backup, root>>
       ELSE <<start, backup, SlotWrite("password", 0, Slot(Owner, "outer")), root>>

(* "hidden long": the copy into the 512-byte buffer panics. *)
CreateWrites(sh) ==
    IF sh = "hidden long" THEN HiddenWrites(sh) ELSE HiddenWrites(sh) \o OuterWrites(sh)

Task(task, volume, c, alone, ok, writes) ==
    [task |-> task, volume |-> volume, credential |-> c, alone |-> alone, ok |-> ok,
     writes |-> writes]

(* The file is refused if it exists; a new one is filled with random bytes,  *)
(* so that what is no header yet shows some counts too.                      *)
Create(h) ==
    /\ file = "absent"
    /\ \E sh \in Shapes, i \in NoiseCounts :
          /\ shape' = sh
          /\ headers' = [p \in Places |-> Header("none", Counted(i, i))]
          /\ session' = [session EXCEPT ![h] =
                Task("create", "outer", Owner, TRUE, sh # "hidden long", CreateWrites(sh))]
    /\ file' = "partial"
    /\ UNCHANGED <<slots, roots, historyVars>>

(* What every recipient operation reads first. *)
Primary == headers["start"]

(* update_slot_counts: decode_header of what was read at the start fails if  *)
(* that was damaged, or with the hidden volume's key.                        *)
Recounts(h) == Primary.key = "outer" /\ session[h].volume = "outer"

(* Mutated form of HeaderWrites: the backup is left as it was. *)
HeaderWritesPrimary(h, n) ==
    IF Recounts(h) THEN <<HeaderWrite("start", Header("outer", n))>> ELSE <<>>

HeaderWrites(h, n) ==
    IF Recounts(h)
    THEN <<HeaderWrite("start", Header("outer", n)), HeaderWrite(BackupPlace, Header("outer", n))>>
    ELSE <<>>

Begins(h, task, c, alone, writes) ==
    /\ session[h].task = "idle"
    /\ operations < MaxOperations
    /\ Primary.key = "outer" \/ "manage" \in Faults
    /\ session' = [session EXCEPT ![h] =
                      Task(task, session[h].volume, c, alone, Recounts(h), writes)]
    /\ overlapped' = (overlapped \/ \E other \in Handles : Busy(other))
    /\ operations' = operations + 1
    /\ UNCHANGED <<file, shape, fileVars>>

(* Mutated form of HasRoom: off by one. *)
HasRoomForOneMore(kind) == Primary.n[kind] <= MaxSlots

HasRoom(kind) == Primary.n[kind] < MaxSlots

KeyOfVolume(volume) == IF volume = "outer" THEN "outer" ELSE "derived"

(* Mutated form of AddIndex: the slot of the last one added. *)
AddIndexLast(kind) == IF Primary.n[kind] = 0 THEN 0 ELSE Primary.n[kind] - 1

AddIndex(kind) == Primary.n[kind]

(* add_password_recipient, add_key_recipient. *)
AddRecipient(h) ==
    \E c \in Credentials \ granted :
        LET kind == KindOf(c)
        IN /\ session[h].task = "idle"
           /\ HasRoom(kind)
           /\ Begins(h, "add", c, TRUE,
                     <<SlotWrite(kind, AddIndex(kind), Slot(c, KeyOfVolume(session[h].volume)))>>
                     \o HeaderWrites(h, [Primary.n EXCEPT ![kind] = @ + 1]))
           /\ revoked' = revoked \ {c}
           /\ UNCHANGED granted

(* The key slots without the one at j, moved down. *)
Shifted(n, j) ==
    [i \in 1..(n - 1) |-> SlotWrite("key", i - 1, slots[<<"key", IF i <= j THEN i - 1 ELSE i>>])]

(* Mutated form of RemoveWrites: the last slot is not wiped. *)
RemoveWritesNoWipe(n, j) == Shifted(n, j)

RemoveWrites(n, j) == Shifted(n, j) \o <<SlotWrite("key", n - 1, NoiseSlot)>>

(* remove_key_recipient of the key that is in slot j. *)
RemoveKey(h) ==
    \E j \in Indices :
        LET c == slots[<<"key", j>>].credential
            n == Primary.n["key"]
        IN /\ j < n
           /\ session[h].task = "idle"
           /\ session[h].volume = "outer" \/ "hidden manage" \in Faults
           /\ Begins(h, "remove", c, \A i \in Indices \ {j} : slots[<<"key", i>>].credential # c,
                     RemoveWrites(n, j) \o HeaderWrites(h, [Primary.n EXCEPT !["key"] = n - 1]))
           /\ granted' = IF session[h].volume = "outer" THEN granted \ {c} ELSE granted
           /\ UNCHANGED revoked

Applied(write) ==
    /\ headers' = IF write.to = "header" THEN [headers EXCEPT ![write.place] = write.value]
                  ELSE headers
    /\ slots' = IF write.to = "slot" THEN [slots EXCEPT ![write.place] = write.value] ELSE slots
    /\ roots' = IF write.to = "root" THEN [roots EXCEPT ![write.place] = write.value] ELSE roots

Write(h) ==
    /\ Busy(h)
    /\ Len(session[h].writes) > 1
    /\ Applied(Head(session[h].writes))
    /\ session' = [session EXCEPT ![h].writes = Tail(@)]
    /\ UNCHANGED <<file, shape, historyVars>>

(* The last write, and the operation returns; create that panicked has no    *)
(* handle to return.                                                         *)
Return(h) ==
    /\ Busy(h)
    /\ Len(session[h].writes) = 1
    /\ Applied(Head(session[h].writes))
    /\ LET op == session[h]
       IN /\ session' = [session EXCEPT ![h] =
                IF op.task = "create" /\ ~op.ok THEN Closed ELSE Idle(op.volume)]
          /\ file' = IF op.task = "create" /\ op.ok THEN "made" ELSE file
          /\ granted' = IF op.ok /\ (op.task = "add" \/ (op.task = "create" /\ shape # "keys only"))
                        THEN granted \union {op.credential} ELSE granted
          /\ revoked' = IF op.ok /\ op.task = "remove" /\ op.alone
                        THEN revoked \union ({op.credential} \ {Nobody}) ELSE revoked
    /\ UNCHANGED <<shape, overlapped, operations>>

-----------------------------------------------------------------------------
(* The process dies; an Err exit of create leaves the file the same way. *)
Crash(h) ==
    /\ "crash" \in Faults
    /\ Busy(h)
    /\ session' = [session EXCEPT ![h] = Closed]
    /\ UNCHANGED <<file, shape, fileVars, historyVars>>

(* Where create has put a header. *)
HeaderPlaces ==
    {"start", CreatedBackup(shape)} \union IF shape \in HiddenShapes THEN {"second", "end"} ELSE {}

Sound(place) == headers[place].key \in {"outer", "derived"}

DamagedCounts ==
    (IF "sector" \in Faults THEN {Counted(0, 0)} ELSE {})
    \union (IF "bytes" \in Faults THEN [Kinds -> NoiseCounts] ELSE {})

(* One copy of a header goes bad while nobody is writing. *)
Damage ==
    /\ file = "made" /\ shape # "hidden short"
    /\ \A p \in HeaderPlaces : Sound(p)
    /\ \A h \in Handles : ~Busy(h)
    /\ \E p \in HeaderPlaces, n \in DamagedCounts :
          headers' = [headers EXCEPT ![p] = Header("none", n)]
    /\ UNCHANGED <<file, shape, slots, roots, session, historyVars>>

Init ==
    /\ file = "absent"
    /\ shape = "plain"
    /\ headers = [p \in Places |-> Header("none", Counted(0, 0))]
    /\ slots = [place \in Kinds \X Indices |-> NoiseSlot]
    /\ roots = [volume \in Volumes |-> "none"]
    /\ session = [h \in Handles |-> Closed]
    /\ granted = {}
    /\ revoked = {}
    /\ overlapped = FALSE
    /\ operations = 0

Next ==
    \/ \E h \in Handles : \/ Create(h) \/ Open(h) \/ AddRecipient(h) \/ RemoveKey(h)
                          \/ Write(h) \/ Return(h) \/ Close(h) \/ Crash(h)
    \/ Damage

Spec == Init /\ [][Next]_vars

-----------------------------------------------------------------------------
(***************************************************************************)
(* Properties.                                                             *)
(***************************************************************************)

HeaderValues == [key : CryptKeys, n : AllCounts]
SlotValues   == [credential : Credentials \union {Nobody}, key : CryptKeys]

Writes ==
    [to : {"header"}, place : Places, value : HeaderValues]
    \union [to : {"slot"}, place : Kinds \X Indices, value : SlotValues]
    \union [to : {"root"}, place : Volumes, value : CryptKeys]

Sessions ==
    {Closed} \union [task : {"idle"}, volume : Volumes]
    \union [task : {"create", "add"}, volume : Volumes, credential : Credentials,
            alone : BOOLEAN, ok : BOOLEAN, writes : Seq(Writes)]
    \union [task : {"remove"}, volume : Volumes, credential : Credentials \union {Nobody},
            alone : BOOLEAN, ok : BOOLEAN, writes : Seq(Writes)]

TypeOK ==
    /\ file \in {"absent", "partial", "made"}
    /\ shape \in ShapeKinds
    /\ headers \in [Places -> HeaderValues]
    /\ slots \in [Kinds \X Indices -> SlotValues]
    /\ roots \in [Volumes -> CryptKeys]
    /\ session \in [Handles -> Sessions]
    /\ granted \subseteq Credentials /\ revoked \subseteq Credentials
    /\ overlapped \in BOOLEAN
    /\ operations \in 0..MaxOperations

(* A damaged copy whose counts are not both zero passes for a sound one.     *)
PassesForSound == Primary.key # "outer" /\ SomeCount(Primary)

(* One whose counts are passes the question on, first to a hidden header.    *)
CountsStandIn == Primary.key = "outer" \/ (~SomeCount(Primary) /\ shape \notin HiddenShapes)

Reads(c) == OpensOuter(c) /\ roots["outer"] = "outer"

(* From the end of create on, whoever was added and not removed gets in and  *)
(* reads the root: between the writes of an operation on somebody else,      *)
(* after a crash inside one, and from the backup header when the primary is  *)
(* lost in a way that open can see (create, add_key_recipient,               *)
(* remove_key_recipient, update_slot_counts, the fallback of open).  As long *)
(* as no two operations ran at once.                                         *)
GrantedOpens ==
    file = "made" /\ CountsStandIn /\ ~overlapped => \A c \in granted : Reads(c)

(* However the operations of any number of handles interleave and die, the   *)
(* password of create gets in: each of them counts at least one password and *)
(* none writes its slot (update_slot_counts, add_password_recipient).        *)
OwnerOpens ==
    file = "made" /\ shape # "keys only" /\ ~PassesForSound => Reads(Owner)

(* A key whose only slot was removed never gets in again without being added,*)
(* whatever counts a stale or damaged header copy holds: the slot is gone    *)
(* from the whole area (the shift and the wipe of remove_key_recipient).     *)
RevokedStaysOut == ~overlapped => \A c \in revoked : ~Opens(c)

(* Nothing that is done to the outer volume, and no single damaged header,   *)
(* keeps the hidden password from opening: outer rewrites find the place of  *)
(* the outer backup and leave both hidden copies alone (create,              *)
(* update_slot_counts, try_hidden_at).                                       *)
HiddenStays == file = "made" /\ shape = "hidden" => Opens(HiddenPassword)

-----------------------------------------------------------------------------
(* What the documentation says.                                             *)

(* FORMAT.md:706: damage in one place of the file is recovered from, whatever *)
(* it made of the header (the fallback of open).                              *)
DamageIsRecovered == file = "made" => \A c \in granted : Reads(c)

(* FORMAT.md:173-174: the key derived from the hidden password is K_master of *)
(* all the hidden volume's slots; so who opens it reads its root.            *)
HiddenReads ==
    file = "made" /\ OpensHidden(HiddenPassword) => roots["hidden"] = "derived"

=============================================================================
