-------------------------- MODULE ContainerProofs --------------------------
(***************************************************************************)
(* Theorems about Container, for all sets of credentials and handles, every*)
(* number of slots, every choice of shapes and every bound.                *)
(***************************************************************************)
EXTENDS Container, FiniteSetTheorems, TLAPS

-----------------------------------------------------------------------------
(* Types of what the operations are built from.                              *)

LEMMA Bounds ==
    /\ MaxSlots \in Nat /\ MaxSlots >= 1 /\ MaxOperations \in Nat
    /\ NoiseCounts \subseteq 0..MaxSlots
    /\ 0 \in Indices /\ Indices \subseteq Nat
    /\ Owner \in Credentials /\ Owner \in Passwords /\ Nobody \notin Credentials
  BY CredentialsAssumption, BoundsAssumption DEF Indices, Credentials

LEMMA CountedType ==
    ASSUME NEW pw \in 0..MaxSlots, NEW key \in 0..MaxSlots
    PROVE  /\ Counted(pw, key) \in AllCounts
           /\ Counted(pw, key)["password"] = pw /\ Counted(pw, key)["key"] = key
  BY DEF Counted, AllCounts, Kinds

LEMMA HeaderType ==
    ASSUME NEW key \in CryptKeys, NEW n \in AllCounts
    PROVE  Header(key, n) \in HeaderValues /\ Header(key, n).key = key /\ Header(key, n).n = n
  BY DEF Header, HeaderValues

LEMMA SlotType ==
    ASSUME NEW c \in Credentials \union {Nobody}, NEW key \in CryptKeys
    PROVE  Slot(c, key) \in SlotValues /\ Slot(c, key).credential = c /\ Slot(c, key).key = key
  BY DEF Slot, SlotValues

LEMMA NoiseType == NoiseSlot \in SlotValues
  BY DEF NoiseSlot, Slot, SlotValues, CryptKeys

LEMMA WriteType ==
    /\ \A place \in Places, header \in HeaderValues : HeaderWrite(place, header) \in Writes
    /\ \A kind \in Kinds, i \in Indices, slot \in SlotValues : SlotWrite(kind, i, slot) \in Writes
    /\ \A volume \in Volumes, key \in CryptKeys : RootWrite(volume, key) \in Writes
  BY DEF HeaderWrite, SlotWrite, RootWrite, Writes

(* The writes that cannot take the owner's access away: a header counts a    *)
(* password and is the outer volume's where that one's are, the first        *)
(* password slot is the owner's, the outer root is sealed with its key.      *)
SafeWrites(sh) ==
    {w \in Writes :
        /\ w.to = "header" =>
              /\ w.value.n["password"] >= 1
              /\ w.place \in {"start", CreatedBackup(sh)} => w.value.key = "outer"
        /\ w.to = "slot" /\ w.place = <<"password", 0>> => w.value = Slot(Owner, "outer")
        /\ w.to = "root" /\ w.place = "outer" => w.value = "outer"}

LEMMA HeaderWriteSafe ==
    ASSUME NEW sh, NEW place \in Places, NEW header \in HeaderValues, header.n["password"] >= 1,
           place \in {"start", CreatedBackup(sh)} => header.key = "outer"
    PROVE  HeaderWrite(place, header) \in SafeWrites(sh)
  BY WriteType DEF HeaderWrite, SafeWrites

LEMMA SlotWriteSafe ==
    ASSUME NEW sh, NEW kind \in Kinds, NEW i \in Indices, NEW slot \in SlotValues,
           kind = "password" /\ i = 0 => slot = Slot(Owner, "outer")
    PROVE  SlotWrite(kind, i, slot) \in SafeWrites(sh)
  BY WriteType DEF SlotWrite, SafeWrites

LEMMA RootWriteSafe ==
    ASSUME NEW sh, NEW volume \in Volumes, NEW key \in CryptKeys, volume = "outer" => key = "outer"
    PROVE  RootWrite(volume, key) \in SafeWrites(sh)
  BY WriteType DEF RootWrite, SafeWrites

(* Made with a password, so that there is an owner. *)
OwnedShapes == ShapeKinds \ {"keys only"}

LEMMA SafeIsWrite == \A sh : SafeWrites(sh) \subseteq Writes
  BY DEF SafeWrites

-----------------------------------------------------------------------------
(* create.                                                                   *)

LEMMA OneZero ==
    /\ Counted(1, 0) \in AllCounts /\ Counted(1, 0)["password"] >= 1
    /\ Counted(0, 0) \in AllCounts
  <1>1. 0 \in 0..MaxSlots /\ 1 \in 0..MaxSlots
    BY Bounds
  <1>2. Counted(1, 0)["password"] = 1
    BY <1>1, CountedType
  <1> QED
    BY <1>1, <1>2, CountedType

Pending(ws, to, place) == \E i \in 1..Len(ws) : ws[i].to = to /\ ws[i].place = place

LEMMA Concatenated ==
    ASSUME NEW S, NEW s \in Seq(S), NEW t \in Seq(S)
    PROVE  /\ s \o t \in Seq(S) /\ Len(s \o t) = Len(s) + Len(t) /\ Len(s) \in Nat
           /\ \A i \in 1..Len(t) : (s \o t)[Len(s) + i] = t[i]
           /\ t # <<>> => s \o t # <<>>
  OBVIOUS

LEMMA SeqWidens ==
    ASSUME NEW S, NEW T, S \subseteq T, NEW s \in Seq(S)
    PROVE  s \in Seq(T)
  OBVIOUS

LEMMA PendingBehind ==
    ASSUME NEW S, NEW s \in Seq(S), NEW t \in Seq(S), NEW to, NEW place, Pending(t, to, place)
    PROVE  Pending(s \o t, to, place)
  <1>1. PICK i \in 1..Len(t) : t[i].to = to /\ t[i].place = place
    BY DEF Pending
  <1>2. Len(t) \in Nat
    OBVIOUS
  <1>3. Len(s) + i \in 1..Len(s \o t) /\ (s \o t)[Len(s) + i] = t[i]
    BY <1>2, Concatenated
  <1> QED
    BY <1>1, <1>3 DEF Pending

LEMMA Tuples ==
    ASSUME NEW S, NEW a \in S, NEW b \in S, NEW c \in S, NEW d \in S
    PROVE  <<>> \in Seq(S) /\ <<a>> \in Seq(S) /\ <<a, b, c>> \in Seq(S) /\ <<a, b, c, d>> \in Seq(S)
  OBVIOUS

LEMMA TupleParts ==
    ASSUME NEW a, NEW b, NEW c, NEW d
    PROVE  /\ Len(<<a, b, c, d>>) = 4 /\ <<a, b, c, d>> # <<>> /\ <<a, b, c>> # <<>> /\ <<a>> # <<>>
           /\ <<a, b, c, d>>[1] = a /\ <<a, b, c, d>>[3] = c /\ <<a, b, c, d>>[4] = d
  OBVIOUS

LEMMA PendingInTuple ==
    ASSUME NEW a, NEW b, NEW c, NEW d
    PROVE  /\ Pending(<<a, b, c, d>>, a.to, a.place)
           /\ Pending(<<a, b, c, d>>, c.to, c.place)
           /\ Pending(<<a, b, c, d>>, d.to, d.place)
  <1>1. 1 \in 1..Len(<<a, b, c, d>>) /\ 3 \in 1..Len(<<a, b, c, d>>) /\ 4 \in 1..Len(<<a, b, c, d>>)
    BY TupleParts
  <1> QED
    BY <1>1, TupleParts DEF Pending

LEMMA HiddenWritesSafe ==
    ASSUME NEW sh \in ShapeKinds
    PROVE  HiddenWrites(sh) \in Seq(SafeWrites(sh))
  <1> DEFINE sealed == HeaderWrite("end", Header("k_hidden", Counted(1, 0)))
             first == HeaderWrite("end", HiddenHeader(sh))
             second == HeaderWrite("second", HiddenHeader(sh))
             root == RootWrite("hidden", "k_hidden")
  <1>1. CASE sh \notin HiddenShapes
    BY <1>1 DEF HiddenWrites
  <1>2. CASE sh \in HiddenShapes
    <2>1. CreatedBackup(sh) = "end2"
      BY <1>2 DEF CreatedBackup
    <2>2. Header("k_hidden", Counted(1, 0)) \in HeaderValues
          /\ Header("k_hidden", Counted(1, 0)).n["password"] >= 1
      BY OneZero, HeaderType DEF CryptKeys
    <2>3. HiddenHeader(sh) \in HeaderValues /\ HiddenHeader(sh).n["password"] >= 1
      BY OneZero, HeaderType DEF HiddenHeader, CryptKeys
    <2>4. sealed \in SafeWrites(sh)
      BY <2>1, <2>2, HeaderWriteSafe DEF Places
    <2>5. first \in SafeWrites(sh)
      BY <2>1, <2>3, HeaderWriteSafe DEF Places
    <2>6. second \in SafeWrites(sh)
      BY <2>1, <2>3, HeaderWriteSafe DEF Places
    <2>7. root \in SafeWrites(sh)
      BY RootWriteSafe DEF Volumes, CryptKeys
    <2>8. <<sealed>> \in Seq(SafeWrites(sh)) /\ <<sealed, first, second, root>> \in Seq(SafeWrites(sh))
      BY <2>4, <2>5, <2>6, <2>7, Tuples
    <2> QED
      BY <1>2, <2>8 DEF HiddenWrites
  <1> QED
    BY <1>1, <1>2

(* OuterWrites holds the owner's header, slot and root. *)
LEMMA OuterWritesSafe ==
    ASSUME NEW sh \in OwnedShapes
    PROVE  /\ OuterWrites(sh) \in Seq(SafeWrites(sh)) /\ OuterWrites(sh) # <<>>
           /\ Pending(OuterWrites(sh), "header", "start")
           /\ Pending(OuterWrites(sh), "slot", <<"password", 0>>)
           /\ Pending(OuterWrites(sh), "root", "outer")
  <1> DEFINE start == HeaderWrite("start", Header("outer", Counted(1, 0)))
             backup == HeaderWrite(CreatedBackup(sh), Header("outer", Counted(1, 0)))
             slot == SlotWrite("password", 0, Slot(Owner, "outer"))
             root == RootWrite("outer", "outer")
             all == <<start, backup, slot, root>>
  <1>1. /\ Header("outer", Counted(1, 0)) \in HeaderValues
        /\ Header("outer", Counted(1, 0)).n["password"] >= 1
        /\ Header("outer", Counted(1, 0)).key = "outer"
    <2> HIDE DEF start, backup, slot, root, all
    <2>1. "outer" \in CryptKeys
      BY DEF CryptKeys
    <2>2. /\ Header("outer", Counted(1, 0)) \in HeaderValues
          /\ Header("outer", Counted(1, 0)).key = "outer"
          /\ Header("outer", Counted(1, 0)).n = Counted(1, 0)
      BY <2>1, OneZero, HeaderType
    <2>3. Counted(1, 0)["password"] >= 1
      BY OneZero
    <2> QED
      BY <2>2, <2>3
  <1>2. CreatedBackup(sh) \in Places /\ "start" \in Places
    BY DEF CreatedBackup, Places
  <1>3. start \in SafeWrites(sh)
    BY <1>1, <1>2, HeaderWriteSafe
  <1>4. backup \in SafeWrites(sh)
    BY <1>1, <1>2, HeaderWriteSafe
  <1>5. slot \in SafeWrites(sh)
    BY Bounds, SlotType, SlotWriteSafe DEF Kinds, CryptKeys
  <1>6. root \in SafeWrites(sh)
    BY RootWriteSafe DEF Volumes, CryptKeys
  <1>7. OuterWrites(sh) = all
    BY DEF OuterWrites, OwnedShapes
  <1>8. start.to = "header" /\ start.place = "start" /\ slot.to = "slot"
        /\ slot.place = <<"password", 0>> /\ root.to = "root" /\ root.place = "outer"
    BY DEF HeaderWrite, SlotWrite, RootWrite
  <1>9. all \in Seq(SafeWrites(sh))
    BY <1>3, <1>4, <1>5, <1>6, Tuples
  <1> HIDE DEF start, backup, slot, root
  <1>10. all # <<>>
    BY TupleParts
  <1>11. /\ Pending(all, start.to, start.place) /\ Pending(all, slot.to, slot.place)
         /\ Pending(all, root.to, root.place)
    BY PendingInTuple
  <1> HIDE DEF all
  <1> QED
    BY <1>7, <1>8, <1>9, <1>10, <1>11

(* The keys-only header counts nobody: its writes are typed, not safe. *)
LEMMA KeysOnlyWritesType ==
    CreateWrites("keys only") \in Seq(Writes) /\ CreateWrites("keys only") # <<>>
  <1> DEFINE header == Header("outer", Counted(0, 0))
             start == HeaderWrite("start", header)
             backup == HeaderWrite("end", header)
             root == RootWrite("outer", "outer")
             all == <<start, backup, root>>
  <1>1. header \in HeaderValues
    BY OneZero, HeaderType DEF CryptKeys
  <1>2. start \in Writes /\ backup \in Writes /\ root \in Writes
    BY <1>1, WriteType DEF Places, Volumes, CryptKeys
  <1>3. HiddenWrites("keys only") = <<>> /\ OuterWrites("keys only") = all
    BY DEF HiddenWrites, OuterWrites, HiddenShapes, CreatedBackup
  <1>4. <<>> \in Seq(Writes) /\ all \in Seq(Writes)
    BY <1>2, Tuples
  <1>5. CreateWrites("keys only") = <<>> \o all
    BY <1>3 DEF CreateWrites
  <1> HIDE DEF start, backup, root
  <1>6. all # <<>>
    BY TupleParts
  <1> HIDE DEF all
  <1> QED
    BY <1>4, <1>5, <1>6, Concatenated

LEMMA CreateWritesSafe ==
    ASSUME NEW sh \in OwnedShapes
    PROVE  /\ CreateWrites(sh) \in Seq(SafeWrites(sh)) /\ CreateWrites(sh) # <<>>
           /\ sh # "hidden long" =>
                 /\ Pending(CreateWrites(sh), "header", "start")
                 /\ Pending(CreateWrites(sh), "slot", <<"password", 0>>)
                 /\ Pending(CreateWrites(sh), "root", "outer")
  <1>1. HiddenWrites(sh) \in Seq(SafeWrites(sh))
    BY HiddenWritesSafe DEF OwnedShapes
  <1>2. CASE sh = "hidden long"
    <2>1. HiddenWrites(sh) # <<>>
      BY <1>2, TupleParts DEF HiddenWrites, HiddenShapes
    <2> QED
      BY <1>1, <1>2, <2>1 DEF CreateWrites
  <1>3. CASE sh # "hidden long"
    <2>1. CreateWrites(sh) = HiddenWrites(sh) \o OuterWrites(sh)
      BY <1>3 DEF CreateWrites
    <2>2. OuterWrites(sh) \in Seq(SafeWrites(sh)) /\ OuterWrites(sh) # <<>>
      BY OuterWritesSafe
    <2>3. CreateWrites(sh) \in Seq(SafeWrites(sh)) /\ CreateWrites(sh) # <<>>
      BY <1>1, <2>1, <2>2, Concatenated
    <2>4. Pending(CreateWrites(sh), "header", "start")
      BY <1>1, <2>1, <2>2, OuterWritesSafe, PendingBehind
    <2>5. Pending(CreateWrites(sh), "slot", <<"password", 0>>)
      BY <1>1, <2>1, <2>2, OuterWritesSafe, PendingBehind
    <2>6. Pending(CreateWrites(sh), "root", "outer")
      BY <1>1, <2>1, <2>2, OuterWritesSafe, PendingBehind
    <2> QED
      BY <2>3, <2>4, <2>5, <2>6
  <1> QED
    BY <1>2, <1>3

-----------------------------------------------------------------------------
(* What the other operations write.                                          *)

FilesTyped ==
    /\ headers \in [Places -> HeaderValues]
    /\ slots \in [Kinds \X Indices -> SlotValues]
    /\ roots \in [Volumes -> CryptKeys]

LEMMA AppliedTyped ==
    ASSUME FilesTyped, NEW w \in Writes, Applied(w)
    PROVE  FilesTyped'
  <1>1. CASE w \in [to : {"header"}, place : Places, value : HeaderValues]
    BY <1>1 DEF FilesTyped, Applied
  <1>2. CASE w \in [to : {"slot"}, place : Kinds \X Indices, value : SlotValues]
    BY <1>2 DEF FilesTyped, Applied
  <1>3. CASE w \in [to : {"root"}, place : Volumes, value : CryptKeys]
    BY <1>3 DEF FilesTyped, Applied
  <1> QED
    BY <1>1, <1>2, <1>3 DEF Writes

LEMMA HeadTail ==
    ASSUME NEW S, NEW s \in Seq(S), Len(s) >= 1
    PROVE  Head(s) \in S /\ Tail(s) \in Seq(S)
  <1>1. s # <<>>
    OBVIOUS
  <1> QED
    BY <1>1

LEMMA HeaderWritesType ==
    ASSUME NEW h, NEW n \in AllCounts
    PROVE  HeaderWrites(h, n) \in Seq(Writes)
  <1>1. Header("outer", n) \in HeaderValues
    BY HeaderType DEF CryptKeys
  <1>2. HeaderWrite("start", Header("outer", n)) \in Writes
        /\ HeaderWrite(BackupPlace, Header("outer", n)) \in Writes
    BY <1>1, WriteType DEF BackupPlace, Places
  <1> QED
    BY <1>2 DEF HeaderWrites

LEMMA RemoveWritesSafe ==
    ASSUME FilesTyped, NEW n \in 1..MaxSlots, NEW j \in 0..(n - 1)
    PROVE  RemoveWrites(n, j) \in Seq(SafeWrites(shape))
  <1>1. \A i \in 1..(n - 1) : Shifted(n, j)[i] \in SafeWrites(shape)
    <2> TAKE i \in 1..(n - 1)
    <2>1. "key" \in Kinds /\ i - 1 \in Indices /\ i \in Indices
      BY Bounds DEF Kinds, Indices
    <2>2. slots[<<"key", IF i <= j THEN i - 1 ELSE i>>] \in SlotValues
      BY <2>1 DEF FilesTyped
    <2>3. Shifted(n, j)[i] = SlotWrite("key", i - 1, slots[<<"key", IF i <= j THEN i - 1 ELSE i>>])
      BY DEF Shifted
    <2> QED
      BY <2>1, <2>2, <2>3, SlotWriteSafe
  <1>2. Shifted(n, j) \in Seq(SafeWrites(shape))
    <2>1. Shifted(n, j) \in [1..(n - 1) -> SafeWrites(shape)]
      BY <1>1 DEF Shifted
    <2>2. n - 1 \in Nat
      BY Bounds
    <2> HIDE DEF Shifted
    <2> QED
      BY <2>1, <2>2
  <1>3. SlotWrite("key", n - 1, NoiseSlot) \in SafeWrites(shape)
    <2>1. "key" \in Kinds /\ n - 1 \in Indices
      BY Bounds DEF Kinds, Indices
    <2> QED
      BY <2>1, NoiseType, SlotWriteSafe
  <1>4. <<SlotWrite("key", n - 1, NoiseSlot)>> \in Seq(SafeWrites(shape))
    BY <1>3
  <1> QED
    BY <1>2, <1>4, Concatenated DEF RemoveWrites

LEMMA RemoveWritesType ==
    ASSUME FilesTyped, NEW n \in 1..MaxSlots, NEW j \in 0..(n - 1)
    PROVE  RemoveWrites(n, j) \in Seq(Writes)
  <1>1. RemoveWrites(n, j) \in Seq(SafeWrites(shape)) /\ SafeWrites(shape) \subseteq Writes
    BY RemoveWritesSafe, SafeIsWrite
  <1> QED
    BY <1>1, SeqWidens

-----------------------------------------------------------------------------
(* The type invariant.                                                       *)

HistoryTyped ==
    /\ granted \subseteq Credentials /\ revoked \subseteq Credentials
    /\ overlapped \in BOOLEAN
    /\ operations \in 0..MaxOperations

LEMMA TypeParts ==
    TypeOK <=> /\ file \in {"absent", "partial", "made"}
               /\ shape \in ShapeKinds
               /\ FilesTyped
               /\ session \in [Handles -> Sessions]
               /\ HistoryTyped
  BY DEF TypeOK, FilesTyped, HistoryTyped

(* What an operation under way is, field by field. *)
LEMMA BusyType ==
    ASSUME TypeOK, NEW h \in Handles, Busy(h)
    PROVE  /\ session[h].volume \in Volumes /\ session[h].alone \in BOOLEAN
           /\ session[h].ok \in BOOLEAN /\ session[h].writes \in Seq(Writes)
           /\ session[h].credential \in Credentials \union {Nobody}
           /\ session[h].task # "remove" => session[h].credential \in Credentials
           /\ \A ws \in Seq(Writes) :
                 /\ [session[h] EXCEPT !.writes = ws] \in Sessions
                 /\ [session[h] EXCEPT !.writes = ws].writes = ws
                 /\ [session[h] EXCEPT !.writes = ws].task = session[h].task
                 /\ [session[h] EXCEPT !.writes = ws].ok = session[h].ok
  <1>1. session[h] \in Sessions /\ session[h].task \in {"create", "add", "remove"}
    BY DEF TypeOK, Busy
  <1>2. CASE session[h] \in [task : {"create", "add"}, volume : Volumes, credential : Credentials,
                             alone : BOOLEAN, ok : BOOLEAN, writes : Seq(Writes)]
    BY <1>2 DEF Sessions
  <1>3. CASE session[h] \in [task : {"remove"}, volume : Volumes,
                             credential : Credentials \union {Nobody},
                             alone : BOOLEAN, ok : BOOLEAN, writes : Seq(Writes)]
    BY <1>3 DEF Sessions
  <1> QED
    BY <1>1, <1>2, <1>3 DEF Sessions, Closed

LEMMA IdleType ==
    ASSUME TypeOK, NEW h \in Handles, session[h].task = "idle"
    PROVE  session[h].volume \in Volumes
  BY DEF TypeOK, Sessions, Closed

LEMMA TaskType ==
    ASSUME NEW task \in {"create", "add", "remove"}, NEW volume \in Volumes,
           NEW c \in Credentials \union {Nobody}, task # "remove" => c \in Credentials,
           NEW alone \in BOOLEAN, NEW ok \in BOOLEAN, NEW ws \in Seq(Writes)
    PROVE  Task(task, volume, c, alone, ok, ws) \in Sessions
  BY DEF Task, Sessions

LEMMA RestingType ==
    Closed \in Sessions /\ \A volume \in Volumes : Idle(volume) \in Sessions
  BY DEF Closed, Idle, Sessions

LEMMA BeginsTyped ==
    ASSUME TypeOK, NEW h \in Handles, NEW task \in {"add", "remove"},
           NEW c \in Credentials \union {Nobody}, task # "remove" => c \in Credentials,
           NEW alone \in BOOLEAN, NEW ws \in Seq(Writes),
           Begins(h, task, c, alone, ws),
           granted' \subseteq Credentials, revoked' \subseteq Credentials
    PROVE  TypeOK'
  <1>1. session[h].volume \in Volumes /\ Recounts(h) \in BOOLEAN
    BY IdleType DEF Begins, Recounts
  <1>2. Task(task, session[h].volume, c, alone, Recounts(h), ws) \in Sessions
    BY <1>1, TaskType
  <1>3. session' \in [Handles -> Sessions]
    BY <1>2 DEF TypeOK, Begins
  <1>4. overlapped' \in BOOLEAN
    BY DEF TypeOK, Begins
  <1>5. operations' \in 0..MaxOperations
    BY Bounds DEF TypeOK, Begins
  <1> QED
    BY <1>3, <1>4, <1>5 DEF TypeOK, Begins, fileVars

LEMMA CreateTyped ==
    ASSUME TypeOK, NEW h \in Handles, Create(h)
    PROVE  TypeOK'
  <1>1. PICK sh \in Shapes, i \in NoiseCounts :
            /\ shape' = sh
            /\ headers' = [p \in Places |-> Header("none", Counted(i, i))]
            /\ session' = [session EXCEPT ![h] =
                  Task("create", "outer", Owner, TRUE, sh # "hidden long", CreateWrites(sh))]
    BY DEF Create
  <1>2. sh \in ShapeKinds
    BY BoundsAssumption
  <1>3. CreateWrites(sh) \in Seq(Writes)
    <2>1. CASE sh = "keys only"
      BY <2>1, KeysOnlyWritesType
    <2>2. CASE sh # "keys only"
      <3>1. CreateWrites(sh) \in Seq(SafeWrites(sh))
        BY <1>2, <2>2, CreateWritesSafe DEF OwnedShapes
      <3>2. SafeWrites(sh) \subseteq Writes
        BY SafeIsWrite
      <3> QED
        BY <3>1, <3>2, SeqWidens
    <2> QED
      BY <2>1, <2>2
  <1>4. Task("create", "outer", Owner, TRUE, sh # "hidden long", CreateWrites(sh)) \in Sessions
    BY <1>3, Bounds, TaskType DEF Volumes
  <1>5. session' \in [Handles -> Sessions]
    BY <1>1, <1>4 DEF TypeOK
  <1>6. Header("none", Counted(i, i)) \in HeaderValues
    BY Bounds, CountedType, HeaderType DEF CryptKeys
  <1>7. headers' \in [Places -> HeaderValues]
    BY <1>1, <1>6
  <1> QED
    BY <1>1, <1>2, <1>5, <1>7 DEF TypeOK, Create, historyVars

LEMMA AddTyped ==
    ASSUME TypeOK, NEW h \in Handles, AddRecipient(h)
    PROVE  TypeOK'
  <1> DEFINE kind(c) == KindOf(c)
             n(c) == [Primary.n EXCEPT ![KindOf(c)] = @ + 1]
             slot(c) == SlotWrite(KindOf(c), AddIndex(KindOf(c)),
                                  Slot(c, KeyOfVolume(session[h].volume)))
  <1>1. PICK c \in Credentials \ granted :
            /\ session[h].task = "idle"
            /\ HasRoom(KindOf(c))
            /\ Begins(h, "add", c, TRUE, <<slot(c)>> \o HeaderWrites(h, n(c)))
            /\ revoked' = revoked \ {c}
            /\ UNCHANGED granted
    BY DEF AddRecipient
  <1>2. Primary.n \in AllCounts /\ KindOf(c) \in Kinds
    BY DEF TypeOK, Primary, HeaderValues, Places, KindOf, Kinds
  <1>3. n(c) \in AllCounts /\ AddIndex(KindOf(c)) \in Indices
    BY <1>1, <1>2, Bounds DEF AllCounts, HasRoom, AddIndex, Indices
  <1>4. Slot(c, KeyOfVolume(session[h].volume)) \in SlotValues
    BY SlotType DEF KeyOfVolume, CryptKeys
  <1>5. slot(c) \in Writes
    BY <1>2, <1>3, <1>4, WriteType
  <1> HIDE DEF slot, n
  <1>6. <<slot(c)>> \in Seq(Writes) /\ HeaderWrites(h, n(c)) \in Seq(Writes)
    BY <1>3, <1>5, HeaderWritesType
  <1>7. <<slot(c)>> \o HeaderWrites(h, n(c)) \in Seq(Writes)
    BY <1>6, Concatenated
  <1>8. granted' \subseteq Credentials /\ revoked' \subseteq Credentials
    BY <1>1 DEF TypeOK
  <1> QED
    BY <1>1, <1>7, <1>8, BeginsTyped

LEMMA RemoveTyped ==
    ASSUME TypeOK, NEW h \in Handles, RemoveKey(h)
    PROVE  TypeOK'
  <1> DEFINE c(j) == slots[<<"key", j>>].credential
             n == Primary.n["key"]
             alone(j) == \A i \in Indices \ {j} : slots[<<"key", i>>].credential # c(j)
             counts == [Primary.n EXCEPT !["key"] = n - 1]
             ws(j) == RemoveWrites(n, j) \o HeaderWrites(h, counts)
  <1>1. PICK j \in Indices :
            /\ j < n
            /\ Begins(h, "remove", c(j), alone(j), ws(j))
            /\ granted' = IF session[h].volume = "outer" THEN granted \ {c(j)} ELSE granted
            /\ UNCHANGED revoked
    BY DEF RemoveKey
  <1>2. Primary.n \in AllCounts /\ "key" \in Kinds
    BY DEF TypeOK, Primary, HeaderValues, Places, Kinds
  <1>3. n \in 1..MaxSlots /\ j \in 0..(n - 1)
    BY <1>1, <1>2, Bounds DEF AllCounts
  <1>4. counts \in AllCounts
    BY <1>2, <1>3, Bounds DEF AllCounts
  <1>5. c(j) \in Credentials \union {Nobody}
    BY <1>2 DEF TypeOK, SlotValues
  <1> HIDE DEF c, n, counts
  <1>6. RemoveWrites(n, j) \in Seq(Writes)
    BY <1>3, RemoveWritesType, TypeParts
  <1>7. ws(j) \in Seq(Writes)
    BY <1>4, <1>6, HeaderWritesType, Concatenated
  <1>8. alone(j) \in BOOLEAN
    OBVIOUS
  <1> HIDE DEF alone, ws
  <1>9. granted' \subseteq Credentials /\ revoked' \subseteq Credentials
    BY <1>1 DEF TypeOK
  <1> QED
    BY <1>1, <1>5, <1>7, <1>8, <1>9, BeginsTyped

LEMMA WriteTyped ==
    ASSUME TypeOK, NEW h \in Handles, Write(h)
    PROVE  TypeOK'
  <1>1. session[h].writes \in Seq(Writes) /\ Len(session[h].writes) > 1
    BY BusyType DEF Write
  <1>2. Head(session[h].writes) \in Writes /\ Tail(session[h].writes) \in Seq(Writes)
    BY <1>1, HeadTail
  <1>3. FilesTyped'
    BY <1>2, AppliedTyped, TypeParts DEF Write
  <1>4. [session[h] EXCEPT !.writes = Tail(session[h].writes)] \in Sessions
    BY <1>2, BusyType DEF Write
  <1>5. session' \in [Handles -> Sessions]
    BY <1>4 DEF TypeOK, Write
  <1> QED
    BY <1>3, <1>5 DEF TypeOK, FilesTyped, Write, historyVars

LEMMA ReturnTyped ==
    ASSUME TypeOK, NEW h \in Handles, Return(h)
    PROVE  TypeOK'
  <1>1. /\ session[h].writes \in Seq(Writes) /\ Len(session[h].writes) >= 1
        /\ session[h].volume \in Volumes
        /\ session[h].credential \in Credentials \union {Nobody}
        /\ session[h].task # "remove" => session[h].credential \in Credentials
    <2>1. Busy(h) /\ Len(session[h].writes) = 1
      BY DEF Return
    <2>2. /\ session[h].writes \in Seq(Writes) /\ session[h].volume \in Volumes
          /\ session[h].credential \in Credentials \union {Nobody}
          /\ session[h].task # "remove" => session[h].credential \in Credentials
      BY <2>1, BusyType
    <2> QED
      BY <2>1, <2>2
  <1>2. Head(session[h].writes) \in Writes
    BY <1>1, HeadTail
  <1>3. FilesTyped'
    BY <1>2, AppliedTyped, TypeParts DEF Return
  <1>4. session' \in [Handles -> Sessions]
    BY <1>1, RestingType DEF TypeOK, Return
  <1>5. file' \in {"absent", "partial", "made"}
    BY DEF TypeOK, Return
  <1>6. granted' \subseteq Credentials
    BY <1>1 DEF TypeOK, Return
  <1>7. revoked' \subseteq Credentials
    BY <1>1 DEF TypeOK, Return
  <1> QED
    BY <1>3, <1>4, <1>5, <1>6, <1>7 DEF TypeOK, FilesTyped, Return

LEMMA DamageTyped ==
    ASSUME TypeOK, Damage
    PROVE  TypeOK'
  <1>1. PICK p \in HeaderPlaces, n \in DamagedCounts :
            headers' = [headers EXCEPT ![p] = Header("none", n)]
    BY DEF Damage
  <1>2. n \in AllCounts
    <2>1. [Kinds -> NoiseCounts] \subseteq AllCounts
      BY Bounds DEF AllCounts
    <2> QED
      BY <2>1, OneZero DEF DamagedCounts
  <1>3. Header("none", n) \in HeaderValues
    BY <1>2, HeaderType DEF CryptKeys
  <1> QED
    BY <1>1, <1>3 DEF TypeOK, Damage, historyVars

(* Every variable keeps its type: what is written is a header copy, a slot   *)
(* inside the recipient area, or a root, and no count leaves 0..MaxSlots     *)
(* (the room test of add_key_recipient, the index test of                    *)
(* remove_key_recipient).                                                    *)
THEOREM TypeCorrect == Spec => []TypeOK
  <1>1. Init => TypeOK
    <2> SUFFICES ASSUME Init PROVE TypeOK
      OBVIOUS
    <2>1. Header("none", Counted(0, 0)) \in HeaderValues
      BY OneZero, HeaderType DEF CryptKeys
    <2>2. headers \in [Places -> HeaderValues]
      BY <2>1 DEF Init
    <2>3. slots \in [Kinds \X Indices -> SlotValues]
      BY NoiseType DEF Init
    <2>4. roots \in [Volumes -> CryptKeys]
      BY DEF Init, CryptKeys
    <2>5. session \in [Handles -> Sessions]
      BY RestingType DEF Init
    <2>6. shape \in ShapeKinds /\ operations \in 0..MaxOperations
      BY Bounds DEF Init, ShapeKinds
    <2> QED
      BY <2>2, <2>3, <2>4, <2>5, <2>6 DEF Init, TypeOK
  <1>2. TypeOK /\ [Next]_vars => TypeOK'
    <2> SUFFICES ASSUME TypeOK, [Next]_vars PROVE TypeOK'
      OBVIOUS
    <2>1. CASE UNCHANGED vars
      BY <2>1 DEF TypeOK, vars, fileVars, historyVars
    <2>2. ASSUME NEW h \in Handles, Create(h) PROVE TypeOK'
      BY <2>2, CreateTyped
    <2>3. ASSUME NEW h \in Handles, Open(h) PROVE TypeOK'
      <3>1. session' \in [Handles -> Sessions]
        BY <2>3, RestingType DEF Open, TypeOK, Volumes
      <3> QED
        BY <2>3, <3>1 DEF Open, TypeOK, fileVars, historyVars
    <2>4. ASSUME NEW h \in Handles, AddRecipient(h) PROVE TypeOK'
      BY <2>4, AddTyped
    <2>5. ASSUME NEW h \in Handles, RemoveKey(h) PROVE TypeOK'
      BY <2>5, RemoveTyped
    <2>6. ASSUME NEW h \in Handles, Write(h) PROVE TypeOK'
      BY <2>6, WriteTyped
    <2>7. ASSUME NEW h \in Handles, Return(h) PROVE TypeOK'
      BY <2>7, ReturnTyped
    <2>8. ASSUME NEW h \in Handles, Close(h) \/ Crash(h) PROVE TypeOK'
      BY <2>8, RestingType DEF Close, Crash, TypeOK, fileVars, historyVars
    <2>9. CASE Damage
      BY <2>9, DamageTyped
    <2> QED
      BY <2>1, <2>2, <2>3, <2>4, <2>5, <2>6, <2>7, <2>8, <2>9 DEF Next
  <1> QED
    BY <1>1, <1>2, PTL DEF Spec

-----------------------------------------------------------------------------
(* The owner's access, as an inductive invariant.                            *)

OwnerSlot == slots[<<"password", 0>>] = Slot(Owner, "outer")
OuterRoot == roots["outer"] = "outer"

(* The primary header opens, or the backup does and the copy that the counts *)
(* fall back on first counts a password.                                     *)
HeaderServes ==
    \/ headers["start"].key = "outer"
    \/ /\ headers[CreatedBackup(shape)].key = "outer"
       /\ shape \in HiddenShapes => headers["end"].n["password"] >= 1

(* While create runs, what is not there yet is still to be written. *)
Underway(h) ==
    /\ OwnerSlot \/ Pending(session[h].writes, "slot", <<"password", 0>>)
    /\ OuterRoot \/ Pending(session[h].writes, "root", "outer")
    /\ headers["start"].key = "outer" \/ Pending(session[h].writes, "header", "start")

HeadersSafe ==
    /\ \A p \in Places : headers[p].key # "none" => headers[p].n["password"] >= 1
    /\ \A p \in {"start", CreatedBackup(shape)} : headers[p].key \in {"none", "outer"}

TasksSafe ==
    \A h \in Handles :
        /\ Busy(h) => session[h].writes \in Seq(SafeWrites(shape))
        /\ session[h].task = "create" /\ session[h].ok => Underway(h)

OwnerKept ==
    /\ file = "absent" => \A h \in Handles : session[h] = Closed
    /\ shape \in OwnedShapes =>
          /\ HeadersSafe
          /\ TasksSafe
          /\ file = "made" => OwnerSlot /\ OuterRoot /\ HeaderServes

LEMMA PendingStep ==
    ASSUME NEW S, NEW ws \in Seq(S), Len(ws) >= 1, NEW to, NEW place, Pending(ws, to, place)
    PROVE  \/ Head(ws).to = to /\ Head(ws).place = place
           \/ Len(ws) > 1 /\ Pending(Tail(ws), to, place)
  <1>1. PICK i \in 1..Len(ws) : ws[i].to = to /\ ws[i].place = place
    BY DEF Pending
  <1>2. CASE i = 1
    BY <1>1, <1>2
  <1>3. CASE i # 1
    <2>1. ws # <<>> /\ Len(ws) \in Nat /\ i > 1
      BY <1>3
    <2>2. Len(Tail(ws)) = Len(ws) - 1 /\ i - 1 \in 1..Len(Tail(ws)) /\ Tail(ws)[i - 1] = ws[i]
      BY <2>1
    <2> QED
      BY <1>1, <2>1, <2>2 DEF Pending
  <1> QED
    BY <1>2, <1>3

LEMMA BackupPlaces ==
    /\ BackupPlace = CreatedBackup(shape) /\ CreatedBackup(shape) \in Places
    /\ CreatedBackup(shape) # "start"
    /\ shape \notin HiddenShapes => CreatedBackup(shape) = "end"
  BY DEF BackupPlace, CreatedBackup, Places

(* What no write of anybody takes back. *)
Kept ==
    /\ OwnerSlot => OwnerSlot'
    /\ OuterRoot => OuterRoot'
    /\ headers["start"].key = "outer" => headers'["start"].key = "outer"

LEMMA AppliedSafe ==
    ASSUME FilesTyped, HeadersSafe, NEW w \in SafeWrites(shape), Applied(w), UNCHANGED shape
    PROVE  /\ HeadersSafe' /\ Kept /\ (HeaderServes => HeaderServes')
           /\ w.to = "slot" /\ w.place = <<"password", 0>> => OwnerSlot'
           /\ w.to = "root" /\ w.place = "outer" => OuterRoot'
           /\ w.to = "header" /\ w.place = "start" => headers'["start"].key = "outer"
  <1>1. w \in Writes /\ "start" \in Places /\ "end" \in Places
    BY DEF SafeWrites, Places
  <1>2. CASE w.to = "header"
    <2>1. /\ w.place \in Places /\ w.value.n["password"] >= 1
          /\ w.place \in {"start", CreatedBackup(shape)} => w.value.key = "outer"
      BY <1>1, <1>2 DEF Writes, SafeWrites
    <2>2. headers' = [headers EXCEPT ![w.place] = w.value] /\ slots' = slots /\ roots' = roots
      BY <1>2 DEF Applied
    <2>3. HeadersSafe'
      BY <2>1, <2>2, BackupPlaces, <1>1 DEF HeadersSafe, FilesTyped
    <2>4. Kept /\ (w.place = "start" => headers'["start"].key = "outer")
      BY <2>1, <2>2, <1>1 DEF Kept, OwnerSlot, OuterRoot, FilesTyped
    <2>5. HeaderServes => HeaderServes'
      BY <2>1, <2>2, <1>1, BackupPlaces DEF HeaderServes, FilesTyped
    <2> QED
      BY <1>2, <2>3, <2>4, <2>5
  <1>3. CASE w.to = "slot"
    <2>1. w.place \in Kinds \X Indices /\ (w.place = <<"password", 0>> => w.value = Slot(Owner, "outer"))
      BY <1>1, <1>3 DEF Writes, SafeWrites
    <2>2. headers' = headers /\ slots' = [slots EXCEPT ![w.place] = w.value] /\ roots' = roots
      BY <1>3 DEF Applied
    <2>3. (OwnerSlot => OwnerSlot') /\ (w.place = <<"password", 0>> => OwnerSlot')
      BY <2>1, <2>2 DEF OwnerSlot, FilesTyped
    <2> QED
      BY <1>3, <2>2, <2>3 DEF HeadersSafe, HeaderServes, Kept, OuterRoot
  <1>4. CASE w.to = "root"
    <2>1. w.place \in Volumes /\ (w.place = "outer" => w.value = "outer")
      BY <1>1, <1>4 DEF Writes, SafeWrites
    <2>2. headers' = headers /\ slots' = slots /\ roots' = [roots EXCEPT ![w.place] = w.value]
      BY <1>4 DEF Applied
    <2>3. (OuterRoot => OuterRoot') /\ (w.place = "outer" => OuterRoot')
      BY <2>1, <2>2 DEF OuterRoot, FilesTyped
    <2> QED
      BY <1>4, <2>2, <2>3 DEF HeadersSafe, HeaderServes, Kept, OwnerSlot
  <1> QED
    BY <1>1, <1>2, <1>3, <1>4 DEF Writes

(* When h's session changes and the rest of what is written is kept. *)
LEMMA TasksStep ==
    ASSUME TypeOK, TasksSafe, NEW h \in Handles, NEW new, Kept, UNCHANGED shape,
           session' = [session EXCEPT ![h] = new],
           new.task \in {"create", "add", "remove"} => new.writes \in Seq(SafeWrites(shape)),
           new.task = "create" /\ new.ok => Underway(h)'
    PROVE  TasksSafe'
  <1> SUFFICES ASSUME NEW o \in Handles
               PROVE  /\ (Busy(o) => session[o].writes \in Seq(SafeWrites(shape)))'
                      /\ (session[o].task = "create" /\ session[o].ok => Underway(o))'
    BY DEF TasksSafe
  <1>1. CASE o = h
    <2>1. session'[o] = new
      BY <1>1 DEF TypeOK
    <2> QED
      BY <1>1, <2>1 DEF Busy
  <1>2. CASE o # h
    <2>1. session'[o] = session[o]
      BY <1>2 DEF TypeOK
    <2>2. Underway(o) => Underway(o)'
      BY <2>1 DEF Underway, Kept
    <2> QED
      BY <2>1, <2>2 DEF TasksSafe, Busy
  <1> QED
    BY <1>1, <1>2

LEMMA FilesUnchangedKept ==
    ASSUME UNCHANGED <<shape, fileVars>>
    PROVE  Kept /\ (HeadersSafe => HeadersSafe') /\ (HeaderServes => HeaderServes')
           /\ (OwnerSlot => OwnerSlot') /\ (OuterRoot => OuterRoot')
  BY DEF Kept, fileVars, HeadersSafe, HeaderServes, OwnerSlot, OuterRoot

LEMMA RestingTask ==
    Closed.task = "closed" /\ \A volume : Idle(volume).task = "idle"
  BY DEF Closed, Idle

LEMMA HeaderWritesSafe ==
    ASSUME NEW h, NEW n \in AllCounts, n["password"] >= 1
    PROVE  HeaderWrites(h, n) \in Seq(SafeWrites(shape))
  <1>1. Header("outer", n) \in HeaderValues /\ Header("outer", n).n = n
        /\ Header("outer", n).key = "outer"
    BY HeaderType DEF CryptKeys
  <1>2. HeaderWrite("start", Header("outer", n)) \in SafeWrites(shape)
    BY <1>1, HeaderWriteSafe DEF Places
  <1>3. HeaderWrite(BackupPlace, Header("outer", n)) \in SafeWrites(shape)
    BY <1>1, BackupPlaces, HeaderWriteSafe
  <1> QED
    BY <1>2, <1>3 DEF HeaderWrites

LEMMA NewTask ==
    ASSUME NEW s, NEW task, NEW volume, NEW c, NEW alone, NEW ok, NEW ws,
           s = Task(task, volume, c, alone, ok, ws)
    PROVE  s.writes = ws /\ s.ok = ok
  BY DEF Task

LEMMA CreateKeeps ==
    ASSUME TypeOK, OwnerKept, NEW h \in Handles, Create(h)
    PROVE  OwnerKept'
  <1>1. PICK sh \in Shapes, i \in NoiseCounts :
            /\ shape' = sh
            /\ headers' = [p \in Places |-> Header("none", Counted(i, i))]
            /\ session' = [session EXCEPT ![h] =
                  Task("create", "outer", Owner, TRUE, sh # "hidden long", CreateWrites(sh))]
    BY DEF Create
  <1>2. file' = "partial" /\ \A o \in Handles : session[o] = Closed
    BY DEF Create, OwnerKept
  <1> SUFFICES ASSUME sh \in OwnedShapes PROVE HeadersSafe' /\ TasksSafe'
    BY <1>1, <1>2 DEF OwnerKept
  <1>3. CreateWrites(sh) \in Seq(SafeWrites(sh))
        /\ (sh # "hidden long" => /\ Pending(CreateWrites(sh), "header", "start")
                                  /\ Pending(CreateWrites(sh), "slot", <<"password", 0>>)
                                  /\ Pending(CreateWrites(sh), "root", "outer"))
    BY <1>2, CreateWritesSafe
  <1>4. HeadersSafe'
    <2>1. \A p \in Places : headers'[p].key = "none"
      BY <1>1, Bounds, CountedType, HeaderType DEF CryptKeys
    <2> QED
      BY <2>1, BackupPlaces DEF HeadersSafe, CreatedBackup, Places
  <1>5. TasksSafe'
    <2> SUFFICES ASSUME NEW o \in Handles
                 PROVE  /\ (Busy(o) => session[o].writes \in Seq(SafeWrites(shape)))'
                        /\ (session[o].task = "create" /\ session[o].ok => Underway(o))'
      BY DEF TasksSafe
    <2>1. CASE o = h
      <3>1. PICK ok \in BOOLEAN, alone \in BOOLEAN : alone /\ (ok <=> sh # "hidden long")
        OBVIOUS
      <3>2. session'[o] = Task("create", "outer", Owner, alone, ok, CreateWrites(sh))
        BY <1>1, <2>1, <3>1, Zenon DEF TypeOK
      <3>3. session'[o].writes = CreateWrites(sh) /\ session'[o].ok = ok
        BY <3>2, NewTask
      <3> QED
        BY <1>1, <1>3, <3>1, <3>3 DEF Underway
    <2>2. CASE o # h
      <3>1. session'[o] = Closed
        BY <1>1, <1>2, <2>2 DEF TypeOK
      <3> QED
        BY <3>1, RestingTask DEF Busy
    <2> QED
      BY <2>1, <2>2
  <1> QED
    BY <1>4, <1>5

(* Steps that leave the file alone and begin nothing. *)
LEMMA RestKeeps ==
    ASSUME TypeOK, OwnerKept, NEW h \in Handles, NEW new,
           session' = [session EXCEPT ![h] = new], new.task \in {"closed", "idle"},
           file # "absent" \/ new = Closed, UNCHANGED <<file, shape, fileVars>>
    PROVE  OwnerKept'
  <1>1. file' = "absent" => \A o \in Handles : session'[o] = Closed
    BY DEF OwnerKept, TypeOK
  <1>2. shape \in OwnedShapes => TasksSafe'
    BY FilesUnchangedKept, TasksStep DEF OwnerKept
  <1> QED
    BY <1>1, <1>2, FilesUnchangedKept DEF OwnerKept

LEMMA BeginsKeeps ==
    ASSUME TypeOK, OwnerKept, NEW h \in Handles, NEW task \in {"add", "remove"}, NEW c, NEW alone,
           NEW ws, shape \in OwnedShapes => ws \in Seq(SafeWrites(shape)),
           Begins(h, task, c, alone, ws)
    PROVE  OwnerKept'
  <1> DEFINE new == Task(task, session[h].volume, c, alone, Recounts(h), ws)
  <1>1. /\ session[h].task = "idle" /\ session' = [session EXCEPT ![h] = new]
        /\ UNCHANGED <<file, shape, fileVars>>
    BY DEF Begins
  <1>2. new.task = task /\ new.writes = ws
    BY DEF Task
  <1> HIDE DEF new
  <1>3. file # "absent"
    BY <1>1, RestingTask DEF OwnerKept
  <1>4. shape \in OwnedShapes => TasksSafe'
    BY <1>1, <1>2, FilesUnchangedKept, TasksStep DEF OwnerKept
  <1> QED
    BY <1>1, <1>3, <1>4, FilesUnchangedKept DEF OwnerKept

LEMMA AddKeeps ==
    ASSUME "manage" \notin Faults, TypeOK, OwnerKept, NEW h \in Handles, AddRecipient(h)
    PROVE  OwnerKept'
  <1> DEFINE n(c) == [Primary.n EXCEPT ![KindOf(c)] = @ + 1]
             slot(c) == SlotWrite(KindOf(c), AddIndex(KindOf(c)),
                                  Slot(c, KeyOfVolume(session[h].volume)))
             ws(c) == <<slot(c)>> \o HeaderWrites(h, n(c))
  <1>1. PICK c \in Credentials \ granted :
            HasRoom(KindOf(c)) /\ Begins(h, "add", c, TRUE, ws(c))
    BY DEF AddRecipient
  <1>2. Primary.n \in AllCounts /\ KindOf(c) \in Kinds /\ Primary.key = "outer"
    BY <1>1 DEF TypeOK, Primary, HeaderValues, Places, KindOf, Kinds, Begins
  <1>3. n(c) \in AllCounts /\ AddIndex(KindOf(c)) \in Indices
    BY <1>1, <1>2, Bounds DEF AllCounts, HasRoom, AddIndex, Indices
  <1>4. ASSUME shape \in OwnedShapes PROVE ws(c) \in Seq(SafeWrites(shape))
    <2>1. Primary.n["password"] >= 1
      BY <1>2, <1>4 DEF OwnerKept, HeadersSafe, Primary, Places
    <2>2. n(c)["password"] >= 1
      BY <1>2, <2>1 DEF AllCounts, Kinds
    <2>3. Slot(c, KeyOfVolume(session[h].volume)) \in SlotValues
      BY SlotType DEF KeyOfVolume, CryptKeys
    <2>4. KindOf(c) = "password" => AddIndex(KindOf(c)) # 0
      BY <2>1 DEF AddIndex
    <2>5. slot(c) \in SafeWrites(shape)
      BY <1>2, <1>3, <2>3, <2>4, SlotWriteSafe
    <2> HIDE DEF slot, n
    <2>6. <<slot(c)>> \in Seq(SafeWrites(shape)) /\ HeaderWrites(h, n(c)) \in Seq(SafeWrites(shape))
      BY <1>3, <2>2, <2>5, HeaderWritesSafe
    <2> QED
      BY <2>6, Concatenated
  <1> HIDE DEF ws
  <1> QED
    BY <1>1, <1>4, BeginsKeeps

LEMMA RemoveKeeps ==
    ASSUME "manage" \notin Faults, TypeOK, OwnerKept, NEW h \in Handles, RemoveKey(h)
    PROVE  OwnerKept'
  <1> DEFINE c(j) == slots[<<"key", j>>].credential
             n == Primary.n["key"]
             alone(j) == \A i \in Indices \ {j} : slots[<<"key", i>>].credential # c(j)
             counts == [Primary.n EXCEPT !["key"] = n - 1]
             ws(j) == RemoveWrites(n, j) \o HeaderWrites(h, counts)
  <1>1. PICK j \in Indices : j < n /\ Begins(h, "remove", c(j), alone(j), ws(j))
    BY DEF RemoveKey
  <1>2. Primary.n \in AllCounts /\ "key" \in Kinds /\ Primary.key = "outer"
    BY <1>1 DEF TypeOK, Primary, HeaderValues, Places, Kinds, Begins
  <1>3. n \in 1..MaxSlots /\ j \in 0..(n - 1)
    BY <1>1, <1>2, Bounds DEF AllCounts
  <1>4. counts \in AllCounts
    BY <1>2, <1>3, Bounds DEF AllCounts
  <1>5. ASSUME shape \in OwnedShapes PROVE ws(j) \in Seq(SafeWrites(shape))
    <2>1. Primary.n["password"] >= 1
      BY <1>2, <1>5 DEF OwnerKept, HeadersSafe, Primary, Places
    <2>2. counts["password"] >= 1
      BY <1>2, <2>1 DEF AllCounts, Kinds
    <2> HIDE DEF n, counts
    <2>3. RemoveWrites(n, j) \in Seq(SafeWrites(shape))
      BY <1>3, RemoveWritesSafe, TypeParts
    <2>4. HeaderWrites(h, counts) \in Seq(SafeWrites(shape))
      BY <1>4, <2>2, HeaderWritesSafe
    <2> QED
      BY <2>3, <2>4, Concatenated
  <1> HIDE DEF c, n, alone, counts, ws
  <1> QED
    BY <1>1, <1>5, BeginsKeeps

(* Of an operation under way: the next write, and what is then still to do. *)
LEMMA NextWrite ==
    ASSUME TypeOK, OwnerKept, shape \in OwnedShapes, NEW h \in Handles, Busy(h),
           Len(session[h].writes) >= 1, Applied(Head(session[h].writes)), UNCHANGED shape
    PROVE  /\ HeadersSafe' /\ Kept /\ (HeaderServes => HeaderServes')
           /\ Tail(session[h].writes) \in Seq(SafeWrites(shape))
           /\ session[h].task = "create" /\ session[h].ok =>
                 /\ OwnerSlot' \/ (Len(session[h].writes) > 1
                                   /\ Pending(Tail(session[h].writes), "slot", <<"password", 0>>))
                 /\ OuterRoot' \/ (Len(session[h].writes) > 1
                                   /\ Pending(Tail(session[h].writes), "root", "outer"))
                 /\ headers'["start"].key = "outer"
                    \/ (Len(session[h].writes) > 1
                        /\ Pending(Tail(session[h].writes), "header", "start"))
  <1> DEFINE ws == session[h].writes
             w == Head(session[h].writes)
  <1>1. HeadersSafe /\ TasksSafe /\ FilesTyped
    BY TypeParts DEF OwnerKept
  <1>2. ws \in Seq(SafeWrites(shape))
    BY <1>1 DEF TasksSafe
  <1>3. w \in SafeWrites(shape) /\ Tail(ws) \in Seq(SafeWrites(shape))
    BY <1>2, HeadTail
  <1>4. /\ HeadersSafe' /\ Kept /\ (HeaderServes => HeaderServes')
        /\ w.to = "slot" /\ w.place = <<"password", 0>> => OwnerSlot'
        /\ w.to = "root" /\ w.place = "outer" => OuterRoot'
        /\ w.to = "header" /\ w.place = "start" => headers'["start"].key = "outer"
    BY <1>1, <1>3, AppliedSafe
  <1>5. ASSUME session[h].task = "create", session[h].ok PROVE Underway(h)
    BY <1>1, <1>5 DEF TasksSafe
  <1>6. ASSUME NEW to, NEW place, Pending(ws, to, place)
        PROVE  (w.to = to /\ w.place = place) \/ (Len(ws) > 1 /\ Pending(Tail(ws), to, place))
    BY <1>2, <1>6, PendingStep
  <1> QED
    BY <1>3, <1>4, <1>5, <1>6 DEF Underway, Kept

LEMMA WriteKeeps ==
    ASSUME TypeOK, OwnerKept, NEW h \in Handles, Write(h)
    PROVE  OwnerKept'
  <1> DEFINE new == [session[h] EXCEPT !.writes = Tail(session[h].writes)]
  <1>1. /\ Busy(h) /\ Len(session[h].writes) > 1 /\ Applied(Head(session[h].writes))
        /\ session' = [session EXCEPT ![h] = new] /\ UNCHANGED <<file, shape>>
    BY DEF Write
  <1>2. file # "absent"
    BY <1>1, RestingTask DEF OwnerKept, Busy
  <1> SUFFICES ASSUME shape \in OwnedShapes
               PROVE  /\ HeadersSafe' /\ TasksSafe'
                      /\ file = "made" => OwnerSlot' /\ OuterRoot' /\ HeaderServes'
    BY <1>1, <1>2 DEF OwnerKept
  <1>3. /\ session[h].writes \in Seq(Writes) /\ Tail(session[h].writes) \in Seq(Writes)
        /\ Len(session[h].writes) >= 1
    <2>1. session[h].writes \in Seq(Writes)
      BY <1>1, BusyType
    <2> QED
      BY <1>1, <2>1, HeadTail
  <1>4. /\ HeadersSafe' /\ Kept /\ (HeaderServes => HeaderServes')
        /\ Tail(session[h].writes) \in Seq(SafeWrites(shape))
        /\ session[h].task = "create" /\ session[h].ok =>
              /\ OwnerSlot' \/ Pending(Tail(session[h].writes), "slot", <<"password", 0>>)
              /\ OuterRoot' \/ Pending(Tail(session[h].writes), "root", "outer")
              /\ headers'["start"].key = "outer" \/ Pending(Tail(session[h].writes), "header", "start")
    <2>1. UNCHANGED shape
      BY <1>1
    <2> QED
      BY <1>1, <1>3, <2>1, NextWrite
  <1>5. /\ new.task = session[h].task /\ new.ok = session[h].ok
        /\ new.writes = Tail(session[h].writes) /\ session'[h] = new
    BY <1>1, <1>3, BusyType DEF TypeOK
  <1>6. new.task = "create" /\ new.ok => Underway(h)'
    BY <1>4, <1>5 DEF Underway
  <1>7. TasksSafe'
    BY <1>1, <1>4, <1>5, <1>6, TasksStep DEF OwnerKept
  <1> QED
    BY <1>4, <1>7 DEF OwnerKept, Kept

LEMMA ReturnKeeps ==
    ASSUME TypeOK, OwnerKept, NEW h \in Handles, Return(h)
    PROVE  OwnerKept'
  <1> DEFINE new == IF session[h].task = "create" /\ ~session[h].ok THEN Closed
                    ELSE Idle(session[h].volume)
  <1>1. /\ Busy(h) /\ Len(session[h].writes) = 1 /\ Applied(Head(session[h].writes))
        /\ session' = [session EXCEPT ![h] = new] /\ UNCHANGED shape
        /\ file' = IF session[h].task = "create" /\ session[h].ok THEN "made" ELSE file
    BY DEF Return
  <1>2. file # "absent" /\ file' # "absent"
    BY <1>1, RestingTask DEF OwnerKept, Busy
  <1> SUFFICES ASSUME shape \in OwnedShapes
               PROVE  /\ HeadersSafe' /\ TasksSafe'
                      /\ file' = "made" => OwnerSlot' /\ OuterRoot' /\ HeaderServes'
    BY <1>1, <1>2 DEF OwnerKept
  <1>3. /\ HeadersSafe' /\ Kept /\ (HeaderServes => HeaderServes')
        /\ session[h].task = "create" /\ session[h].ok =>
              OwnerSlot' /\ OuterRoot' /\ headers'["start"].key = "outer"
    <2>1. Len(session[h].writes) >= 1 /\ ~(Len(session[h].writes) > 1)
      BY <1>1
    <2> QED
      BY <1>1, <2>1, NextWrite
  <1>4. new.task \in {"closed", "idle"}
    BY RestingTask
  <1>5. TasksSafe'
    BY <1>1, <1>3, <1>4, TasksStep DEF OwnerKept
  <1> QED
    BY <1>1, <1>3, <1>5 DEF OwnerKept, Kept, HeaderServes

LEMMA DamageKeeps ==
    ASSUME TypeOK, OwnerKept, Damage
    PROVE  OwnerKept'
  <1>1. PICK p \in HeaderPlaces, n \in DamagedCounts :
            headers' = [headers EXCEPT ![p] = Header("none", n)]
    BY DEF Damage
  <1>2. /\ file = "made" /\ \A q \in HeaderPlaces : Sound(q)
        /\ \A h \in Handles : ~Busy(h)
        /\ UNCHANGED <<file, shape, slots, roots, session>>
    BY DEF Damage
  <1> SUFFICES ASSUME shape \in OwnedShapes
               PROVE  HeadersSafe' /\ TasksSafe' /\ OwnerSlot' /\ OuterRoot' /\ HeaderServes'
    BY <1>2 DEF OwnerKept
  <1>3. /\ HeadersSafe /\ OwnerSlot /\ OuterRoot
        /\ "start" \in HeaderPlaces /\ CreatedBackup(shape) \in HeaderPlaces
        /\ shape \in HiddenShapes => "end" \in HeaderPlaces
        /\ HeaderPlaces \subseteq Places
    BY <1>2 DEF OwnerKept, HeaderPlaces, CreatedBackup, Places
  <1>4. /\ headers["start"].key = "outer" /\ headers[CreatedBackup(shape)].key = "outer"
        /\ shape \in HiddenShapes => headers["end"].n["password"] >= 1
    BY <1>2, <1>3 DEF Sound, HeadersSafe
  <1>5. \A q \in Places : headers'[q] = IF q = p THEN Header("none", n) ELSE headers[q]
    BY <1>1, <1>3 DEF TypeOK
  <1>6. Header("none", n).key = "none"
    BY DEF Header
  <1>7. HeadersSafe'
    BY <1>2, <1>3, <1>5, <1>6 DEF HeadersSafe
  <1>8. HeaderServes'
    <2>1. CASE p = "start"
      BY <1>2, <1>3, <1>4, <1>5, <2>1, BackupPlaces DEF HeaderServes
    <2>2. CASE p # "start"
      BY <1>3, <1>4, <1>5, <2>2 DEF HeaderServes
    <2> QED
      BY <2>1, <2>2
  <1>9. TasksSafe'
    BY <1>2 DEF TasksSafe, Busy
  <1> QED
    BY <1>2, <1>3, <1>7, <1>8, <1>9 DEF OwnerSlot, OuterRoot

(* open, from the invariant: the counts come from a header of this container,*)
(* so the owner's slot is among those that are tried.                        *)
LEMMA OwnerReads ==
    ASSUME TypeOK, OwnerKept
    PROVE  OwnerOpens
  <1> SUFFICES ASSUME file = "made", shape \in OwnedShapes, ~PassesForSound
               PROVE  Reads(Owner)
    BY DEF OwnerOpens, OwnedShapes, TypeOK
  <1>1. /\ HeadersSafe /\ OwnerSlot /\ OuterRoot /\ HeaderServes
    BY DEF OwnerKept
  <1>2. \A p \in Places : headers[p].n["password"] \in Nat
    <2>1. \A p \in Places : headers[p].n \in AllCounts
      BY DEF TypeOK, HeaderValues
    <2>2. "password" \in Kinds
      BY DEF Kinds
    <2> QED
      BY <2>1, <2>2, Bounds DEF AllCounts
  <1>3. "start" \in Places /\ "end" \in Places
    BY DEF Places
  <1>4. Counts["password"] > 0
    <2>1. CASE headers["start"].key = "outer"
      <3>1. headers["start"].n["password"] >= 1
        BY <1>1, <1>3, <2>1 DEF HeadersSafe
      <3> QED
        BY <1>2, <1>3, <3>1 DEF Counts, SomeCount
    <2>2. CASE headers["start"].key # "outer"
      <3>1. ~SomeCount(headers["start"])
        BY <2>2 DEF PassesForSound, Primary
      <3>2. headers["end"].n["password"] >= 1
        BY <1>1, <1>3, <2>2, BackupPlaces DEF HeaderServes, HeadersSafe
      <3>3. SomeCount(headers["end"])
        BY <1>2, <1>3, <3>2 DEF SomeCount
      <3>4. Counts = headers["end"].n
        BY <3>1, <3>3 DEF Counts
      <3> QED
        BY <1>2, <1>3, <3>2, <3>4
    <2> QED
      BY <2>1, <2>2
  <1>5. KindOf(Owner) = "password"
    BY Bounds DEF KindOf
  <1>6. Unlocks(Owner)
    <2>1. slots[<<"password", 0>>].credential = Owner /\ slots[<<"password", 0>>].key = "outer"
      <3>1. "outer" \in CryptKeys /\ Owner \in Credentials \union {Nobody}
        BY Bounds DEF CryptKeys
      <3> QED
        BY <1>1, <3>1, SlotType DEF OwnerSlot
    <2>2. 0 \in Indices /\ \A k \in Indices : ~(k < 0)
      BY Bounds
    <2> QED
      BY <1>4, <1>5, <2>1, <2>2 DEF Unlocks, IsFor
  <1>7. Authentic("outer", {"start", "end", "end2"})
    BY <1>1 DEF HeaderServes, CreatedBackup, Authentic
  <1> QED
    BY <1>1, <1>6, <1>7 DEF Reads, OpensOuter, OuterRoot

LEMMA OwnerKeptAlways ==
    ASSUME "manage" \notin Faults
    PROVE  Spec => [](TypeOK /\ OwnerKept)
  <1>1. Init => OwnerKept
    <2> SUFFICES ASSUME Init PROVE OwnerKept
      OBVIOUS
    <2>1. \A p \in Places : headers[p].key = "none"
      BY DEF Init, Header
    <2>2. HeadersSafe
      BY <2>1, BackupPlaces DEF HeadersSafe, Places
    <2>3. TasksSafe
      BY RestingTask DEF Init, TasksSafe, Busy
    <2> QED
      BY <2>2, <2>3 DEF Init, OwnerKept
  <1>2. TypeOK /\ OwnerKept /\ [Next]_vars => OwnerKept'
    <2> SUFFICES ASSUME TypeOK, OwnerKept, [Next]_vars PROVE OwnerKept'
      OBVIOUS
    <2>1. CASE UNCHANGED vars
      <3>1. UNCHANGED <<file, shape, fileVars, session>>
        BY <2>1 DEF vars
      <3>2. TasksSafe => TasksSafe'
        BY <3>1 DEF TasksSafe, Busy, Underway, OwnerSlot, OuterRoot, fileVars
      <3> QED
        BY <3>1, <3>2, FilesUnchangedKept DEF OwnerKept
    <2>2. ASSUME NEW h \in Handles, Create(h) PROVE OwnerKept'
      BY <2>2, CreateKeeps
    <2>3. ASSUME NEW h \in Handles, Open(h) PROVE OwnerKept'
      <3>1. PICK volume \in Volumes : session' = [session EXCEPT ![h] = Idle(volume)]
        BY <2>3 DEF Open, Volumes
      <3>2. file # "absent" /\ UNCHANGED <<file, shape, fileVars>>
        BY <2>3 DEF Open
      <3> QED
        BY <3>1, <3>2, RestingTask, RestKeeps
    <2>4. ASSUME NEW h \in Handles, AddRecipient(h) PROVE OwnerKept'
      BY <2>4, AddKeeps
    <2>5. ASSUME NEW h \in Handles, RemoveKey(h) PROVE OwnerKept'
      BY <2>5, RemoveKeeps
    <2>6. ASSUME NEW h \in Handles, Write(h) PROVE OwnerKept'
      BY <2>6, WriteKeeps
    <2>7. ASSUME NEW h \in Handles, Return(h) PROVE OwnerKept'
      BY <2>7, ReturnKeeps
    <2>8. ASSUME NEW h \in Handles, Close(h) \/ Crash(h) PROVE OwnerKept'
      <3>1. session' = [session EXCEPT ![h] = Closed] /\ UNCHANGED <<file, shape, fileVars>>
        BY <2>8 DEF Close, Crash
      <3> QED
        BY <3>1, RestingTask, RestKeeps
    <2>9. CASE Damage
      BY <2>9, DamageKeeps
    <2> QED
      BY <2>1, <2>2, <2>3, <2>4, <2>5, <2>6, <2>7, <2>8, <2>9 DEF Next
  <1> QED
    BY <1>1, <1>2, TypeCorrect, PTL DEF Spec

(* From the end of create on, the password of create gets in, whatever number*)
(* of handles grant and remove how many credentials at once and die where,   *)
(* with all kinds of damage to one header copy: no operation writes the first*)
(* password slot and none writes a header that counts no password.           *)
THEOREM OwnerStays == "manage" \notin Faults => (Spec => []OwnerOpens)
  <1> SUFFICES ASSUME "manage" \notin Faults PROVE Spec => []OwnerOpens
    OBVIOUS
  <1>1. Spec => [](TypeOK /\ OwnerKept)
    BY OwnerKeptAlways
  <1>2. TypeOK /\ OwnerKept => OwnerOpens
    BY OwnerReads
  <1> QED
    BY <1>1, <1>2, PTL

-----------------------------------------------------------------------------
(* Which headers there are.                                                  *)

(* The only create under way has made the file, and until operations overlap *)
(* one is under way at a time.                                               *)
OneAtATime ==
    /\ file = "absent" => \A h \in Handles : session[h] = Closed
    /\ \A h \in Handles :
          session[h].task = "create" =>
             file = "partial" /\ \A o \in Handles \ {h} : session[o].task # "create"
    /\ ~overlapped => \A h, o \in Handles : Busy(h) /\ Busy(o) => h = o

HiddenPlaces == {"second", "end"}

(* The writes that leave each header to its volume: where the outer volume's *)
(* are only those are written; only a hidden volume's are under the derived  *)
(* key; and where those are, only create writes, last under that key.        *)
ApartWrites(sh, task) ==
    {w \in Writes :
        w.to = "header" =>
           /\ w.place \in {"start", CreatedBackup(sh)} => w.value.key = "outer"
           /\ w.value.key = "derived" => sh = "hidden"
           /\ sh = "hidden" /\ w.place \in HiddenPlaces =>
                 /\ task = "create" /\ w.value.key # "outer"
                 /\ w.place = "second" => w.value.key = "derived"}

HeadersApart ==
    /\ \A p \in {"start", CreatedBackup(shape)} : headers[p].key \in {"none", "outer"}
    /\ \A p \in Places : headers[p].key = "derived" => shape = "hidden"
    /\ shape = "hidden" => \A p \in HiddenPlaces : headers[p].key # "outer"

(* While create runs, the second hidden header is there or to be written. *)
HiddenUnderway(h) ==
    headers["second"].key = "derived" \/ Pending(session[h].writes, "header", "second")

SessionApart(h) ==
    /\ Busy(h) => session[h].writes \in Seq(ApartWrites(shape, session[h].task))
    /\ session[h].task = "create" /\ shape = "hidden" => HiddenUnderway(h)
    /\ session[h].task # "closed" /\ session[h].volume = "hidden" => shape = "hidden"

HeadersKept ==
    /\ OneAtATime
    /\ HeadersApart
    /\ \A h \in Handles : SessionApart(h)
    /\ file = "made" /\ shape = "hidden" => Authentic("derived", HiddenPlaces)

-----------------------------------------------------------------------------
(* Removed keys.                                                             *)

(* No slot is of a key that was removed, and none is written that is. *)
GoneWrites ==
    {w \in Writes : w.to = "slot" /\ w.place[1] = "key" =>
                       w.value.credential \in (Keys \ revoked) \union {Nobody}}

WritesNotOf(c) == {w \in Writes : w.to = "slot" => w.value.credential # c}

(* A removal of c's only slot: what still is c's is still to be overwritten, *)
(* and with nothing of c's.                                                  *)
Erases(h) ==
    LET c == session[h].credential
        ws == session[h].writes
    IN /\ c \in Keys
       /\ \A i \in Indices : slots[<<"key", i>>].credential = c => Pending(ws, "slot", <<"key", i>>)
       /\ ws \in Seq(WritesNotOf(c))

SessionRevokes(h) ==
    /\ Busy(h) => session[h].writes \in Seq(GoneWrites)
    /\ session[h].task = "remove" /\ session[h].alone /\ session[h].credential # Nobody => Erases(h)

KeysGone ==
    /\ revoked \subseteq Keys
    /\ \A i \in Indices : slots[<<"key", i>>].credential \in (Keys \ revoked) \union {Nobody}

RevokedKept ==
    ~overlapped => KeysGone /\ \A h \in Handles : SessionRevokes(h)

-----------------------------------------------------------------------------
(* Those who were added.                                                     *)

SlotFine(slot) == slot.credential = Nobody \/ slot.key = "outer"

(* Made: the root, a header, and in the counted part of the area no slot     *)
(* that opens anything else.                                                 *)
OuterFine ==
    /\ OuterRoot
    /\ headers["start"].key = "outer" \/ shape \in HiddenShapes \/ headers["end"].key = "outer"
    /\ \A k \in Kinds, i \in Indices :
          shape \notin HiddenShapes \/ (headers["start"].key = "outer" /\ i < headers["start"].n[k]) =>
             SlotFine(slots[<<k, i>>])

(* Slot i is c's and within the counts of the primary header, and within     *)
(* those of the backup that open may fall back on.                           *)
Grants(c, i) ==
    /\ slots[<<KindOf(c), i>>] = Slot(c, "outer")
    /\ headers["start"].key = "outer" => i < headers["start"].n[KindOf(c)]
    /\ shape \notin HiddenShapes /\ headers["end"].key = "outer" => i < headers["end"].n[KindOf(c)]

AllGranted == \A c \in granted : \E i \in Indices : Grants(c, i)

(* What is left to do of an operation, by how far it has come: the backup    *)
(* header, or both.                                                          *)
BackupLeft(h) ==
    LET ws == session[h].writes
    IN Len(ws) = 1 /\ ws[1] = HeaderWrite(BackupPlace, Header("outer", Primary.n))

HeadersLeft(h, k, n) ==
    LET counts == [Primary.n EXCEPT ![k] = n]
        ws == session[h].writes
    IN /\ ws[Len(ws) - 1] = HeaderWrite("start", Header("outer", counts))
       /\ ws[Len(ws)] = HeaderWrite(BackupPlace, Header("outer", counts))

(* An addition to slot i, which is the next, or just was. *)
SlotComes(h, k, i) ==
    LET ws == session[h].writes
    IN /\ i = Primary.n[k] /\ Len(ws) = 3 /\ HeadersLeft(h, k, i + 1)
       /\ ws[1] = SlotWrite(k, i, Slot(session[h].credential, "outer"))

SlotCame(h, k, i) ==
    /\ i = Primary.n[k] /\ Len(session[h].writes) = 2 /\ HeadersLeft(h, k, i + 1)
    /\ slots[<<k, i>>] = Slot(session[h].credential, "outer")

SlotCounted(h, k, i) ==
    /\ i < Primary.n[k] /\ BackupLeft(h)
    /\ slots[<<k, i>>] = Slot(session[h].credential, "outer")

Adding(h) ==
    LET k == KindOf(session[h].credential)
    IN /\ session[h].task = "add" /\ session[h].credential \in Credentials
       /\ \E i \in Indices : SlotComes(h, k, i) \/ SlotCame(h, k, i) \/ SlotCounted(h, k, i)

(* Through a handle of the hidden volume: into a slot that nobody counts. *)
AddingHidden(h) ==
    /\ session[h].task = "add" /\ ~session[h].ok /\ shape = "hidden"
    /\ Len(session[h].writes) = 1
    /\ \E k \in Kinds, slot \in SlotValues :
          session[h].writes[1] = SlotWrite(k, Primary.n[k], slot)

Key(i) == slots[<<"key", i>>]

(* Of n slots those below m are written; the ones above j move down by one.  *)
ShiftLeft(h, n, j, m) ==
    LET ws == session[h].writes
    IN /\ n = Primary.n["key"]
       /\ Len(ws) = n - m + 2 /\ HeadersLeft(h, "key", n - 1)
       /\ \A q \in m..(n - 1) :
             ws[q - m + 1] = SlotWrite("key", q, IF q = n - 1 THEN NoiseSlot
                                                 ELSE IF q < j THEN Key(q) ELSE Key(q + 1))
       /\ m <= j => Key(j).credential \notin granted
       /\ j < m /\ m < n => Key(m - 1) = Key(m)
       /\ m = n => Key(n - 1) = NoiseSlot

Removing(h) ==
    /\ session[h].task = "remove"
    /\ \/ \E n \in 1..MaxSlots : \E j \in 0..(n - 1), m \in 0..n : ShiftLeft(h, n, j, m)
       \/ BackupLeft(h)

(* In create: nothing but what opens the outer volume is in the area, and    *)
(* what is not there yet is to be written.                                   *)
CreateFine ==
    {w \in Writes :
        /\ w.to = "slot" => SlotFine(w.value)
        /\ w.to = "root" /\ w.place = "outer" => w.value = "outer"
        /\ w.to = "header" /\ w.place = "start" => w.value.key = "outer"}

Creating(h) ==
    /\ granted = {} /\ session[h].credential = Owner
    /\ \A place \in Kinds \X Indices : SlotFine(slots[place])
    /\ session[h].writes \in Seq(CreateFine)
    /\ session[h].ok =>
          /\ OuterRoot \/ Pending(session[h].writes, "root", "outer")
          /\ headers["start"].key = "outer" \/ Pending(session[h].writes, "header", "start")

SessionGrants(h) ==
    Busy(h) => headers["start"].key = "outer" /\ (Adding(h) \/ AddingHidden(h) \/ Removing(h))

GrantedKept ==
    /\ file = "absent" =>
          granted = {} /\ \A place \in Kinds \X Indices : SlotFine(slots[place])
    /\ ~overlapped =>
          /\ \A h \in Handles : session[h].task = "create" => Creating(h)
          /\ file = "made" => OuterFine /\ AllGranted /\ \A h \in Handles : SessionGrants(h)

-----------------------------------------------------------------------------
(* Steps of a session.                                                       *)

LEMMA SessionStep ==
    ASSUME TypeOK, NEW h \in Handles, NEW new, session' = [session EXCEPT ![h] = new]
    PROVE  session'[h] = new /\ \A o \in Handles \ {h} : session'[o] = session[o]
  BY DEF TypeOK

LEMMA TaskFields ==
    ASSUME NEW task, NEW volume, NEW c, NEW alone, NEW ok, NEW ws
    PROVE  /\ Task(task, volume, c, alone, ok, ws).task = task
           /\ Task(task, volume, c, alone, ok, ws).volume = volume
           /\ Task(task, volume, c, alone, ok, ws).credential = c
           /\ Task(task, volume, c, alone, ok, ws).alone = alone
           /\ Task(task, volume, c, alone, ok, ws).ok = ok
           /\ Task(task, volume, c, alone, ok, ws).writes = ws
  BY DEF Task

(* A write: what of its session stays. *)
LEMMA WriteFields ==
    ASSUME TypeOK, NEW h \in Handles, Write(h)
    PROVE  /\ session'[h].task = session[h].task /\ session'[h].volume = session[h].volume
           /\ session'[h].credential = session[h].credential
           /\ session'[h].alone = session[h].alone /\ session'[h].ok = session[h].ok
           /\ session'[h].writes = Tail(session[h].writes)
           /\ \A o \in Handles \ {h} : session'[o] = session[o]
           /\ Busy(h) /\ Len(session[h].writes) > 1 /\ session[h].writes \in Seq(Writes)
           /\ Applied(Head(session[h].writes)) /\ UNCHANGED <<file, shape, historyVars>>
  <1>1. /\ Busy(h) /\ Len(session[h].writes) > 1
        /\ session' = [session EXCEPT ![h].writes = Tail(@)]
        /\ Applied(Head(session[h].writes)) /\ UNCHANGED <<file, shape, historyVars>>
    BY DEF Write
  <1>2. session[h].task \in {"create", "add", "remove"} /\ session[h] \in Sessions
    BY <1>1 DEF Busy, TypeOK
  <1>3. session[h].writes \in Seq(Writes)
    BY <1>1, BusyType
  <1>4. /\ session'[h] = [session[h] EXCEPT !.writes = Tail(session[h].writes)]
        /\ \A o \in Handles \ {h} : session'[o] = session[o]
    BY <1>1 DEF TypeOK
  <1>5. CASE session[h] \in [task : {"create", "add"}, volume : Volumes, credential : Credentials,
                             alone : BOOLEAN, ok : BOOLEAN, writes : Seq(Writes)]
    BY <1>1, <1>3, <1>4, <1>5
  <1>6. CASE session[h] \in [task : {"remove"}, volume : Volumes,
                             credential : Credentials \union {Nobody},
                             alone : BOOLEAN, ok : BOOLEAN, writes : Seq(Writes)]
    BY <1>1, <1>3, <1>4, <1>6
  <1> QED
    BY <1>2, <1>5, <1>6 DEF Sessions, Closed

LEMMA ReturnFields ==
    ASSUME TypeOK, NEW h \in Handles, Return(h)
    PROVE  /\ session'[h].task \in {"closed", "idle"}
           /\ session'[h].task = "idle" => session'[h].volume = session[h].volume
           /\ \A o \in Handles \ {h} : session'[o] = session[o]
           /\ Busy(h) /\ Len(session[h].writes) = 1 /\ session[h].writes \in Seq(Writes)
           /\ Applied(Head(session[h].writes)) /\ UNCHANGED <<shape, overlapped, operations>>
  <1> DEFINE new == IF session[h].task = "create" /\ ~session[h].ok THEN Closed
                    ELSE Idle(session[h].volume)
  <1>1. /\ Busy(h) /\ Len(session[h].writes) = 1
        /\ session' = [session EXCEPT ![h] = new]
        /\ Applied(Head(session[h].writes)) /\ UNCHANGED <<shape, overlapped, operations>>
    BY DEF Return
  <1>2. session[h].writes \in Seq(Writes)
    BY <1>1, BusyType
  <1>3. session'[h] = new /\ \A o \in Handles \ {h} : session'[o] = session[o]
    BY <1>1, SessionStep
  <1>4. new.task \in {"closed", "idle"} /\ (new.task = "idle" => new.volume = session[h].volume)
    BY DEF Closed, Idle
  <1> QED
    BY <1>1, <1>2, <1>3, <1>4

LEMMA BeginFields ==
    ASSUME TypeOK, NEW h \in Handles, NEW task, NEW c, NEW alone, NEW ws,
           Begins(h, task, c, alone, ws)
    PROVE  /\ session[h].task = "idle"
           /\ session'[h].task = task /\ session'[h].volume = session[h].volume
           /\ session'[h].credential = c /\ session'[h].alone = alone
           /\ session'[h].ok = Recounts(h) /\ session'[h].writes = ws
           /\ \A o \in Handles \ {h} : session'[o] = session[o]
           /\ overlapped' = (overlapped \/ \E o \in Handles : Busy(o))
           /\ UNCHANGED <<file, shape, fileVars>>
  <1> DEFINE new == Task(task, session[h].volume, c, alone, Recounts(h), ws)
  <1>1. session' = [session EXCEPT ![h] = new]
    BY DEF Begins
  <1>2. session'[h] = new /\ \A o \in Handles \ {h} : session'[o] = session[o]
    BY <1>1, SessionStep
  <1> QED
    BY <1>2, TaskFields DEF Begins

LEMMA CreateFields ==
    ASSUME TypeOK, NEW h \in Handles, Create(h)
    PROVE  /\ file = "absent" /\ file' = "partial" /\ shape' \in ShapeKinds
           /\ \A p \in Places : headers'[p].key = "none"
           /\ session'[h].task = "create" /\ session'[h].volume = "outer"
           /\ session'[h].credential = Owner
           /\ session'[h].ok <=> shape' # "hidden long"
           /\ session'[h].writes = CreateWrites(shape')
           /\ \A o \in Handles \ {h} : session'[o] = session[o]
           /\ UNCHANGED <<slots, roots, historyVars>>
  <1>1. PICK sh \in Shapes, i \in NoiseCounts :
            /\ shape' = sh
            /\ headers' = [p \in Places |-> Header("none", Counted(i, i))]
            /\ session' = [session EXCEPT ![h] =
                  Task("create", "outer", Owner, TRUE, sh # "hidden long", CreateWrites(sh))]
    BY DEF Create
  <1>2. PICK ok \in BOOLEAN, alone \in BOOLEAN : alone /\ (ok <=> sh # "hidden long")
    OBVIOUS
  <1>3. session' = [session EXCEPT ![h] = Task("create", "outer", Owner, alone, ok, CreateWrites(sh))]
    BY <1>1, <1>2, Zenon
  <1>6. /\ session'[h] = Task("create", "outer", Owner, alone, ok, CreateWrites(sh))
        /\ \A o \in Handles \ {h} : session'[o] = session[o]
    BY <1>3, SessionStep
  <1>7. /\ session'[h].task = "create" /\ session'[h].volume = "outer"
        /\ session'[h].credential = Owner
        /\ session'[h].ok = ok /\ session'[h].writes = CreateWrites(sh)
    BY <1>6, TaskFields
  <1>4. \A p \in Places : headers'[p].key = "none"
    BY <1>1 DEF Header
  <1>5. sh \in ShapeKinds
    BY BoundsAssumption
  <1> QED
    BY <1>1, <1>2, <1>4, <1>5, <1>6, <1>7 DEF Create

(* open, drop and a crash. *)
LEMMA RestFields ==
    ASSUME TypeOK, NEW h \in Handles, Open(h) \/ Close(h) \/ Crash(h)
    PROVE  /\ session'[h].task \in {"closed", "idle"}
           /\ \A o \in Handles \ {h} : session'[o] = session[o]
           /\ session'[h].task = "idle" =>
                 /\ file # "absent" /\ session'[h].volume \in Volumes
                 /\ session'[h].volume = "hidden" => Authentic("derived", HiddenPlaces)
           /\ UNCHANGED <<file, shape, fileVars, historyVars>>
  <1>1. CASE Open(h)
    <2>1. PICK volume \in Volumes :
             /\ session' = [session EXCEPT ![h] = Idle(volume)]
             /\ volume = "hidden" => Authentic("derived", HiddenPlaces)
      BY <1>1 DEF Open, Volumes, OpensHidden, Authentic, HiddenPlaces
    <2>2. session'[h] = Idle(volume) /\ \A o \in Handles \ {h} : session'[o] = session[o]
      BY <2>1, SessionStep
    <2>3. Idle(volume).task = "idle" /\ Idle(volume).volume = volume
      BY DEF Idle
    <2> QED
      BY <1>1, <2>1, <2>2, <2>3 DEF Open
  <1>2. CASE Close(h) \/ Crash(h)
    <2>1. session' = [session EXCEPT ![h] = Closed] /\ UNCHANGED <<file, shape, fileVars, historyVars>>
      BY <1>2 DEF Close, Crash
    <2>2. session'[h] = Closed /\ \A o \in Handles \ {h} : session'[o] = session[o]
      BY <2>1, SessionStep
    <2>3. Closed.task = "closed"
      BY DEF Closed
    <2> QED
      BY <2>1, <2>2, <2>3
  <1> QED
    BY <1>1, <1>2

LEMMA OrderStep ==
    ASSUME TypeOK, OneAtATime, [Next]_vars
    PROVE  OneAtATime'
  <1>1. CASE UNCHANGED vars
    BY <1>1 DEF OneAtATime, Busy, vars, historyVars
  <1>2. ASSUME NEW h \in Handles, Create(h) PROVE OneAtATime'
    <2>1. \A o \in Handles : session[o].task = "closed"
      BY <1>2, CreateFields, RestingTask DEF OneAtATime
    <2>2. /\ file' = "partial" /\ session'[h].task = "create"
          /\ \A o \in Handles \ {h} : session'[o].task = "closed"
      BY <1>2, <2>1, CreateFields
    <2> QED
      BY <2>2 DEF OneAtATime, Busy
  <1>3. ASSUME NEW h \in Handles, Open(h) \/ Close(h) \/ Crash(h) PROVE OneAtATime'
    <2>1. file' = "absent" => \A o \in Handles : session'[o] = Closed
      <3>1. session' \in [Handles -> Sessions]
        BY <1>3, RestingType DEF TypeOK, Open, Close, Crash, Volumes
      <3>2. file = "absent" => session'[h] = Closed
        BY <1>3, SessionStep DEF Open, Close, Crash
      <3> QED
        BY <1>3, <3>2, RestFields DEF OneAtATime
    <2> QED
      BY <1>3, <2>1, RestFields DEF OneAtATime, Busy, historyVars
  <1>4. ASSUME NEW h \in Handles, AddRecipient(h) \/ RemoveKey(h) PROVE OneAtATime'
    <2>0. PICK task \in {"add", "remove"} : \E c, alone, ws : Begins(h, task, c, alone, ws)
      BY <1>4 DEF AddRecipient, RemoveKey
    <2>1. PICK c, alone, ws : Begins(h, task, c, alone, ws)
      BY <2>0
    <2>2. file # "absent"
      BY <2>1, BeginFields, RestingTask DEF OneAtATime
    <2>3. /\ session'[h].task \in {"add", "remove"} /\ file' = file
          /\ \A o \in Handles \ {h} : session'[o] = session[o]
          /\ overlapped' = (overlapped \/ \E o \in Handles : Busy(o))
      BY <2>1, BeginFields
    <2>4. ~overlapped' => \A o \in Handles : ~Busy(o)
      BY <2>3
    <2>5. ~overlapped' => \A o \in Handles \ {h} : ~Busy(o)'
      BY <2>3, <2>4 DEF Busy
    <2> QED
      BY <2>2, <2>3, <2>5 DEF OneAtATime
  <1>5. ASSUME NEW h \in Handles, Write(h) PROVE OneAtATime'
    <2>1. file # "absent"
      BY <1>5, WriteFields, RestingTask DEF OneAtATime, Busy
    <2> QED
      BY <1>5, <2>1, WriteFields DEF OneAtATime, Busy, historyVars
  <1>6. ASSUME NEW h \in Handles, Return(h) PROVE OneAtATime'
    <2>1. file # "absent"
      BY <1>6, ReturnFields, RestingTask DEF OneAtATime, Busy
    <2>2. file' # file => file' = "made" /\ session[h].task = "create"
      BY <1>6 DEF Return
    <2> QED
      BY <1>6, <2>1, <2>2, ReturnFields DEF OneAtATime, Busy
  <1>7. CASE Damage
    BY <1>7 DEF Damage, OneAtATime, Busy, historyVars
  <1> QED
    BY <1>1, <1>2, <1>3, <1>4, <1>5, <1>6, <1>7 DEF Next

-----------------------------------------------------------------------------
(* What is written, in whatever set the single writes are.                   *)

LEMMA PendingBefore ==
    ASSUME NEW S, NEW s \in Seq(S), NEW t \in Seq(S), NEW to, NEW place, Pending(s, to, place)
    PROVE  Pending(s \o t, to, place)
  <1>1. PICK i \in 1..Len(s) : s[i].to = to /\ s[i].place = place
    BY DEF Pending
  <1>2. Len(s \o t) = Len(s) + Len(t) /\ Len(s) \in Nat /\ Len(t) \in Nat
    OBVIOUS
  <1>3. i \in 1..Len(s \o t) /\ (s \o t)[i] = s[i]
    BY <1>2
  <1> QED
    BY <1>1, <1>3 DEF Pending

LEMMA CreateWritesIn ==
    ASSUME NEW sh \in ShapeKinds, NEW S,
           sh \in HiddenShapes =>
              /\ HeaderWrite("end", Header("k_hidden", Counted(1, 0))) \in S
              /\ HeaderWrite("end", HiddenHeader(sh)) \in S
              /\ HeaderWrite("second", HiddenHeader(sh)) \in S
              /\ RootWrite("hidden", "k_hidden") \in S,
           \A n \in {Counted(0, 0), Counted(1, 0)} :
              /\ HeaderWrite("start", Header("outer", n)) \in S
              /\ HeaderWrite(CreatedBackup(sh), Header("outer", n)) \in S,
           SlotWrite("password", 0, Slot(Owner, "outer")) \in S,
           RootWrite("outer", "outer") \in S
    PROVE  HiddenWrites(sh) \in Seq(S) /\ OuterWrites(sh) \in Seq(S) /\ CreateWrites(sh) \in Seq(S)
  <1> DEFINE sealed == HeaderWrite("end", Header("k_hidden", Counted(1, 0)))
             first == HeaderWrite("end", HiddenHeader(sh))
             second == HeaderWrite("second", HiddenHeader(sh))
             hidden == RootWrite("hidden", "k_hidden")
             start(n) == HeaderWrite("start", Header("outer", n))
             backup(n) == HeaderWrite(CreatedBackup(sh), Header("outer", n))
             slot == SlotWrite("password", 0, Slot(Owner, "outer"))
             root == RootWrite("outer", "outer")
  <1>1. HiddenWrites(sh) \in Seq(S)
    <2>1. CASE sh \notin HiddenShapes
      BY <2>1 DEF HiddenWrites
    <2>2. CASE sh \in HiddenShapes
      <3>1. <<sealed>> \in Seq(S) /\ <<sealed, first, second, hidden>> \in Seq(S)
        BY <2>2, Tuples
      <3> QED
        BY <2>2, <3>1 DEF HiddenWrites
    <2> QED
      BY <2>1, <2>2
  <1>2. OuterWrites(sh) \in Seq(S)
    <2>1. CASE sh = "keys only"
      <3>1. <<start(Counted(0, 0)), backup(Counted(0, 0)), root>> \in Seq(S)
        BY Tuples
      <3> QED
        BY <2>1, <3>1 DEF OuterWrites
    <2>2. CASE sh # "keys only"
      <3>1. <<start(Counted(1, 0)), backup(Counted(1, 0)), slot, root>> \in Seq(S)
        BY Tuples
      <3> QED
        BY <2>2, <3>1 DEF OuterWrites
    <2> QED
      BY <2>1, <2>2
  <1> QED
    BY <1>1, <1>2, Concatenated DEF CreateWrites

LEMMA RemoveWritesIn ==
    ASSUME NEW n \in 1..MaxSlots, NEW j \in 0..(n - 1), NEW S,
           \A i \in 1..(n - 1) :
              SlotWrite("key", i - 1, slots[<<"key", IF i <= j THEN i - 1 ELSE i>>]) \in S,
           SlotWrite("key", n - 1, NoiseSlot) \in S
    PROVE  RemoveWrites(n, j) \in Seq(S)
  <1>1. Shifted(n, j) \in [1..(n - 1) -> S]
    BY DEF Shifted
  <1>2. n - 1 \in Nat
    BY Bounds
  <1>3. Shifted(n, j) \in Seq(S)
    BY <1>1, <1>2
  <1>4. <<SlotWrite("key", n - 1, NoiseSlot)>> \in Seq(S)
    BY Tuples
  <1> QED
    BY <1>3, <1>4, Concatenated DEF RemoveWrites

LEMMA HeaderWritesIn ==
    ASSUME NEW h, NEW n, NEW S,
           HeaderWrite("start", Header("outer", n)) \in S,
           HeaderWrite(BackupPlace, Header("outer", n)) \in S
    PROVE  HeaderWrites(h, n) \in Seq(S)
  BY DEF HeaderWrites

(* What a removal finds: the slot is in the counted part of the area. *)
LEMMA RemovePicks ==
    ASSUME TypeOK, NEW h \in Handles, RemoveKey(h)
    PROVE  \E n \in 1..MaxSlots, alone \in BOOLEAN, counts \in AllCounts : \E j \in 0..(n - 1) :
              /\ n = Primary.n["key"] /\ counts = [Primary.n EXCEPT !["key"] = n - 1]
              /\ j \in Indices
              /\ alone <=> \A i \in Indices \ {j} :
                              slots[<<"key", i>>].credential # slots[<<"key", j>>].credential
              /\ session[h].volume = "outer" \/ "hidden manage" \in Faults
              /\ granted' = IF session[h].volume = "outer"
                            THEN granted \ {slots[<<"key", j>>].credential} ELSE granted
              /\ UNCHANGED revoked
              /\ Begins(h, "remove", slots[<<"key", j>>].credential, alone,
                        RemoveWrites(n, j) \o HeaderWrites(h, counts))
  <1> DEFINE c(j) == slots[<<"key", j>>].credential
             n == Primary.n["key"]
             lone(j) == \A i \in Indices \ {j} : slots[<<"key", i>>].credential # c(j)
             counts == [Primary.n EXCEPT !["key"] = n - 1]
             ws(j) == RemoveWrites(n, j) \o HeaderWrites(h, counts)
  <1>1. PICK j \in Indices :
            /\ j < n
            /\ session[h].volume = "outer" \/ "hidden manage" \in Faults
            /\ Begins(h, "remove", c(j), lone(j), ws(j))
            /\ granted' = IF session[h].volume = "outer" THEN granted \ {c(j)} ELSE granted
            /\ UNCHANGED revoked
    BY DEF RemoveKey
  <1>2. Primary.n \in AllCounts /\ "key" \in Kinds
    BY DEF TypeOK, Primary, HeaderValues, Places, Kinds
  <1>8. j < n
    BY <1>1, Zenon
  <1>3. n \in 1..MaxSlots /\ j \in 0..(n - 1)
    BY <1>2, <1>8, Bounds DEF AllCounts
  <1>4. counts \in AllCounts
    BY <1>2, <1>3, Bounds DEF AllCounts
  <1>5. PICK alone \in BOOLEAN : alone = lone(j)
    OBVIOUS
  <1>6. Begins(h, "remove", c(j), alone, ws(j))
    BY <1>1, <1>5, Zenon
  <1>7. alone <=> \A i \in Indices \ {j} : slots[<<"key", i>>].credential # slots[<<"key", j>>].credential
    BY <1>5
  <1> HIDE DEF lone
  <1> QED
    BY <1>1, <1>3, <1>4, <1>6, <1>7

(* What an addition finds: the slot behind the last one counted. *)
LEMMA AddPicks ==
    ASSUME TypeOK, NEW h \in Handles, AddRecipient(h)
    PROVE  \E c \in Credentials \ granted, kind \in Kinds, i \in Indices, counts \in AllCounts :
              /\ kind = KindOf(c) /\ i = Primary.n[kind]
              /\ counts = [Primary.n EXCEPT ![kind] = i + 1]
              /\ revoked' = revoked \ {c} /\ UNCHANGED granted
              /\ Begins(h, "add", c, TRUE,
                        <<SlotWrite(kind, i, Slot(c, KeyOfVolume(session[h].volume)))>>
                        \o HeaderWrites(h, counts))
  <1>1. PICK c \in Credentials \ granted :
            /\ HasRoom(KindOf(c))
            /\ Begins(h, "add", c, TRUE,
                      <<SlotWrite(KindOf(c), AddIndex(KindOf(c)),
                                  Slot(c, KeyOfVolume(session[h].volume)))>>
                      \o HeaderWrites(h, [Primary.n EXCEPT ![KindOf(c)] = @ + 1]))
            /\ revoked' = revoked \ {c}
            /\ UNCHANGED granted
    BY DEF AddRecipient
  <1> DEFINE kind == KindOf(c)
             i == Primary.n[kind]
             counts == [Primary.n EXCEPT ![kind] = i + 1]
  <1>2. Primary.n \in AllCounts /\ kind \in Kinds
    BY DEF TypeOK, Primary, HeaderValues, Places, KindOf, Kinds
  <1>3. counts \in AllCounts /\ i \in Indices
    BY <1>1, <1>2, Bounds DEF AllCounts, HasRoom, Indices
  <1>4. Begins(h, "add", c, TRUE,
               <<SlotWrite(kind, i, Slot(c, KeyOfVolume(session[h].volume)))>> \o HeaderWrites(h, counts))
    BY <1>1 DEF AddIndex
  <1> HIDE DEF counts
  <1> QED
    BY <1>1, <1>2, <1>3, <1>4 DEF counts

-----------------------------------------------------------------------------
(* Which headers there are, kept.                                            *)

LEMMA NoHeaderApart ==
    ASSUME NEW sh, NEW task, NEW w \in Writes, w.to # "header"
    PROVE  w \in ApartWrites(sh, task)
  BY DEF ApartWrites

LEMMA SlotWriteTo ==
    /\ \A kind, i, slot : /\ SlotWrite(kind, i, slot).to = "slot"
                          /\ SlotWrite(kind, i, slot).place = <<kind, i>>
                          /\ SlotWrite(kind, i, slot).value = slot
    /\ \A volume, key : /\ RootWrite(volume, key).to = "root"
                        /\ RootWrite(volume, key).place = volume
                        /\ RootWrite(volume, key).value = key
    /\ \A place, header : /\ HeaderWrite(place, header).to = "header"
                          /\ HeaderWrite(place, header).place = place
                          /\ HeaderWrite(place, header).value = header
  BY DEF SlotWrite, RootWrite, HeaderWrite

LEMMA HeaderWriteApart ==
    ASSUME NEW sh, NEW task, NEW place \in Places, NEW header \in HeaderValues,
           place \in {"start", CreatedBackup(sh)} => header.key = "outer",
           header.key = "derived" => sh = "hidden",
           sh = "hidden" /\ place \in HiddenPlaces =>
              /\ task = "create" /\ header.key # "outer"
              /\ place = "second" => header.key = "derived"
    PROVE  HeaderWrite(place, header) \in ApartWrites(sh, task)
  BY WriteType, SlotWriteTo DEF ApartWrites

LEMMA CreateWritesApart ==
    ASSUME NEW sh \in ShapeKinds
    PROVE  /\ CreateWrites(sh) \in Seq(ApartWrites(sh, "create"))
           /\ sh = "hidden" => Pending(CreateWrites(sh), "header", "second")
  <1> DEFINE S == ApartWrites(sh, "create")
  <1>1. /\ CreatedBackup(sh) \in Places
        /\ sh \in HiddenShapes => CreatedBackup(sh) = "end2"
        /\ sh = "hidden" => sh \in HiddenShapes
        /\ "outer" \in CryptKeys /\ "k_hidden" \in CryptKeys
    BY DEF CreatedBackup, Places, HiddenShapes, CryptKeys
  <1>2. ASSUME sh \in HiddenShapes
        PROVE  /\ HeaderWrite("end", Header("k_hidden", Counted(1, 0))) \in S
               /\ HeaderWrite("end", HiddenHeader(sh)) \in S
               /\ HeaderWrite("second", HiddenHeader(sh)) \in S
               /\ RootWrite("hidden", "k_hidden") \in S
    <2>1. /\ Header("k_hidden", Counted(1, 0)) \in HeaderValues
          /\ Header("k_hidden", Counted(1, 0)).key = "k_hidden"
      BY <1>1, OneZero, HeaderType
    <2>2. /\ HiddenHeader(sh) \in HeaderValues
          /\ HiddenHeader(sh).key = IF sh = "hidden" THEN "derived" ELSE "none"
      BY OneZero, HeaderType DEF HiddenHeader, CryptKeys
    <2>3. HeaderWrite("end", Header("k_hidden", Counted(1, 0))) \in S
      BY <1>1, <1>2, <2>1, HeaderWriteApart DEF Places
    <2>4. HeaderWrite("end", HiddenHeader(sh)) \in S
      BY <1>1, <1>2, <2>2, HeaderWriteApart DEF Places
    <2>5. HeaderWrite("second", HiddenHeader(sh)) \in S
      BY <1>1, <1>2, <2>2, HeaderWriteApart DEF Places
    <2>6. RootWrite("hidden", "k_hidden") \in S
      <3>1. RootWrite("hidden", "k_hidden") \in Writes
        BY <1>1, WriteType DEF Volumes
      <3> QED
        BY <3>1, NoHeaderApart, SlotWriteTo
    <2> QED
      BY <2>3, <2>4, <2>5, <2>6
  <1>3. ASSUME NEW n \in {Counted(0, 0), Counted(1, 0)}
        PROVE  /\ HeaderWrite("start", Header("outer", n)) \in S
               /\ HeaderWrite(CreatedBackup(sh), Header("outer", n)) \in S
    <2>1. Header("outer", n) \in HeaderValues /\ Header("outer", n).key = "outer"
      BY <1>1, OneZero, HeaderType
    <2>2. HeaderWrite("start", Header("outer", n)) \in S
      BY <1>1, <2>1, HeaderWriteApart DEF Places, HiddenPlaces
    <2>3. HeaderWrite(CreatedBackup(sh), Header("outer", n)) \in S
      BY <1>1, <2>1, HeaderWriteApart DEF HiddenPlaces
    <2> QED
      BY <2>2, <2>3
  <1>4. SlotWrite("password", 0, Slot(Owner, "outer")) \in S /\ RootWrite("outer", "outer") \in S
    <2>1. Slot(Owner, "outer") \in SlotValues
      BY <1>1, Bounds, SlotType
    <2>2. SlotWrite("password", 0, Slot(Owner, "outer")) \in Writes
          /\ RootWrite("outer", "outer") \in Writes
      BY <1>1, <2>1, Bounds, WriteType DEF Kinds, Volumes
    <2> QED
      BY <2>2, NoHeaderApart, SlotWriteTo
  <1>5. /\ CreateWrites(sh) \in Seq(S) /\ HiddenWrites(sh) \in Seq(S) /\ OuterWrites(sh) \in Seq(S)
    <2> HIDE DEF S
    <2> QED
      BY <1>2, <1>3, <1>4, CreateWritesIn
  <1>6. ASSUME sh = "hidden" PROVE Pending(CreateWrites(sh), "header", "second")
    <2> DEFINE a == HeaderWrite("end", Header("k_hidden", Counted(1, 0)))
               b == HeaderWrite("end", HiddenHeader(sh))
               c == HeaderWrite("second", HiddenHeader(sh))
               d == RootWrite("hidden", "k_hidden")
    <2>1. HiddenWrites(sh) = <<a, b, c, d>>
      BY <1>1, <1>6 DEF HiddenWrites
    <2>2. c.to = "header" /\ c.place = "second"
      BY SlotWriteTo
    <2> HIDE DEF a, b, c, d
    <2>3. Pending(HiddenWrites(sh), "header", "second")
      BY <2>1, <2>2, PendingInTuple
    <2>4. CreateWrites(sh) = HiddenWrites(sh) \o OuterWrites(sh)
      BY <1>6 DEF CreateWrites
    <2> QED
      BY <1>5, <2>3, <2>4, PendingBefore
  <1> QED
    BY <1>5, <1>6

LEMMA OperationApart ==
    ASSUME TypeOK, NEW h \in Handles, AddRecipient(h) \/ RemoveKey(h)
    PROVE  \E task \in {"add", "remove"} : \E c, alone : \E ws \in Seq(ApartWrites(shape, task)) :
              Begins(h, task, c, alone, ws)
  <1>1. ASSUME NEW task, NEW counts \in AllCounts
        PROVE  HeaderWrites(h, counts) \in Seq(ApartWrites(shape, task))
    <2>1. Header("outer", counts) \in HeaderValues /\ Header("outer", counts).key = "outer"
      BY HeaderType DEF CryptKeys
    <2>2. /\ BackupPlace \in Places /\ (shape = "hidden" => BackupPlace = "end2")
          /\ BackupPlace = CreatedBackup(shape) /\ "start" \in Places
      BY DEF BackupPlace, CreatedBackup, Places, HiddenShapes
    <2>3. /\ HeaderWrite("start", Header("outer", counts)) \in ApartWrites(shape, task)
          /\ HeaderWrite(BackupPlace, Header("outer", counts)) \in ApartWrites(shape, task)
      BY <2>1, <2>2, HeaderWriteApart DEF HiddenPlaces
    <2> QED
      BY <2>3, HeaderWritesIn
  <1>2. CASE AddRecipient(h)
    <2>1. PICK c \in Credentials \ granted, kind \in Kinds, i \in Indices, counts \in AllCounts :
             Begins(h, "add", c, TRUE,
                    <<SlotWrite(kind, i, Slot(c, KeyOfVolume(session[h].volume)))>>
                    \o HeaderWrites(h, counts))
      BY <1>2, AddPicks
    <2> DEFINE w == SlotWrite(kind, i, Slot(c, KeyOfVolume(session[h].volume)))
               ws == <<w>> \o HeaderWrites(h, counts)
    <2>2. w \in ApartWrites(shape, "add")
      <3>1. Slot(c, KeyOfVolume(session[h].volume)) \in SlotValues
        BY SlotType DEF KeyOfVolume, CryptKeys
      <3>2. w \in Writes
        BY <3>1, WriteType
      <3> QED
        BY <3>2, NoHeaderApart, SlotWriteTo
    <2> HIDE DEF w
    <2>3. ws \in Seq(ApartWrites(shape, "add"))
      BY <1>1, <2>2, Tuples, Concatenated
    <2> QED
      BY <2>1, <2>3 DEF w
  <1>3. CASE RemoveKey(h)
    <2>1. PICK n \in 1..MaxSlots, alone \in BOOLEAN, counts \in AllCounts : \E j \in 0..(n - 1) :
             Begins(h, "remove", slots[<<"key", j>>].credential, alone,
                    RemoveWrites(n, j) \o HeaderWrites(h, counts))
      BY <1>3, RemovePicks
    <2>2. PICK j \in 0..(n - 1) :
             Begins(h, "remove", slots[<<"key", j>>].credential, alone,
                    RemoveWrites(n, j) \o HeaderWrites(h, counts))
      BY <2>1
    <2>3. "key" \in Kinds /\ \A q \in 0..(n - 1) : q \in Indices
      BY Bounds DEF Kinds, Indices
    <2>4. ASSUME NEW q \in 0..(n - 1), NEW slot \in SlotValues
          PROVE  SlotWrite("key", q, slot) \in ApartWrites(shape, "remove")
      <3>1. SlotWrite("key", q, slot) \in Writes
        BY <2>3, WriteType
      <3> QED
        BY <3>1, NoHeaderApart, SlotWriteTo
    <2>5. ASSUME NEW i \in 1..(n - 1)
          PROVE  SlotWrite("key", i - 1, slots[<<"key", IF i <= j THEN i - 1 ELSE i>>])
                    \in ApartWrites(shape, "remove")
      <3>1. i - 1 \in 0..(n - 1) /\ i \in 0..(n - 1)
        BY Bounds
      <3>2. slots[<<"key", IF i <= j THEN i - 1 ELSE i>>] \in SlotValues
        BY <2>3, <3>1 DEF TypeOK
      <3> QED
        BY <2>4, <3>1, <3>2
    <2>6. SlotWrite("key", n - 1, NoiseSlot) \in ApartWrites(shape, "remove")
      <3>1. n - 1 \in 0..(n - 1)
        BY Bounds
      <3> QED
        BY <2>4, <3>1, NoiseType
    <2>7. RemoveWrites(n, j) \in Seq(ApartWrites(shape, "remove"))
      BY <2>5, <2>6, RemoveWritesIn
    <2>8. RemoveWrites(n, j) \o HeaderWrites(h, counts) \in Seq(ApartWrites(shape, "remove"))
      BY <1>1, <2>7, Concatenated
    <2> QED
      BY <2>2, <2>8
  <1> QED
    BY <1>2, <1>3

(* What one such write does to the headers. *)
LEMMA AppliedApart ==
    ASSUME TypeOK, HeadersApart, NEW task, NEW w \in ApartWrites(shape, task), Applied(w),
           UNCHANGED shape
    PROVE  /\ HeadersApart'
           /\ shape = "hidden" =>
                 /\ headers["second"].key = "derived" => headers'["second"].key = "derived"
                 /\ w.to = "header" /\ w.place = "second" => headers'["second"].key = "derived"
                 /\ task # "create" => \A p \in HiddenPlaces : headers'[p] = headers[p]
  <1>0. w \in Writes
    BY DEF ApartWrites
  <1>1. CASE w.to # "header"
    <2>1. headers' = headers
      BY <1>1 DEF Applied
    <2> QED
      BY <1>1, <2>1 DEF HeadersApart
  <1>2. CASE w.to = "header"
    <2>1. /\ w.place \in Places
          /\ w.place \in {"start", CreatedBackup(shape)} => w.value.key = "outer"
          /\ w.value.key = "derived" => shape = "hidden"
          /\ shape = "hidden" /\ w.place \in HiddenPlaces =>
                /\ task = "create" /\ w.value.key # "outer"
                /\ w.place = "second" => w.value.key = "derived"
      BY <1>0, <1>2 DEF ApartWrites, Writes
    <2>2. headers' = [headers EXCEPT ![w.place] = w.value]
      BY <1>2 DEF Applied
    <2>3. \A p \in Places : headers'[p] = IF p = w.place THEN w.value ELSE headers[p]
      BY <2>2 DEF TypeOK
    <2>4. HiddenPlaces \subseteq Places /\ "second" \in HiddenPlaces
          /\ "start" \in Places /\ CreatedBackup(shape) \in Places
      BY DEF HiddenPlaces, Places, CreatedBackup
    <2>5. HeadersApart'
      BY <2>1, <2>3, <2>4 DEF HeadersApart
    <2> QED
      BY <2>1, <2>3, <2>4, <2>5
  <1> QED
    BY <1>1, <1>2

(* The session of another handle is not disturbed by a write. *)
LEMMA OthersApart ==
    ASSUME NEW o \in Handles, SessionApart(o), session'[o] = session[o], UNCHANGED shape,
           shape = "hidden" /\ headers["second"].key = "derived" => headers'["second"].key = "derived"
    PROVE  SessionApart(o)'
  BY DEF SessionApart, Busy, HiddenUnderway

LEMMA HeadersWrite ==
    ASSUME TypeOK, HeadersKept, NEW h \in Handles, Write(h) \/ Return(h), OneAtATime'
    PROVE  HeadersKept'
  <1> DEFINE ws == session[h].writes
             w == Head(ws)
  <1>1. /\ Busy(h) /\ Len(ws) >= 1 /\ Applied(w) /\ UNCHANGED shape
        /\ \A o \in Handles \ {h} : session'[o] = session[o]
    BY WriteFields, ReturnFields
  <1>2. ws \in Seq(ApartWrites(shape, session[h].task))
    BY <1>1 DEF HeadersKept, SessionApart
  <1>3. w \in ApartWrites(shape, session[h].task)
        /\ Tail(ws) \in Seq(ApartWrites(shape, session[h].task))
    BY <1>1, <1>2, HeadTail
  <1>4. /\ HeadersApart'
        /\ shape = "hidden" =>
              /\ headers["second"].key = "derived" => headers'["second"].key = "derived"
              /\ w.to = "header" /\ w.place = "second" => headers'["second"].key = "derived"
              /\ session[h].task # "create" => \A p \in HiddenPlaces : headers'[p] = headers[p]
    BY <1>1, <1>3, AppliedApart DEF HeadersKept
  <1>5. ASSUME session[h].task = "create", shape = "hidden"
        PROVE  headers'["second"].key = "derived"
                  \/ (Len(ws) > 1 /\ Pending(Tail(ws), "header", "second"))
    <2>1. HiddenUnderway(h)
      BY <1>5 DEF HeadersKept, SessionApart
    <2>2. CASE headers["second"].key = "derived"
      BY <1>4, <1>5, <2>2
    <2>3. CASE Pending(ws, "header", "second")
      BY <1>1, <1>2, <1>4, <1>5, <2>3, PendingStep
    <2> QED
      BY <2>1, <2>2, <2>3 DEF HiddenUnderway
  <1>6. \A o \in Handles \ {h} : SessionApart(o)'
    BY <1>1, <1>4, OthersApart DEF HeadersKept
  <1>7. SessionApart(h)'
    <2>1. CASE Write(h)
      <3>1. /\ session'[h].task = session[h].task /\ session'[h].volume = session[h].volume
            /\ session'[h].writes = Tail(ws)
        BY <2>1, WriteFields
      <3> QED
        BY <1>1, <1>3, <1>5, <3>1 DEF HeadersKept, SessionApart, HiddenUnderway
    <2>2. CASE Return(h)
      <3>1. /\ session'[h].task \in {"closed", "idle"}
            /\ session'[h].task = "idle" => session'[h].volume = session[h].volume
        BY <2>2, ReturnFields
      <3> QED
        BY <1>1, <3>1 DEF HeadersKept, SessionApart, Busy
    <2> QED
      BY <2>1, <2>2
  <1>8. ASSUME file' = "made", shape = "hidden" PROVE Authentic("derived", HiddenPlaces)'
    <2>1. CASE file = "made"
      <3>1. session[h].task # "create"
        BY <2>1 DEF HeadersKept, OneAtATime
      <3>2. Authentic("derived", HiddenPlaces)
        BY <1>8, <2>1 DEF HeadersKept
      <3> QED
        BY <1>4, <1>8, <3>1, <3>2 DEF Authentic
    <2>2. CASE file # "made"
      <3>1. Return(h) /\ ~Write(h)
        BY <1>8, <2>2, WriteFields
      <3>3. session[h].task = "create" /\ ~(Len(ws) > 1)
        <4>1. file' = IF session[h].task = "create" /\ session[h].ok THEN "made" ELSE file
          BY <3>1 DEF Return
        <4>2. session[h].task = "create"
          BY <1>8, <2>2, <4>1, Zenon
        <4>3. Len(ws) = 1
          BY <3>1 DEF Return
        <4> QED
          BY <4>2, <4>3
      <3>2. headers'["second"].key = "derived"
        BY <1>5, <1>8, <3>3
      <3> QED
        BY <3>2 DEF Authentic, HiddenPlaces
    <2> QED
      BY <2>1, <2>2
  <1> QED
    BY <1>1, <1>4, <1>6, <1>7, <1>8 DEF HeadersKept

LEMMA HeadersCreate ==
    ASSUME TypeOK, HeadersKept, NEW h \in Handles, Create(h), OneAtATime'
    PROVE  HeadersKept'
  <1>1. /\ file = "absent" /\ file' = "partial" /\ shape' \in ShapeKinds
        /\ \A p \in Places : headers'[p].key = "none"
        /\ session'[h].task = "create" /\ session'[h].volume = "outer"
        /\ session'[h].writes = CreateWrites(shape')
        /\ \A o \in Handles \ {h} : session'[o] = session[o]
    BY CreateFields
  <1>2. HeadersApart'
    <2>1. HiddenPlaces \subseteq Places /\ "start" \in Places /\ CreatedBackup(shape') \in Places
      BY DEF HiddenPlaces, Places, CreatedBackup
    <2> QED
      BY <1>1, <2>1 DEF HeadersApart
  <1>3. /\ CreateWrites(shape') \in Seq(ApartWrites(shape', "create"))
        /\ shape' = "hidden" => Pending(CreateWrites(shape'), "header", "second")
    BY <1>1, CreateWritesApart
  <1>4. SessionApart(h)'
    BY <1>1, <1>3 DEF SessionApart, HiddenUnderway
  <1>5. ASSUME NEW o \in Handles \ {h} PROVE SessionApart(o)'
    <2>1. session'[o].task = "closed"
      BY <1>1, RestingTask DEF HeadersKept, OneAtATime
    <2> QED
      BY <2>1 DEF SessionApart, Busy
  <1> QED
    BY <1>1, <1>2, <1>4, <1>5 DEF HeadersKept

LEMMA HeadersStep ==
    ASSUME TypeOK, HeadersKept, [Next]_vars
    PROVE  HeadersKept'
  <1>0. OneAtATime'
    BY OrderStep DEF HeadersKept
  <1>1. CASE UNCHANGED vars
    <2>1. UNCHANGED <<file, shape, headers, session>>
      BY <1>1 DEF vars, fileVars
    <2> QED
      BY <1>0, <2>1 DEF HeadersKept, HeadersApart, SessionApart, Busy, HiddenUnderway, Authentic
  <1>2. ASSUME NEW h \in Handles, Create(h) PROVE HeadersKept'
    BY <1>0, <1>2, HeadersCreate
  <1>3. ASSUME NEW h \in Handles, Open(h) \/ Close(h) \/ Crash(h) PROVE HeadersKept'
    <2>1. /\ session'[h].task \in {"closed", "idle"}
          /\ \A o \in Handles \ {h} : session'[o] = session[o]
          /\ session'[h].task = "idle" =>
                (session'[h].volume = "hidden" => Authentic("derived", HiddenPlaces))
          /\ UNCHANGED <<file, shape, fileVars>>
      BY <1>3, RestFields
    <2>2. UNCHANGED headers
      BY <2>1 DEF fileVars
    <2>3. Authentic("derived", HiddenPlaces) => shape = "hidden"
      BY DEF HeadersKept, HeadersApart, Authentic, HiddenPlaces, Places
    <2>4. SessionApart(h)'
      BY <2>1, <2>3 DEF SessionApart, Busy
    <2>5. \A o \in Handles \ {h} : SessionApart(o)'
      BY <2>1, <2>2, OthersApart DEF HeadersKept
    <2>6. HeadersApart' /\ (file = "made" /\ shape = "hidden" => Authentic("derived", HiddenPlaces))'
      BY <2>1, <2>2 DEF HeadersKept, HeadersApart, Authentic
    <2> QED
      BY <1>0, <2>4, <2>5, <2>6 DEF HeadersKept
  <1>4. ASSUME NEW h \in Handles, AddRecipient(h) \/ RemoveKey(h) PROVE HeadersKept'
    <2>1. PICK task \in {"add", "remove"} : \E c, alone : \E ws \in Seq(ApartWrites(shape, task)) :
             Begins(h, task, c, alone, ws)
      BY <1>4, OperationApart
    <2>2. PICK c, alone : \E ws \in Seq(ApartWrites(shape, task)) : Begins(h, task, c, alone, ws)
      BY <2>1
    <2>3. PICK ws \in Seq(ApartWrites(shape, task)) : Begins(h, task, c, alone, ws)
      BY <2>2
    <2>4. /\ session[h].task = "idle"
          /\ session'[h].task = task /\ session'[h].volume = session[h].volume
          /\ session'[h].writes = ws
          /\ \A o \in Handles \ {h} : session'[o] = session[o]
          /\ UNCHANGED <<file, shape, fileVars>>
      BY <2>3, BeginFields
    <2>5. UNCHANGED headers
      BY <2>4 DEF fileVars
    <2>6. SessionApart(h)'
      BY <2>4 DEF HeadersKept, SessionApart, Busy
    <2>7. \A o \in Handles \ {h} : SessionApart(o)'
      BY <2>4, <2>5, OthersApart DEF HeadersKept
    <2>8. HeadersApart' /\ (file = "made" /\ shape = "hidden" => Authentic("derived", HiddenPlaces))'
      BY <2>4, <2>5 DEF HeadersKept, HeadersApart, Authentic
    <2> QED
      BY <1>0, <2>6, <2>7, <2>8 DEF HeadersKept
  <1>5. ASSUME NEW h \in Handles, Write(h) \/ Return(h) PROVE HeadersKept'
    BY <1>0, <1>5, HeadersWrite
  <1>6. CASE Damage
    <2>1. PICK p \in HeaderPlaces, n \in DamagedCounts :
             headers' = [headers EXCEPT ![p] = Header("none", n)]
      BY <1>6 DEF Damage
    <2>2. /\ file = "made" /\ \A q \in HeaderPlaces : Sound(q)
          /\ \A h \in Handles : ~Busy(h)
          /\ UNCHANGED <<file, shape, session>>
      BY <1>6 DEF Damage
    <2>3. /\ HeaderPlaces \subseteq Places /\ HiddenPlaces \subseteq Places
          /\ shape = "hidden" => HiddenPlaces \subseteq HeaderPlaces
          /\ "start" \in Places /\ CreatedBackup(shape) \in Places
      BY DEF HeaderPlaces, HiddenPlaces, HiddenShapes, CreatedBackup, Places
    <2>4. \A q \in Places : headers'[q].key = IF q = p THEN "none" ELSE headers[q].key
      BY <2>1, <2>3 DEF TypeOK, Header
    <2>5. HeadersApart'
      BY <2>2, <2>3, <2>4 DEF HeadersKept, HeadersApart
    <2>6. \A h \in Handles : SessionApart(h)'
      BY <2>2 DEF HeadersKept, SessionApart, Busy
    <2>7. ASSUME shape = "hidden" PROVE Authentic("derived", HiddenPlaces)'
      <3>1. headers["second"].key = "derived" /\ headers["end"].key = "derived"
        BY <2>2, <2>3, <2>7 DEF HeadersKept, Sound, HeadersApart, HiddenPlaces
      <3>2. \E q \in HiddenPlaces : q # p
        BY DEF HiddenPlaces
      <3> QED
        BY <2>3, <2>4, <3>1, <3>2 DEF Authentic, HiddenPlaces
    <2> QED
      BY <1>0, <2>2, <2>5, <2>6, <2>7 DEF HeadersKept
  <1> QED
    BY <1>1, <1>2, <1>3, <1>4, <1>5, <1>6 DEF Next

LEMMA HeadersAlways == Spec => [](TypeOK /\ HeadersKept)
  <1>1. Init => HeadersKept
    <2> SUFFICES ASSUME Init PROVE HeadersKept
      OBVIOUS
    <2>1. \A p \in Places : headers[p].key = "none"
      BY DEF Init, Header
    <2>2. HeadersApart
      BY <2>1 DEF HeadersApart, CreatedBackup, HiddenPlaces, Places
    <2>3. \A h \in Handles : session[h] = Closed /\ session[h].task = "closed"
      BY RestingTask DEF Init
    <2> QED
      BY <2>2, <2>3 DEF HeadersKept, Init, OneAtATime, SessionApart, Busy
  <1>2. TypeOK /\ HeadersKept /\ [Next]_vars => HeadersKept'
    BY HeadersStep
  <1> QED
    BY <1>1, <1>2, TypeCorrect, PTL DEF Spec

(* The hidden password gets in from the end of create on, whatever the outer *)
(* volume's handles do, also with damaged bytes as their indices, and        *)
(* whichever header copy is damaged: nobody but create writes where the two  *)
(* hidden copies are.                                                        *)
THEOREM HiddenVolumeStays == Spec => []HiddenStays
  <1>1. TypeOK /\ HeadersKept => HiddenStays
    <2> SUFFICES ASSUME HeadersKept, file = "made", shape = "hidden" PROVE Opens(HiddenPassword)
      BY DEF HiddenStays
    <2>1. Authentic("derived", {"end", "second"})
      BY DEF HeadersKept, Authentic, HiddenPlaces
    <2> QED
      BY <2>1 DEF Opens, OpensHidden
  <1> QED
    BY <1>1, HeadersAlways, PTL

-----------------------------------------------------------------------------
(* Removed keys, kept out.                                                   *)

LEMMA NoSlotGone ==
    ASSUME NEW w \in Writes, w.to # "slot"
    PROVE  w \in GoneWrites /\ w \in GoneWrites' /\ \A c : w \in WritesNotOf(c)
  BY DEF GoneWrites, WritesNotOf, Writes

LEMMA HeaderWritesGone ==
    ASSUME NEW h, NEW counts \in AllCounts, NEW c
    PROVE  HeaderWrites(h, counts) \in Seq(GoneWrites')
           /\ HeaderWrites(h, counts) \in Seq(WritesNotOf(c))
  <1>1. Header("outer", counts) \in HeaderValues
    BY HeaderType DEF CryptKeys
  <1>2. "start" \in Places /\ BackupPlace \in Places
    BY DEF Places, BackupPlace
  <1>3. HeaderWrite("start", Header("outer", counts)) \in Writes
        /\ HeaderWrite(BackupPlace, Header("outer", counts)) \in Writes
    BY <1>1, <1>2, WriteType
  <1>4. /\ HeaderWrite("start", Header("outer", counts)) \in GoneWrites'
        /\ HeaderWrite("start", Header("outer", counts)) \in WritesNotOf(c)
    BY <1>3, NoSlotGone, SlotWriteTo
  <1>5. /\ HeaderWrite(BackupPlace, Header("outer", counts)) \in GoneWrites'
        /\ HeaderWrite(BackupPlace, Header("outer", counts)) \in WritesNotOf(c)
    BY <1>3, NoSlotGone, SlotWriteTo
  <1> QED
    BY <1>4, <1>5, HeaderWritesIn

LEMMA CreateWritesGone ==
    ASSUME NEW sh \in ShapeKinds
    PROVE  CreateWrites(sh) \in Seq(GoneWrites')
  <1> DEFINE S == GoneWrites'
  <1>1. ASSUME NEW place \in Places, NEW key \in CryptKeys, NEW n \in {Counted(0, 0), Counted(1, 0)}
        PROVE  HeaderWrite(place, Header(key, n)) \in S
    <2>1. Header(key, n) \in HeaderValues
      BY OneZero, HeaderType
    <2>2. HeaderWrite(place, Header(key, n)) \in Writes
      BY <2>1, WriteType
    <2> QED
      BY <2>2, NoSlotGone, SlotWriteTo
  <1>2. ASSUME NEW volume \in Volumes, NEW key \in CryptKeys PROVE RootWrite(volume, key) \in S
    <2>1. RootWrite(volume, key) \in Writes
      BY WriteType
    <2> QED
      BY <2>1, NoSlotGone, SlotWriteTo
  <1>3. SlotWrite("password", 0, Slot(Owner, "outer")) \in S
    <2>1. Slot(Owner, "outer") \in SlotValues
      BY Bounds, SlotType DEF CryptKeys
    <2>2. SlotWrite("password", 0, Slot(Owner, "outer")) \in Writes
      BY <2>1, Bounds, WriteType DEF Kinds
    <2>3. SlotWrite("password", 0, Slot(Owner, "outer")).place[1] = "password"
      BY DEF SlotWrite
    <2> QED
      BY <2>2, <2>3 DEF GoneWrites
  <1>4. /\ CreatedBackup(sh) \in Places /\ "start" \in Places /\ "end" \in Places /\ "second" \in Places
        /\ "outer" \in CryptKeys /\ "k_hidden" \in CryptKeys
        /\ "outer" \in Volumes /\ "hidden" \in Volumes
    BY DEF CreatedBackup, Places, CryptKeys, Volumes
  <1>5. /\ HeaderWrite("end", HiddenHeader(sh)) \in S
        /\ HeaderWrite("second", HiddenHeader(sh)) \in S
    <2>1. PICK key \in CryptKeys : HiddenHeader(sh) = Header(key, Counted(1, 0))
      BY DEF HiddenHeader, CryptKeys
    <2> QED
      BY <1>1, <1>4, <2>1
  <1> HIDE DEF S
  <1>6. CreateWrites(sh) \in Seq(S)
    BY <1>1, <1>2, <1>3, <1>4, <1>5, CreateWritesIn
  <1> QED
    BY <1>6 DEF S

(* The slots that a removal moves, and the one it wipes. *)
LEMMA RemoveWritesGone ==
    ASSUME TypeOK, KeysGone, UNCHANGED revoked, NEW n \in 1..MaxSlots, NEW j \in 0..(n - 1)
    PROVE  /\ RemoveWrites(n, j) \in Seq(GoneWrites')
           /\ Pending(RemoveWrites(n, j), "slot", <<"key", j>>)
           /\ \A c \in Keys :
                 (\A i \in Indices \ {j} : slots[<<"key", i>>].credential # c) =>
                    RemoveWrites(n, j) \in Seq(WritesNotOf(c))
  <1>1. "key" \in Kinds /\ n \in Nat /\ \A q \in 0..(n - 1) : q \in Indices
    BY Bounds DEF Kinds, Indices
  <1>2. ASSUME NEW i \in 1..(n - 1)
        PROVE  /\ i - 1 \in 0..(n - 1) /\ (IF i <= j THEN i - 1 ELSE i) \in (0..(n - 1)) \ {j}
    BY <1>1
  <1>3. n - 1 \in 0..(n - 1)
    BY <1>1
  <1>4. ASSUME NEW q \in 0..(n - 1), NEW slot \in SlotValues
        PROVE  /\ SlotWrite("key", q, slot) \in Writes
               /\ slot.credential \in (Keys \ revoked) \union {Nobody} =>
                     SlotWrite("key", q, slot) \in GoneWrites'
               /\ \A c : slot.credential # c => SlotWrite("key", q, slot) \in WritesNotOf(c)
    <2>1. SlotWrite("key", q, slot) \in Writes
      BY <1>1, WriteType
    <2>2. /\ SlotWrite("key", q, slot).value = slot
      BY SlotWriteTo
    <2> QED
      BY <2>1, <2>2 DEF GoneWrites, WritesNotOf
  <1>5. NoiseSlot \in SlotValues /\ NoiseSlot.credential = Nobody
    BY NoiseType DEF NoiseSlot, Slot
  <1>6. RemoveWrites(n, j) \in Seq(GoneWrites')
    <2>1. ASSUME NEW i \in 1..(n - 1)
          PROVE  SlotWrite("key", i - 1, slots[<<"key", IF i <= j THEN i - 1 ELSE i>>]) \in GoneWrites'
      <3> DEFINE q == IF i <= j THEN i - 1 ELSE i
      <3>1. q \in Indices /\ i - 1 \in 0..(n - 1)
        BY <1>1, <1>2
      <3> HIDE DEF q
      <3>2. slots[<<"key", q>>] \in SlotValues
            /\ slots[<<"key", q>>].credential \in (Keys \ revoked) \union {Nobody}
        BY <1>1, <3>1 DEF TypeOK, KeysGone
      <3>3. SlotWrite("key", i - 1, slots[<<"key", q>>]) \in GoneWrites'
        BY <1>4, <3>1, <3>2
      <3> QED
        BY <3>3 DEF q
    <2>2. SlotWrite("key", n - 1, NoiseSlot) \in GoneWrites'
      BY <1>3, <1>4, <1>5
    <2> QED
      BY <2>1, <2>2, RemoveWritesIn
  <1>7. ASSUME NEW c \in Keys, \A i \in Indices \ {j} : slots[<<"key", i>>].credential # c
        PROVE  RemoveWrites(n, j) \in Seq(WritesNotOf(c))
    <2>1. ASSUME NEW i \in 1..(n - 1)
          PROVE  SlotWrite("key", i - 1, slots[<<"key", IF i <= j THEN i - 1 ELSE i>>]) \in WritesNotOf(c)
      <3> DEFINE q == IF i <= j THEN i - 1 ELSE i
      <3>1. q \in Indices \ {j} /\ i - 1 \in 0..(n - 1)
        BY <1>1, <1>2
      <3> HIDE DEF q
      <3>2. slots[<<"key", q>>] \in SlotValues /\ slots[<<"key", q>>].credential # c
        BY <1>1, <1>7, <3>1 DEF TypeOK
      <3>3. SlotWrite("key", i - 1, slots[<<"key", q>>]) \in WritesNotOf(c)
        BY <1>4, <3>1, <3>2
      <3> QED
        BY <3>3 DEF q
    <2>2. SlotWrite("key", n - 1, NoiseSlot) \in WritesNotOf(c)
      <3>1. Nobody # c
        BY CredentialsAssumption
      <3> QED
        BY <1>3, <1>4, <1>5, <3>1
    <2> QED
      BY <2>1, <2>2, RemoveWritesIn
  <1>8. Pending(RemoveWrites(n, j), "slot", <<"key", j>>)
    <2> DEFINE last == SlotWrite("key", n - 1, NoiseSlot)
    <2>1. Shifted(n, j) \in Seq(Writes) /\ <<last>> \in Seq(Writes)
      <3>1. ASSUME NEW i \in 1..(n - 1) PROVE Shifted(n, j)[i] \in Writes
        <4>1. slots[<<"key", IF i <= j THEN i - 1 ELSE i>>] \in SlotValues /\ i - 1 \in 0..(n - 1)
          BY <1>1, <1>2 DEF TypeOK
        <4> QED
          BY <1>4, <4>1 DEF Shifted
      <3>2. Shifted(n, j) \in [1..(n - 1) -> Writes] /\ n - 1 \in Nat
        BY <1>1, <3>1 DEF Shifted
      <3>3. last \in Writes
        BY <1>3, <1>4, <1>5
      <3> HIDE DEF last
      <3> QED
        BY <3>2, <3>3
    <2>2. CASE j < n - 1
      <3>1. j + 1 \in 1..(n - 1) /\ Len(Shifted(n, j)) = n - 1
        BY <1>1, <2>2 DEF Shifted
      <3>2. Shifted(n, j)[j + 1].to = "slot" /\ Shifted(n, j)[j + 1].place = <<"key", j>>
        BY <3>1, SlotWriteTo DEF Shifted
      <3>3. Pending(Shifted(n, j), "slot", <<"key", j>>)
        BY <3>1, <3>2 DEF Pending
      <3> HIDE DEF last
      <3> QED
        BY <2>1, <3>3, PendingBefore DEF RemoveWrites, last
    <2>3. CASE j = n - 1
      <3>1. last.to = "slot" /\ last.place = <<"key", j>>
        BY <2>3, SlotWriteTo
      <3> HIDE DEF last
      <3>2. 1 \in 1..Len(<<last>>) /\ <<last>>[1] = last
        OBVIOUS
      <3>3. Pending(<<last>>, "slot", <<"key", j>>)
        BY <3>1, <3>2 DEF Pending
      <3> QED
        BY <2>1, <3>3, PendingBehind DEF RemoveWrites, last
    <2> QED
      BY <1>1, <2>2, <2>3
  <1> QED
    BY <1>6, <1>7, <1>8

LEMMA RevokedAdd ==
    ASSUME TypeOK, OneAtATime, RevokedKept, NEW h \in Handles, AddRecipient(h)
    PROVE  RevokedKept'
  <1>1. PICK c \in Credentials \ granted, kind \in Kinds, i \in Indices, counts \in AllCounts :
           /\ kind = KindOf(c)
           /\ revoked' = revoked \ {c}
           /\ Begins(h, "add", c, TRUE,
                     <<SlotWrite(kind, i, Slot(c, KeyOfVolume(session[h].volume)))>>
                     \o HeaderWrites(h, counts))
    BY AddPicks
  <1> DEFINE slot == Slot(c, KeyOfVolume(session[h].volume))
             w == SlotWrite(kind, i, slot)
             ws == <<w>> \o HeaderWrites(h, counts)
  <1>2. /\ session'[h].task = "add" /\ session'[h].writes = ws
        /\ \A o \in Handles \ {h} : session'[o] = session[o]
        /\ overlapped' = (overlapped \/ \E o \in Handles : Busy(o))
        /\ UNCHANGED fileVars
    <2>1. PICK alone \in BOOLEAN : alone
      OBVIOUS
    <2>2. Begins(h, "add", c, alone, ws)
      BY <1>1, <2>1, Zenon
    <2> HIDE DEF ws
    <2> QED
      BY <2>2, BeginFields
  <1> SUFFICES ASSUME ~overlapped' PROVE KeysGone' /\ \A o \in Handles : SessionRevokes(o)'
    BY DEF RevokedKept
  <1>3. ~overlapped /\ KeysGone /\ \A o \in Handles : ~Busy(o)
    BY <1>2 DEF RevokedKept
  <1>4. KeysGone'
    BY <1>1, <1>2, <1>3 DEF KeysGone, fileVars
  <1>5. w \in GoneWrites'
    <2>1. slot \in SlotValues /\ slot.credential = c
      BY SlotType DEF KeyOfVolume, CryptKeys
    <2>2. kind = "key" => c \in Keys
      BY <1>1 DEF KindOf, Credentials
    <2> HIDE DEF slot
    <2>3. w \in Writes /\ w.place = <<kind, i>> /\ w.value = slot
      BY <2>1, WriteType, SlotWriteTo
    <2> HIDE DEF w
    <2>4. w.place[1] = kind
      BY <2>3
    <2> QED
      BY <1>1, <2>1, <2>2, <2>3, <2>4 DEF GoneWrites
  <1> HIDE DEF w
  <1>6. ws \in Seq(GoneWrites')
    <2>1. HeaderWrites(h, counts) \in Seq(GoneWrites')
      BY HeaderWritesGone
    <2>2. <<w>> \in Seq(GoneWrites')
      BY <1>5, Tuples
    <2> QED
      BY <2>1, <2>2, Concatenated
  <1> HIDE DEF ws
  <1>7. SessionRevokes(h)'
    BY <1>2, <1>6 DEF SessionRevokes
  <1>8. ASSUME NEW o \in Handles \ {h} PROVE SessionRevokes(o)'
    BY <1>2, <1>3 DEF SessionRevokes, Busy
  <1> QED
    BY <1>4, <1>7, <1>8

LEMMA RevokedRemove ==
    ASSUME TypeOK, OneAtATime, RevokedKept, NEW h \in Handles, RemoveKey(h)
    PROVE  RevokedKept'
  <1>1. PICK n \in 1..MaxSlots, alone \in BOOLEAN, counts \in AllCounts : \E j \in 0..(n - 1) :
           /\ j \in Indices
           /\ alone <=> \A i \in Indices \ {j} :
                           slots[<<"key", i>>].credential # slots[<<"key", j>>].credential
           /\ UNCHANGED revoked
           /\ Begins(h, "remove", slots[<<"key", j>>].credential, alone,
                     RemoveWrites(n, j) \o HeaderWrites(h, counts))
    BY RemovePicks
  <1>2. PICK j \in 0..(n - 1) :
           /\ j \in Indices
           /\ alone <=> \A i \in Indices \ {j} :
                           slots[<<"key", i>>].credential # slots[<<"key", j>>].credential
           /\ UNCHANGED revoked
           /\ Begins(h, "remove", slots[<<"key", j>>].credential, alone,
                     RemoveWrites(n, j) \o HeaderWrites(h, counts))
    BY <1>1
  <1> DEFINE c == slots[<<"key", j>>].credential
             ws == RemoveWrites(n, j) \o HeaderWrites(h, counts)
  <1>11. Begins(h, "remove", c, alone, ws)
    BY <1>2
  <1> HIDE DEF c, ws
  <1>3. /\ session'[h].task = "remove" /\ session'[h].writes = ws
        /\ session'[h].credential = c /\ session'[h].alone = alone
        /\ \A o \in Handles \ {h} : session'[o] = session[o]
        /\ overlapped' = (overlapped \/ \E o \in Handles : Busy(o))
        /\ UNCHANGED fileVars
    BY <1>11, BeginFields
  <1> USE DEF c, ws
  <1> SUFFICES ASSUME ~overlapped' PROVE KeysGone' /\ \A o \in Handles : SessionRevokes(o)'
    BY DEF RevokedKept
  <1>4. ~overlapped /\ KeysGone /\ \A o \in Handles : ~Busy(o)
    BY <1>3 DEF RevokedKept
  <1>5. KeysGone'
    BY <1>2, <1>3, <1>4 DEF KeysGone, fileVars
  <1>6. /\ RemoveWrites(n, j) \in Seq(GoneWrites')
        /\ Pending(RemoveWrites(n, j), "slot", <<"key", j>>)
        /\ \A k \in Keys :
              (\A i \in Indices \ {j} : slots[<<"key", i>>].credential # k) =>
                 RemoveWrites(n, j) \in Seq(WritesNotOf(k))
    BY <1>2, <1>4, RemoveWritesGone
  <1>7. ws \in Seq(GoneWrites')
    BY <1>6, HeaderWritesGone, Concatenated
  <1>8. ASSUME alone, c # Nobody PROVE Erases(h)'
    <2>1. c \in Keys
      BY <1>2, <1>4, <1>8 DEF KeysGone
    <2>2. \A i \in Indices \ {j} : slots[<<"key", i>>].credential # c
      BY <1>2, <1>8
    <2>3. RemoveWrites(n, j) \in Seq(WritesNotOf(c)) /\ HeaderWrites(h, counts) \in Seq(WritesNotOf(c))
      BY <1>6, <2>1, <2>2, HeaderWritesGone
    <2>4. ws \in Seq(WritesNotOf(c))
      BY <2>3, Concatenated
    <2>5. Pending(ws, "slot", <<"key", j>>)
      BY <1>6, <2>3, PendingBefore
    <2>6. UNCHANGED slots
      BY <1>3 DEF fileVars
    <2> HIDE DEF ws, c
    <2>7. \A i \in Indices : slots'[<<"key", i>>].credential = c => Pending(ws, "slot", <<"key", i>>)
      BY <2>2, <2>5, <2>6
    <2> QED
      BY <1>3, <2>1, <2>4, <2>7 DEF Erases, WritesNotOf
  <1> HIDE DEF ws, c
  <1>9. SessionRevokes(h)'
    BY <1>3, <1>7, <1>8 DEF SessionRevokes
  <1>10. ASSUME NEW o \in Handles \ {h} PROVE SessionRevokes(o)'
    BY <1>3, <1>4 DEF SessionRevokes, Busy
  <1> QED
    BY <1>5, <1>9, <1>10

LEMMA RevokedWrite ==
    ASSUME TypeOK, OneAtATime, RevokedKept, NEW h \in Handles, Write(h) \/ Return(h)
    PROVE  RevokedKept'
  <1> DEFINE ws == session[h].writes
             w == Head(ws)
             c == session[h].credential
  <1>1. /\ Busy(h) /\ Len(ws) >= 1 /\ Applied(w) /\ UNCHANGED overlapped
        /\ \A o \in Handles \ {h} : session'[o] = session[o]
    BY WriteFields, ReturnFields DEF historyVars
  <1> SUFFICES ASSUME ~overlapped' PROVE KeysGone' /\ \A o \in Handles : SessionRevokes(o)'
    BY DEF RevokedKept
  <1>2. ~overlapped /\ KeysGone /\ SessionRevokes(h) /\ \A o \in Handles \ {h} : ~Busy(o)
    BY <1>1 DEF RevokedKept, OneAtATime
  <1>3. ws \in Seq(GoneWrites) /\ w \in GoneWrites /\ Tail(ws) \in Seq(GoneWrites)
    BY <1>1, <1>2, HeadTail DEF SessionRevokes
  <1>4. \A i \in Indices : \/ slots'[<<"key", i>>] = slots[<<"key", i>>]
                           \/ /\ w.to = "slot" /\ w.place = <<"key", i>>
                              /\ slots'[<<"key", i>>] = w.value
    <2>1. w \in Writes /\ "key" \in Kinds
      BY <1>3 DEF GoneWrites, Kinds
    <2>2. CASE w.to = "slot"
      <3>1. slots' = [slots EXCEPT ![w.place] = w.value]
        BY <1>1, <2>2 DEF Applied
      <3> QED
        BY <2>1, <2>2, <3>1 DEF TypeOK
    <2>3. CASE w.to # "slot"
      BY <1>1, <2>3 DEF Applied
    <2> QED
      BY <2>2, <2>3
  <1>5. \A i \in Indices : slots'[<<"key", i>>].credential \in (Keys \ revoked) \union {Nobody}
    <2> SUFFICES ASSUME NEW i \in Indices
                 PROVE  slots'[<<"key", i>>].credential \in (Keys \ revoked) \union {Nobody}
      OBVIOUS
    <2>1. w.to = "slot" /\ w.place = <<"key", i>> => w.value.credential \in (Keys \ revoked) \union {Nobody}
      BY <1>3 DEF GoneWrites
    <2> QED
      BY <1>2, <1>4, <2>1 DEF KeysGone
  <1>6. ASSUME session[h].task = "remove", session[h].alone, c # Nobody
        PROVE  /\ c \in Keys
               /\ \A i \in Indices : slots'[<<"key", i>>].credential = c =>
                     Len(ws) > 1 /\ Pending(Tail(ws), "slot", <<"key", i>>)
               /\ Tail(ws) \in Seq(WritesNotOf(c))
    <2>1. /\ c \in Keys /\ ws \in Seq(WritesNotOf(c))
          /\ \A i \in Indices : slots[<<"key", i>>].credential = c => Pending(ws, "slot", <<"key", i>>)
      BY <1>2, <1>6 DEF SessionRevokes, Erases
    <2>2. w \in WritesNotOf(c) /\ Tail(ws) \in Seq(WritesNotOf(c))
      BY <1>1, <2>1, HeadTail
    <2>3. ASSUME NEW i \in Indices, slots'[<<"key", i>>].credential = c
          PROVE  Len(ws) > 1 /\ Pending(Tail(ws), "slot", <<"key", i>>)
      <3>1. ~(w.to = "slot" /\ w.place = <<"key", i>>)
        <4> SUFFICES ASSUME w.to = "slot", w.place = <<"key", i>> PROVE FALSE
          OBVIOUS
        <4>1. slots'[<<"key", i>>] = w.value
          <5>1. slots' = [slots EXCEPT ![w.place] = w.value]
            BY <1>1 DEF Applied
          <5>2. <<"key", i>> \in Kinds \X Indices
            BY DEF Kinds
          <5> QED
            BY <5>1, <5>2 DEF TypeOK
        <4> QED
          BY <2>2, <2>3, <4>1 DEF WritesNotOf
      <3>2. slots[<<"key", i>>].credential = c
        BY <1>4, <2>3, <3>1
      <3>3. Pending(ws, "slot", <<"key", i>>)
        BY <2>1, <3>2
      <3> HIDE DEF ws
      <3> QED
        BY <1>1, <1>3, <3>1, <3>3, PendingStep
    <2> QED
      BY <2>1, <2>2, <2>3
  <1>7. \A o \in Handles \ {h} : SessionRevokes(o)'
    BY <1>1, <1>2 DEF SessionRevokes, Busy
  <1>8. CASE Write(h)
    <2>1. /\ session'[h].task = session[h].task /\ session'[h].credential = c
          /\ session'[h].alone = session[h].alone /\ session'[h].writes = Tail(ws)
          /\ UNCHANGED revoked
      BY <1>8, WriteFields DEF historyVars
    <2>2. KeysGone'
      BY <1>2, <1>5, <2>1 DEF KeysGone
    <2>3. Busy(h)' => session'[h].writes \in Seq(GoneWrites')
      BY <1>3, <2>1 DEF GoneWrites
    <2>4. session'[h].task = "remove" /\ session'[h].alone /\ session'[h].credential # Nobody =>
             Erases(h)'
      BY <1>6, <2>1 DEF Erases, WritesNotOf
    <2> QED
      BY <1>7, <2>2, <2>3, <2>4 DEF SessionRevokes
  <1>9. CASE Return(h)
    <2>0. session'[h].task \in {"closed", "idle"} /\ Len(ws) = 1
      BY <1>9, ReturnFields
    <2>1. session'[h].task \in {"closed", "idle"} /\ ~(Len(ws) > 1)
      BY <2>0
    <2>2. \/ UNCHANGED revoked
          \/ /\ session[h].task = "remove" /\ session[h].alone
             /\ revoked' = revoked \union ({c} \ {Nobody})
      BY <1>9 DEF Return
    <2>3. KeysGone'
      <3>1. CASE UNCHANGED revoked
        BY <1>2, <1>5, <3>1 DEF KeysGone
      <3>2. CASE session[h].task = "remove" /\ session[h].alone /\ c # Nobody
                 /\ revoked' = revoked \union {c}
        <4>1. c \in Keys /\ \A i \in Indices : slots'[<<"key", i>>].credential # c
          BY <1>6, <2>1, <3>2
        <4> QED
          BY <1>2, <1>5, <3>2, <4>1 DEF KeysGone
      <3> QED
        BY <2>2, <3>1, <3>2
    <2>4. SessionRevokes(h)'
      BY <2>1 DEF SessionRevokes, Busy
    <2> QED
      BY <1>7, <2>3, <2>4
  <1> QED
    BY <1>8, <1>9

LEMMA RevokedStep ==
    ASSUME TypeOK, OneAtATime, RevokedKept, [Next]_vars
    PROVE  RevokedKept'
  <1>1. ASSUME UNCHANGED <<slots, revoked, overlapped>>,
               \A o \in Handles : session'[o] = session[o] \/ session'[o].task \in {"closed", "idle"}
        PROVE  RevokedKept'
    <2>1. KeysGone => KeysGone'
      BY <1>1 DEF KeysGone
    <2>2. ASSUME NEW o \in Handles, SessionRevokes(o) PROVE SessionRevokes(o)'
      BY <1>1, <2>2 DEF SessionRevokes, Busy, GoneWrites, Erases, WritesNotOf
    <2> QED
      BY <1>1, <2>1, <2>2 DEF RevokedKept
  <1>2. CASE UNCHANGED vars
    BY <1>1, <1>2 DEF vars, fileVars, historyVars
  <1>3. ASSUME NEW h \in Handles, Create(h) PROVE RevokedKept'
    <2>1. /\ file = "absent" /\ shape' \in ShapeKinds
          /\ session'[h].task = "create" /\ session'[h].writes = CreateWrites(shape')
          /\ \A o \in Handles \ {h} : session'[o] = session[o]
          /\ UNCHANGED <<slots, roots, historyVars>>
      BY <1>3, CreateFields
    <2>2. \A o \in Handles \ {h} : session'[o].task = "closed"
      BY <2>1, RestingTask DEF OneAtATime
    <2>3. SessionRevokes(h)'
      BY <2>1, CreateWritesGone DEF SessionRevokes
    <2>4. \A o \in Handles \ {h} : SessionRevokes(o)'
      BY <2>2 DEF SessionRevokes, Busy
    <2>5. UNCHANGED <<slots, revoked, overlapped>>
      BY <2>1 DEF historyVars
    <2> QED
      BY <2>3, <2>4, <2>5 DEF RevokedKept, KeysGone
  <1>4. ASSUME NEW h \in Handles, Open(h) \/ Close(h) \/ Crash(h) PROVE RevokedKept'
    <2>1. /\ \A o \in Handles : session'[o] = session[o] \/ session'[o].task \in {"closed", "idle"}
          /\ UNCHANGED <<fileVars, historyVars>>
      BY <1>4, RestFields
    <2> QED
      BY <1>1, <2>1 DEF fileVars, historyVars
  <1>5. ASSUME NEW h \in Handles, AddRecipient(h) PROVE RevokedKept'
    BY <1>5, RevokedAdd
  <1>6. ASSUME NEW h \in Handles, RemoveKey(h) PROVE RevokedKept'
    BY <1>6, RevokedRemove
  <1>7. ASSUME NEW h \in Handles, Write(h) \/ Return(h) PROVE RevokedKept'
    BY <1>7, RevokedWrite
  <1>8. CASE Damage
    BY <1>1, <1>8 DEF Damage, historyVars
  <1> QED
    BY <1>2, <1>3, <1>4, <1>5, <1>6, <1>7, <1>8 DEF Next

(* A key that was removed, and was in no other slot, never opens again unless*)
(* it is added again, whatever counts are read from stale or damaged headers *)
(* and whichever operations crash: its slot was overwritten by the shift or  *)
(* the wipe, and no later shift copies what is not in the area.              *)
THEOREM RevokedKeysStayOut == Spec => []RevokedStaysOut
  <1>1. Init => RevokedKept
    <2> SUFFICES ASSUME Init PROVE RevokedKept
      OBVIOUS
    <2>1. \A i \in Indices : slots[<<"key", i>>].credential = Nobody
      BY DEF Init, Kinds, NoiseSlot, Slot
    <2>2. \A h \in Handles : session[h].task = "closed"
      BY RestingTask DEF Init
    <2> QED
      BY <2>1, <2>2 DEF Init, RevokedKept, KeysGone, SessionRevokes, Busy
  <1>2. TypeOK /\ OneAtATime /\ RevokedKept /\ [Next]_vars => RevokedKept'
    BY RevokedStep
  <1>3. TypeOK /\ RevokedKept => RevokedStaysOut
    <2> SUFFICES ASSUME RevokedKept, ~overlapped, NEW c \in revoked PROVE ~Opens(c)
      BY DEF RevokedStaysOut
    <2>1. KeysGone
      BY DEF RevokedKept
    <2>2. c \in Keys /\ KindOf(c) = "key" /\ c # HiddenPassword /\ c # Nobody
      BY <2>1, CredentialsAssumption DEF KeysGone, KindOf
    <2>3. \A i \in Indices : slots[<<"key", i>>].credential # c
      BY <2>1, <2>2 DEF KeysGone
    <2> QED
      BY <2>2, <2>3 DEF Opens, OpensOuter, OpensHidden, Unlocks, IsFor
  <1>4. HeadersKept => OneAtATime
    BY DEF HeadersKept
  <1> QED
    BY <1>1, <1>2, <1>3, <1>4, HeadersAlways, PTL DEF Spec

-----------------------------------------------------------------------------
(* Those who were added: what single writes do.                              *)

LEMMA PrimaryType ==
    ASSUME TypeOK
    PROVE  /\ Primary.n \in AllCounts /\ headers["end"].n \in AllCounts
           /\ \A k \in Kinds : Primary.n[k] \in Nat /\ Primary.n[k] <= MaxSlots
                               /\ headers["end"].n[k] \in Nat
           /\ \A c : KindOf(c) \in Kinds
           /\ \A i \in Indices : i \in Nat
           /\ Primary = headers["start"]
  <1>1. "start" \in Places /\ "end" \in Places
    BY DEF Places
  <1>2. headers["start"] \in HeaderValues /\ headers["end"] \in HeaderValues
    BY <1>1 DEF TypeOK
  <1>3. headers["start"].n \in AllCounts /\ headers["end"].n \in AllCounts
    BY <1>2 DEF HeaderValues
  <1>4. \A n \in AllCounts, k \in Kinds : n[k] \in Nat /\ n[k] <= MaxSlots
    BY Bounds DEF AllCounts
  <1> QED
    BY <1>3, <1>4, Bounds DEF Primary, KindOf, Kinds

LEMMA HeaderParts ==
    \A key, n : Header(key, n).key = key /\ Header(key, n).n = n
  BY DEF Header

LEMMA SlotParts ==
    \A c, key : Slot(c, key).key = key /\ Slot(c, key).credential = c
  BY DEF Slot

LEMMA SlotWritten ==
    ASSUME TypeOK, NEW k \in Kinds, NEW i \in Indices, NEW slot, Applied(SlotWrite(k, i, slot))
    PROVE  /\ UNCHANGED <<headers, roots>>
           /\ slots'[<<k, i>>] = slot
           /\ \A l \in Kinds, x \in Indices : l # k \/ x # i => slots'[<<l, x>>] = slots[<<l, x>>]
  <1> DEFINE w == SlotWrite(k, i, slot)
  <1>0. w.to = "slot" /\ w.place = <<k, i>> /\ w.value = slot /\ Applied(w)
    BY SlotWriteTo
  <1> HIDE DEF w
  <1>1. slots' = [slots EXCEPT ![<<k, i>>] = slot] /\ UNCHANGED <<headers, roots>>
    BY <1>0 DEF Applied
  <1>2. slots \in [Kinds \X Indices -> SlotValues]
    BY DEF TypeOK
  <1> QED
    BY <1>1, <1>2

LEMMA HeaderWritten ==
    ASSUME TypeOK, NEW place \in Places, NEW header, Applied(HeaderWrite(place, header))
    PROVE  /\ UNCHANGED <<slots, roots>>
           /\ headers'[place] = header
           /\ \A p \in Places \ {place} : headers'[p] = headers[p]
  <1> DEFINE w == HeaderWrite(place, header)
  <1>0. w.to = "header" /\ w.place = place /\ w.value = header /\ Applied(w)
    BY SlotWriteTo
  <1> HIDE DEF w
  <1>1. headers' = [headers EXCEPT ![place] = header] /\ UNCHANGED <<slots, roots>>
    BY <1>0 DEF Applied
  <1> QED
    BY <1>1 DEF TypeOK

(* A slot that the primary header does not count. *)
LEMMA SlotBehindCounts ==
    ASSUME TypeOK, OuterFine, AllGranted, headers["start"].key = "outer",
           NEW k \in Kinds, NEW i \in Indices, i = Primary.n[k], NEW slot,
           shape \notin HiddenShapes => SlotFine(slot), Applied(SlotWrite(k, i, slot)),
           UNCHANGED <<shape, granted>>
    PROVE  OuterFine' /\ AllGranted' /\ UNCHANGED headers /\ slots'[<<k, i>>] = slot
  <1>1. /\ UNCHANGED <<headers, roots>> /\ slots'[<<k, i>>] = slot
        /\ \A l \in Kinds, x \in Indices : l # k \/ x # i => slots'[<<l, x>>] = slots[<<l, x>>]
    BY SlotWritten
  <1>2. \A x \in Indices : x < Primary.n[k] => x # i
    BY PrimaryType
  <1>3. OuterFine'
    <2> SUFFICES ASSUME NEW l \in Kinds, NEW x \in Indices,
                        shape \notin HiddenShapes \/ x < headers["start"].n[l]
                 PROVE  SlotFine(slots'[<<l, x>>])
      BY <1>1 DEF OuterFine, OuterRoot
    <2>1. CASE l = k /\ x = i
      BY <1>1, <1>2, <2>1, PrimaryType
    <2>2. CASE l # k \/ x # i
      BY <1>1, <2>2 DEF OuterFine
    <2> QED
      BY <2>1, <2>2
  <1>4. AllGranted'
    <2> SUFFICES ASSUME NEW c \in granted PROVE \E x \in Indices : Grants(c, x)'
      BY DEF AllGranted
    <2>1. PICK x \in Indices : Grants(c, x)
      BY DEF AllGranted
    <2>2. KindOf(c) \in Kinds /\ (KindOf(c) # k \/ x # i)
      BY <1>2, <2>1, PrimaryType DEF Grants
    <2>3. slots'[<<KindOf(c), x>>] = slots[<<KindOf(c), x>>]
      BY <1>1, <2>2
    <2> QED
      BY <1>1, <2>1, <2>3 DEF Grants
  <1> QED
    BY <1>1, <1>3, <1>4

(* The primary header, with x of the slots of one kind. *)
LEMMA PrimaryRewritten ==
    ASSUME TypeOK, OuterFine, AllGranted, headers["start"].key = "outer",
           NEW k \in Kinds, NEW x \in Nat, NEW counts,
           counts = [Primary.n EXCEPT ![k] = x],
           Applied(HeaderWrite("start", Header("outer", counts))),
           \A i \in Indices : i < x => SlotFine(slots[<<k, i>>]),
           \A c \in granted, i \in Indices : KindOf(c) = k /\ Grants(c, i) => i < x,
           UNCHANGED <<shape, granted>>
    PROVE  /\ OuterFine' /\ AllGranted' /\ UNCHANGED slots
           /\ headers'["start"].key = "outer" /\ Primary'.n = counts
  <1>1. /\ UNCHANGED <<slots, roots>>
        /\ headers'["start"] = Header("outer", counts) /\ headers'["end"] = headers["end"]
    BY HeaderWritten DEF Places
  <1>2. headers'["start"].key = "outer" /\ headers'["start"].n = counts
    BY <1>1, HeaderParts
  <1>3. \A l \in Kinds : counts[l] = IF l = k THEN x ELSE headers["start"].n[l]
    BY PrimaryType DEF AllCounts
  <1>4. OuterFine'
    <2> SUFFICES ASSUME NEW l \in Kinds, NEW i \in Indices,
                        shape \notin HiddenShapes \/ i < counts[l]
                 PROVE  SlotFine(slots[<<l, i>>])
      BY <1>1, <1>2 DEF OuterFine, OuterRoot
    <2>1. CASE shape \notin HiddenShapes
      BY <2>1 DEF OuterFine
    <2>2. CASE i < counts[l]
      BY <1>3, <2>2 DEF OuterFine
    <2> QED
      BY <2>1, <2>2
  <1>5. AllGranted'
    <2> SUFFICES ASSUME NEW c \in granted PROVE \E i \in Indices : Grants(c, i)'
      BY DEF AllGranted
    <2>1. PICK i \in Indices : Grants(c, i)
      BY DEF AllGranted
    <2>2. KindOf(c) \in Kinds
      BY PrimaryType
    <2>3. i < counts[KindOf(c)]
      BY <1>3, <2>1, <2>2 DEF Grants
    <2>4. Grants(c, i)'
      BY <1>1, <1>2, <2>1, <2>3 DEF Grants
    <2> QED
      BY <2>4
  <1> QED
    BY <1>1, <1>2, <1>4, <1>5 DEF Primary

(* The backup header, with the counts of the primary. *)
LEMMA BackupRewritten ==
    ASSUME TypeOK, OuterFine, AllGranted, headers["start"].key = "outer",
           Applied(HeaderWrite(BackupPlace, Header("outer", Primary.n))),
           UNCHANGED shape,
           \A c \in granted' \ granted : \E i \in Indices :
              i < Primary.n[KindOf(c)] /\ slots[<<KindOf(c), i>>] = Slot(c, "outer")
    PROVE  OuterFine' /\ AllGranted'
  <1>1. /\ UNCHANGED <<slots, roots>>
        /\ headers'[BackupPlace] = Header("outer", Primary.n)
        /\ headers'["start"] = headers["start"]
    BY HeaderWritten, BackupPlaces DEF Places
  <1>2. shape \notin HiddenShapes =>
           headers'["end"].n = headers["start"].n /\ headers'["end"].key = "outer"
    BY <1>1, HeaderParts, BackupPlaces DEF Primary
  <1>3. OuterFine'
    BY <1>1 DEF OuterFine, OuterRoot
  <1>4. AllGranted'
    <2> SUFFICES ASSUME NEW c \in granted' PROVE \E i \in Indices : Grants(c, i)'
      BY DEF AllGranted
    <2>1. PICK i \in Indices : /\ i < headers["start"].n[KindOf(c)]
                               /\ slots[<<KindOf(c), i>>] = Slot(c, "outer")
      BY DEF AllGranted, Grants, Primary
    <2>2. Grants(c, i)'
      BY <1>1, <1>2, <2>1 DEF Grants
    <2> QED
      BY <2>2
  <1> QED
    BY <1>3, <1>4

-----------------------------------------------------------------------------
(* Those who were added: the writes of an operation, one after the other.    *)

LEMMA TailAt ==
    ASSUME NEW S, NEW ws \in Seq(S), Len(ws) >= 1
    PROVE  /\ Len(Tail(ws)) = Len(ws) - 1 /\ Head(ws) = ws[1]
           /\ \A i \in 1..(Len(ws) - 1) : Tail(ws)[i] = ws[i + 1]
  <1>1. ws # <<>>
    OBVIOUS
  <1> QED
    BY <1>1

(* The two headers stay the last writes. *)
LEMMA HeadersStillLeft ==
    ASSUME NEW h \in Handles, NEW S, session[h].writes \in Seq(S), Len(session[h].writes) >= 3,
           session'[h].writes = Tail(session[h].writes), NEW k, NEW x,
           HeadersLeft(h, k, x), UNCHANGED headers, UNCHANGED shape
    PROVE  HeadersLeft(h, k, x)'
  <1> DEFINE ws == session[h].writes
             n == Len(ws)
             counts == [Primary.n EXCEPT ![k] = x]
  <1>1. /\ ws[n - 1] = HeaderWrite("start", Header("outer", counts))
        /\ ws[n] = HeaderWrite(BackupPlace, Header("outer", counts))
    BY DEF HeadersLeft
  <1>2. n \in Nat /\ n >= 3
    OBVIOUS
  <1>3. Len(Tail(ws)) = n - 1 /\ Tail(ws)[n - 2] = ws[n - 1] /\ Tail(ws)[n - 1] = ws[n]
    <2>1. n - 2 \in 1..(n - 1) /\ n - 1 \in 1..(n - 1) /\ (n - 2) + 1 = n - 1 /\ (n - 1) + 1 = n
      BY <1>2
    <2> HIDE DEF n
    <2>2. Len(Tail(ws)) = n - 1 /\ \A i \in 1..(n - 1) : Tail(ws)[i] = ws[i + 1]
      BY <1>2, TailAt DEF n
    <2> QED
      BY <2>1, <2>2
  <1>4. UNCHANGED <<Primary, BackupPlace>>
    BY DEF Primary, BackupPlace
  <1>5. (n - 1) - 1 = n - 2
    BY <1>2
  <1>6. HeadersLeft(h, k, x)' <=> /\ Tail(ws)[Len(Tail(ws)) - 1] = HeaderWrite("start", Header("outer", counts))
                                 /\ Tail(ws)[Len(Tail(ws))] = HeaderWrite(BackupPlace, Header("outer", counts))
    BY <1>4 DEF HeadersLeft
  <1> HIDE DEF ws, n, counts
  <1> QED
    BY <1>1, <1>3, <1>5, <1>6

LEMMA GrantedType ==
    ASSUME TypeOK
    PROVE  \A c \in granted : c \in Credentials /\ c # Nobody
  BY Bounds DEF TypeOK

(* Everything of one kind that is counted, and none of what is behind.       *)
LEMMA BelowCounts ==
    ASSUME TypeOK, OuterFine, headers["start"].key = "outer", NEW c, NEW i \in Indices, Grants(c, i)
    PROVE  i < Primary.n[KindOf(c)]
  BY PrimaryType DEF Grants

LEMMA AddWrites ==
    ASSUME TypeOK, OuterFine, AllGranted, NEW h \in Handles, headers["start"].key = "outer",
           Adding(h), Write(h)
    PROVE  OuterFine' /\ AllGranted' /\ SessionGrants(h)'
  <1> DEFINE ws == session[h].writes
             c == session[h].credential
             k == KindOf(c)
  <1>1. /\ session'[h].task = session[h].task /\ session'[h].credential = c
        /\ session'[h].writes = Tail(ws) /\ Len(ws) > 1 /\ ws \in Seq(Writes)
        /\ Applied(Head(ws)) /\ UNCHANGED <<shape, granted>>
    BY WriteFields DEF historyVars
  <1>2. PICK i \in Indices : SlotComes(h, k, i) \/ SlotCame(h, k, i) \/ SlotCounted(h, k, i)
    BY DEF Adding
  <1>3. /\ k \in Kinds /\ i \in Nat /\ c \in Credentials /\ session[h].task = "add"
        /\ SlotFine(Slot(c, "outer"))
    BY PrimaryType, SlotParts DEF Adding, SlotFine
  <1>4. ~SlotCounted(h, k, i)
    <2> SUFFICES ASSUME Len(ws) = 1 PROVE FALSE
      BY DEF SlotCounted, BackupLeft
    <2>1. Len(ws) > 1
      BY <1>1
    <2> HIDE DEF ws
    <2> QED
      BY <2>1
  <1>5. Head(ws) = ws[1] /\ Len(Tail(ws)) = Len(ws) - 1
        /\ \A x \in 1..(Len(ws) - 1) : Tail(ws)[x] = ws[x + 1]
    BY <1>1, TailAt
  <1>6. CASE SlotComes(h, k, i)
    <2>1. /\ i = Primary.n[k] /\ Len(ws) = 3 /\ HeadersLeft(h, k, i + 1)
          /\ ws[1] = SlotWrite(k, i, Slot(c, "outer"))
      BY <1>6 DEF SlotComes
    <2>2. OuterFine' /\ AllGranted' /\ UNCHANGED headers /\ slots'[<<k, i>>] = Slot(c, "outer")
      BY <1>1, <1>3, <1>5, <2>1, SlotBehindCounts
    <2>6. Len(ws) >= 3
      BY <2>1
    <2>3. HeadersLeft(h, k, i + 1)'
      BY <1>1, <2>1, <2>2, <2>6, HeadersStillLeft
    <2>4. SlotCame(h, k, i)'
      BY <1>1, <1>5, <2>1, <2>2, <2>3 DEF SlotCame, Primary
    <2>5. Adding(h)'
      BY <1>1, <1>3, <2>4 DEF Adding
    <2> QED
      BY <2>2, <2>5 DEF SessionGrants
  <1>7. CASE SlotCame(h, k, i)
    <2> DEFINE counts == [Primary.n EXCEPT ![k] = i + 1]
    <2>1. /\ i = Primary.n[k] /\ Len(ws) = 2 /\ HeadersLeft(h, k, i + 1)
          /\ slots[<<k, i>>] = Slot(c, "outer")
      BY <1>7 DEF SlotCame
    <2>2. /\ ws[1] = HeaderWrite("start", Header("outer", counts))
          /\ ws[2] = HeaderWrite(BackupPlace, Header("outer", counts))
      BY <2>1 DEF HeadersLeft
    <2>3. \A x \in Indices : x < i + 1 => SlotFine(slots[<<k, x>>])
      <3> SUFFICES ASSUME NEW x \in Indices, x < i + 1 PROVE SlotFine(slots[<<k, x>>])
        OBVIOUS
      <3>1. x < i \/ x = i
        BY <1>3, PrimaryType
      <3> QED
        BY <1>3, <2>1, <3>1, PrimaryType DEF OuterFine
    <2>4. \A d \in granted, x \in Indices : KindOf(d) = k /\ Grants(d, x) => x < i + 1
      BY <1>3, <2>1, BelowCounts, PrimaryType
    <2>5. i + 1 \in Nat /\ counts[k] = i + 1
      BY <1>3, PrimaryType DEF AllCounts
    <2> HIDE DEF counts
    <2>6. /\ OuterFine' /\ AllGranted' /\ UNCHANGED slots
          /\ headers'["start"].key = "outer" /\ Primary'.n = counts
      <3>1. Applied(HeaderWrite("start", Header("outer", counts)))
        BY <1>1, <1>5, <2>2
      <3> QED
        BY <1>1, <1>3, <2>3, <2>4, <2>5, <3>1, PrimaryRewritten DEF counts
    <2>7. BackupLeft(h)'
      <3>1. Len(Tail(ws)) = 1 /\ Tail(ws)[1] = ws[2]
        BY <1>5, <2>1
      <3>2. BackupPlace' = BackupPlace
        BY <1>1 DEF BackupPlace
      <3> QED
        BY <1>1, <2>2, <2>6, <3>1, <3>2 DEF BackupLeft
    <2>8. SlotCounted(h, k, i)'
      BY <1>1, <1>3, <2>1, <2>5, <2>6, <2>7 DEF SlotCounted
    <2>9. Adding(h)'
      BY <1>1, <1>3, <2>8 DEF Adding
    <2> QED
      BY <2>6, <2>9 DEF SessionGrants
  <1> QED
    BY <1>2, <1>4, <1>6, <1>7

(* The next of the slots that move: what it overwrites is the removed key's, *)
(* or is already in the slot before.                                         *)
LEMMA ShiftStep ==
    ASSUME TypeOK, OuterFine, AllGranted, NEW h \in Handles, headers["start"].key = "outer",
           NEW n \in 1..MaxSlots, NEW j \in 0..(n - 1), NEW m \in 0..(n - 1),
           ShiftLeft(h, n, j, m), Write(h)
    PROVE  OuterFine' /\ AllGranted' /\ UNCHANGED headers /\ ShiftLeft(h, n, j, m + 1)'
  <1> DEFINE ws == session[h].writes
             v(q) == IF q = n - 1 THEN NoiseSlot ELSE IF q < j THEN Key(q) ELSE Key(q + 1)
  <1>1. /\ session'[h].writes = Tail(ws) /\ ws \in Seq(Writes) /\ Applied(Head(ws))
        /\ UNCHANGED <<shape, granted>>
    BY WriteFields DEF historyVars
  <1>3. /\ n \in Nat /\ m \in Nat /\ j \in Nat /\ m < n /\ j < n /\ "key" \in Kinds
        /\ \A q \in 0..(n - 1) : q \in Indices
    BY Bounds DEF Kinds, Indices
  <1>2. /\ n = Primary.n["key"] /\ Len(ws) = n - m + 2 /\ HeadersLeft(h, "key", n - 1)
        /\ \A q \in m..(n - 1) : ws[q - m + 1] = SlotWrite("key", q, v(q))
        /\ m <= j => Key(j).credential \notin granted
        /\ j < m => Key(m - 1) = Key(m)
    BY <1>3 DEF ShiftLeft
  <1>4. NoiseSlot.credential = Nobody
    BY DEF NoiseSlot, Slot
  <1> HIDE DEF ws, v
  <1>5. /\ Len(ws) >= 3 /\ Len(ws) - 1 = n - (m + 1) + 2
    <2>1. Len(ws) = n - m + 2
      BY <1>2
    <2>2. n - m + 2 >= 3 /\ (n - m + 2) - 1 = n - (m + 1) + 2
      BY <1>3
    <2> QED
      BY <2>1, <2>2
  <1>6. /\ Head(ws) = ws[1] /\ Len(Tail(ws)) = n - (m + 1) + 2
        /\ \A x \in 1..(Len(ws) - 1) : Tail(ws)[x] = ws[x + 1]
    BY <1>1, <1>5, TailAt
  <1>7. Head(ws) = SlotWrite("key", m, v(m))
    <2>1. m \in m..(n - 1) /\ m - m + 1 = 1
      BY <1>3
    <2> QED
      BY <1>2, <1>6, <2>1
  <1>8. /\ UNCHANGED <<headers, roots>> /\ slots'[<<"key", m>>] = v(m)
        /\ \A l \in Kinds, x \in Indices : l # "key" \/ x # m => slots'[<<l, x>>] = slots[<<l, x>>]
    <2>1. Applied(SlotWrite("key", m, v(m)))
      BY <1>1, <1>7
    <2> QED
      BY <1>3, <2>1, SlotWritten
  <1>9. \A x \in Indices : x # m => Key(x)' = Key(x)
    BY <1>3, <1>8 DEF Key
  <1>10. OuterFine'
    <2>1. \A q \in 0..(n - 1) : SlotFine(Key(q))
      <3> SUFFICES ASSUME NEW q \in 0..(n - 1) PROVE SlotFine(Key(q))
        OBVIOUS
      <3>1. q \in Indices /\ q < Primary.n["key"]
        BY <1>2, <1>3
      <3> QED
        BY <1>3, <3>1 DEF OuterFine, Key, Primary
    <2>2. SlotFine(v(m))
      <3>1. m # n - 1 => m \in 0..(n - 1) /\ m + 1 \in 0..(n - 1)
        BY <1>3
      <3> QED
        BY <1>4, <2>1, <3>1 DEF v, SlotFine
    <2> SUFFICES ASSUME NEW l \in Kinds, NEW x \in Indices,
                        shape \notin HiddenShapes \/ x < headers["start"].n[l]
                 PROVE  SlotFine(slots'[<<l, x>>])
      BY <1>1, <1>8 DEF OuterFine, OuterRoot
    <2>3. CASE l = "key" /\ x = m
      BY <1>8, <2>2, <2>3
    <2>4. CASE l # "key" \/ x # m
      BY <1>8, <2>4 DEF OuterFine
    <2> QED
      BY <2>3, <2>4
  <1>11. AllGranted'
    <2> SUFFICES ASSUME NEW c \in granted PROVE \E x \in Indices : Grants(c, x)'
      BY <1>1 DEF AllGranted
    <2>1. PICK x \in Indices : Grants(c, x)
      BY DEF AllGranted
    <2>2. KindOf(c) \in Kinds
      BY PrimaryType
    <2>3. ASSUME NEW y \in Indices, y <= x, slots'[<<KindOf(c), y>>] = slots[<<KindOf(c), x>>]
          PROVE  Grants(c, y)'
      <3>1. /\ y \in Nat /\ x \in Nat /\ headers["start"].n[KindOf(c)] \in Nat
            /\ headers["end"].n[KindOf(c)] \in Nat
        BY <2>2, PrimaryType
      <3>2. /\ headers["start"].key = "outer" => y < headers["start"].n[KindOf(c)]
            /\ shape \notin HiddenShapes /\ headers["end"].key = "outer" =>
                  y < headers["end"].n[KindOf(c)]
        BY <2>1, <2>3, <3>1 DEF Grants
      <3> QED
        BY <1>1, <1>8, <2>1, <2>3, <3>2 DEF Grants
    <2>4. CASE KindOf(c) # "key" \/ x # m
      <3>1. slots'[<<KindOf(c), x>>] = slots[<<KindOf(c), x>>] /\ x <= x
        BY <1>8, <2>2, <2>4, PrimaryType
      <3> QED
        BY <2>3, <3>1
    <2>5. CASE KindOf(c) = "key" /\ x = m
      <3>1. Key(m) = Slot(c, "outer") /\ Key(m).credential = c
        BY <2>1, <2>5, SlotParts DEF Grants, Key
      <3>2. m # j
        BY <1>2, <1>3, <3>1
      <3>3. CASE m < j
        <4>1. v(m) = Key(m)
          BY <1>3, <3>3 DEF v
        <4>2. slots'[<<KindOf(c), x>>] = slots[<<KindOf(c), x>>] /\ x <= x
          BY <1>3, <1>8, <2>5, <4>1 DEF Key
        <4> QED
          BY <2>3, <4>2
      <3>4. CASE j < m
        <4>1. m - 1 \in Indices /\ m - 1 # m /\ m - 1 <= x
          BY <1>3, <2>5, <3>4
        <4>2. slots'[<<KindOf(c), m - 1>>] = slots[<<KindOf(c), x>>]
          BY <1>2, <1>8, <1>3, <2>5, <3>4, <4>1 DEF Key
        <4> QED
          BY <2>3, <4>1, <4>2
      <3> QED
        BY <1>3, <3>2, <3>3, <3>4
    <2> QED
      BY <2>4, <2>5
  <1>12. ShiftLeft(h, n, j, m + 1)'
    <2>1. HeadersLeft(h, "key", n - 1)'
      BY <1>1, <1>2, <1>5, <1>8, HeadersStillLeft DEF ws
    <2>2. UNCHANGED Primary
      BY <1>8 DEF Primary
    <2>3. ASSUME NEW q \in (m + 1)..(n - 1)
          PROVE  Tail(ws)[q - (m + 1) + 1] =
                    SlotWrite("key", q, IF q = n - 1 THEN NoiseSlot
                                        ELSE IF q < j THEN Key(q)' ELSE Key(q + 1)')
      <3>1. /\ q - (m + 1) + 1 \in 1..(Len(ws) - 1) /\ q - (m + 1) + 1 + 1 = q - m + 1
            /\ q \in m..(n - 1)
        BY <1>3, <1>5
      <3>2. Tail(ws)[q - (m + 1) + 1] = SlotWrite("key", q, v(q))
        BY <1>2, <1>6, <3>1
      <3>3. Key(q)' = Key(q)
        <4>1. q \in Indices /\ q # m
          BY <1>3
        <4> QED
          BY <1>9, <4>1
      <3>4. q # n - 1 => Key(q + 1)' = Key(q + 1)
        <4>1. q # n - 1 => q + 1 \in Indices /\ q + 1 # m
          BY <1>3
        <4> QED
          BY <1>9, <4>1
      <3> QED
        BY <3>2, <3>3, <3>4 DEF v
    <2>4. m + 1 <= j => Key(j)'.credential \notin granted'
      <3>1. j \in Indices /\ (m + 1 <= j => j # m /\ m <= j)
        BY <1>3
      <3> QED
        BY <1>1, <1>2, <1>9, <3>1
    <2>5. j < m + 1 /\ m + 1 < n => Key((m + 1) - 1)' = Key(m + 1)'
      <3> SUFFICES ASSUME j < m + 1, m + 1 < n PROVE Key((m + 1) - 1)' = Key(m + 1)'
        OBVIOUS
      <3>1. m # n - 1 /\ ~(m < j) /\ m + 1 \in Indices /\ m + 1 # m /\ (m + 1) - 1 = m
        BY <1>3
      <3>2. Key(m + 1)' = Key(m + 1) /\ Key(m)' = v(m)
        BY <1>8, <1>9, <3>1 DEF Key
      <3>3. v(m) = Key(m + 1)
        BY <3>1 DEF v
      <3> QED
        BY <3>1, <3>2, <3>3
    <2>6. m + 1 = n => Key(n - 1)' = NoiseSlot
      <3>1. m + 1 = n => n - 1 = m
        BY <1>3
      <3> QED
        BY <1>8, <3>1 DEF v, Key
    <2> QED
      BY <1>1, <1>2, <1>6, <2>1, <2>2, <2>3, <2>4, <2>5, <2>6 DEF ShiftLeft
  <1> QED
    BY <1>8, <1>10, <1>11, <1>12

(* The first of the two headers: the slot behind is noise by now. *)
LEMMA ShiftCounted ==
    ASSUME TypeOK, OuterFine, AllGranted, NEW h \in Handles, headers["start"].key = "outer",
           NEW n \in 1..MaxSlots, NEW j \in 0..(n - 1), ShiftLeft(h, n, j, n), Write(h)
    PROVE  OuterFine' /\ AllGranted' /\ headers'["start"].key = "outer" /\ BackupLeft(h)'
  <1> DEFINE ws == session[h].writes
             counts == [Primary.n EXCEPT !["key"] = n - 1]
  <1>1. /\ session'[h].writes = Tail(ws) /\ ws \in Seq(Writes) /\ Applied(Head(ws))
        /\ UNCHANGED <<shape, granted>>
    BY WriteFields DEF historyVars
  <1>2. /\ n \in Nat /\ n >= 1 /\ n - 1 \in Nat /\ n - 1 \in Indices /\ "key" \in Kinds
        /\ n - n + 2 = 2
    BY Bounds DEF Kinds, Indices
  <1>3. /\ n = Primary.n["key"] /\ Len(ws) = 2 /\ HeadersLeft(h, "key", n - 1)
        /\ Key(n - 1) = NoiseSlot
    BY <1>2 DEF ShiftLeft
  <1>4. /\ ws[1] = HeaderWrite("start", Header("outer", counts))
        /\ ws[2] = HeaderWrite(BackupPlace, Header("outer", counts))
    BY <1>3 DEF HeadersLeft
  <1> HIDE DEF ws
  <1>5. Head(ws) = ws[1] /\ Len(Tail(ws)) = 1 /\ Tail(ws)[1] = ws[2]
    <2>1. Len(ws) >= 1 /\ Len(ws) - 1 = 1 /\ 1 \in 1..(Len(ws) - 1) /\ 1 + 1 = 2
      BY <1>3
    <2>2. /\ Head(ws) = ws[1] /\ Len(Tail(ws)) = Len(ws) - 1
          /\ \A x \in 1..(Len(ws) - 1) : Tail(ws)[x] = ws[x + 1]
      BY <1>1, <2>1, TailAt
    <2>3. Tail(ws)[1] = ws[1 + 1]
      BY <2>1, <2>2
    <2> QED
      BY <2>1, <2>2, <2>3
  <1>6. \A x \in Indices : x < n - 1 => SlotFine(slots[<<"key", x>>])
    BY <1>2, <1>3, PrimaryType DEF OuterFine
  <1>7. ASSUME NEW c \in granted, NEW x \in Indices, KindOf(c) = "key", Grants(c, x)
        PROVE  x < n - 1
    <2>1. x < n /\ x \in Nat
      BY <1>3, <1>7, BelowCounts, PrimaryType
    <2>2. x # n - 1
      <3>1. slots[<<"key", x>>].credential = c /\ c # Nobody
        BY <1>7, GrantedType, SlotParts DEF Grants
      <3> QED
        BY <1>3, <3>1, SlotParts DEF Key, NoiseSlot
    <2> QED
      BY <1>2, <2>1, <2>2
  <1>8. /\ OuterFine' /\ AllGranted' /\ UNCHANGED slots
        /\ headers'["start"].key = "outer" /\ Primary'.n = counts
    <2>1. Applied(HeaderWrite("start", Header("outer", counts)))
      BY <1>1, <1>4, <1>5
    <2> HIDE DEF counts
    <2> QED
      BY <1>1, <1>2, <1>6, <1>7, <2>1, PrimaryRewritten DEF counts
  <1>9. BackupPlace' = BackupPlace
    BY <1>1 DEF BackupPlace
  <1>10. BackupLeft(h)'
    BY <1>1, <1>4, <1>5, <1>8, <1>9 DEF BackupLeft
  <1> QED
    BY <1>8, <1>10

LEMMA RemoveWriteStep ==
    ASSUME TypeOK, OuterFine, AllGranted, NEW h \in Handles, headers["start"].key = "outer",
           Removing(h), Write(h)
    PROVE  OuterFine' /\ AllGranted' /\ SessionGrants(h)'
  <1>1. session'[h].task = "remove" /\ Len(session[h].writes) > 1
    BY WriteFields DEF Removing
  <1>2. ~BackupLeft(h)
    <2> SUFFICES ASSUME Len(session[h].writes) = 1 PROVE FALSE
      BY DEF BackupLeft
    <2> DEFINE l == Len(session[h].writes)
    <2>1. l > 1
      BY <1>1
    <2>2. l = 1
      OBVIOUS
    <2> HIDE DEF l
    <2> QED
      BY <2>1, <2>2
  <1>3. PICK n \in 1..MaxSlots : \E j \in 0..(n - 1), m \in 0..n : ShiftLeft(h, n, j, m)
    BY <1>2 DEF Removing
  <1>4. PICK j \in 0..(n - 1), m \in 0..n : ShiftLeft(h, n, j, m)
    BY <1>3
  <1>5. CASE m = n
    <2>1. OuterFine' /\ AllGranted' /\ headers'["start"].key = "outer" /\ BackupLeft(h)'
      BY <1>4, <1>5, ShiftCounted
    <2> QED
      BY <1>1, <2>1 DEF SessionGrants, Removing
  <1>6. CASE m # n
    <2>1. m \in 0..(n - 1) /\ m + 1 \in 0..n
      BY <1>6
    <2>2. OuterFine' /\ AllGranted' /\ UNCHANGED headers /\ ShiftLeft(h, n, j, m + 1)'
      BY <1>4, <2>1, ShiftStep
    <2>3. Removing(h)'
      BY <1>1, <2>1, <2>2 DEF Removing
    <2> QED
      BY <2>2, <2>3 DEF SessionGrants
  <1> QED
    BY <1>5, <1>6

(* The last write of an addition or a removal: the backup header, or, through*)
(* the hidden volume, the slot.                                              *)
LEMMA LastLeft ==
    ASSUME TypeOK, NEW h \in Handles, SessionGrants(h), Return(h)
    PROVE  AddingHidden(h) \/ BackupLeft(h)
  <1> DEFINE ws == session[h].writes
             l == Len(ws)
  <1>1. Busy(h) /\ l = 1
    BY ReturnFields
  <1>2. ASSUME NEW k, NEW i, SlotComes(h, k, i) \/ SlotCame(h, k, i) PROVE FALSE
    <2>1. l = 3 \/ l = 2
      BY <1>2 DEF SlotComes, SlotCame
    <2> HIDE DEF l
    <2> QED
      BY <1>1, <2>1
  <1>3. ASSUME NEW n \in 1..MaxSlots, NEW j \in 0..(n - 1), NEW m \in 0..n, ShiftLeft(h, n, j, m)
        PROVE  FALSE
    <2>1. l = n - m + 2
      BY <1>3 DEF ShiftLeft
    <2>2. n - m + 2 > 1
      BY Bounds
    <2> HIDE DEF l
    <2> QED
      BY <1>1, <2>1, <2>2
  <1>4. CASE Adding(h)
    BY <1>2, <1>4 DEF Adding, SlotCounted
  <1>5. CASE Removing(h)
    BY <1>3, <1>5 DEF Removing
  <1> QED
    BY <1>1, <1>4, <1>5 DEF SessionGrants

(* What counts as added when it returns is in a counted slot. *)
LEMMA AddedCounted ==
    ASSUME TypeOK, NEW h \in Handles, SessionGrants(h), BackupLeft(h), Return(h),
           session[h].task = "add", session[h].ok
    PROVE  \E i \in Indices :
              /\ i < Primary.n[KindOf(session[h].credential)]
              /\ slots[<<KindOf(session[h].credential), i>>] = Slot(session[h].credential, "outer")
  <1> DEFINE l == Len(session[h].writes)
             c == session[h].credential
  <1>1. Busy(h) /\ l = 1
    BY ReturnFields
  <1>2. Adding(h)
    BY <1>1 DEF SessionGrants, AddingHidden, Removing
  <1>3. PICK i \in Indices : \/ SlotComes(h, KindOf(c), i) \/ SlotCame(h, KindOf(c), i)
                             \/ SlotCounted(h, KindOf(c), i)
    BY <1>2 DEF Adding
  <1>4. ~SlotComes(h, KindOf(c), i) /\ ~SlotCame(h, KindOf(c), i)
    <2> SUFFICES ASSUME l = 3 \/ l = 2 PROVE FALSE
      BY DEF SlotComes, SlotCame
    <2> HIDE DEF l
    <2> QED
      BY <1>1
  <1> QED
    BY <1>3, <1>4 DEF SlotCounted

LEMMA ReturnGrants ==
    ASSUME TypeOK, OuterFine, AllGranted, NEW h \in Handles, headers["start"].key = "outer",
           SessionGrants(h), Return(h), session[h].task # "create"
    PROVE  OuterFine' /\ AllGranted'
  <1> DEFINE ws == session[h].writes
             c == session[h].credential
  <1>1. /\ Busy(h) /\ Len(ws) = 1 /\ ws \in Seq(Writes) /\ Applied(Head(ws))
        /\ UNCHANGED shape /\ session[h].ok \in BOOLEAN
    BY ReturnFields, BusyType
  <1>2. Head(ws) = ws[1] /\ ws[1] \in Writes
    BY <1>1
  <1>3. \/ UNCHANGED granted
        \/ session[h].ok /\ session[h].task = "add" /\ granted' = granted \union {c}
    BY DEF Return
  <1>4. CASE AddingHidden(h)
    <2>1. PICK k \in Kinds, slot \in SlotValues : ws[1] = SlotWrite(k, Primary.n[k], slot)
      BY <1>4 DEF AddingHidden
    <2> HIDE DEF ws
    <2>2. ws[1].to = "slot" /\ ws[1].place = <<k, Primary.n[k]>>
      BY <2>1, SlotWriteTo
    <2>3. ws[1].place \in Kinds \X Indices
      BY <1>2, <2>2 DEF Writes
    <2>4. Primary.n[k] \in Indices
      BY <2>2, <2>3
    <2>5. UNCHANGED granted /\ shape \in HiddenShapes
      BY <1>3, <1>4 DEF AddingHidden, HiddenShapes
    <2>6. Applied(SlotWrite(k, Primary.n[k], slot))
      BY <1>1, <1>2, <2>1
    <2> QED
      BY <1>1, <2>4, <2>5, <2>6, SlotBehindCounts
  <1>5. CASE BackupLeft(h)
    <2>1. Applied(HeaderWrite(BackupPlace, Header("outer", Primary.n)))
      BY <1>1, <1>2, <1>5 DEF BackupLeft
    <2>2. \A d \in granted' \ granted : \E i \in Indices :
             i < Primary.n[KindOf(d)] /\ slots[<<KindOf(d), i>>] = Slot(d, "outer")
      <3> SUFFICES ASSUME NEW d \in granted' \ granted
                   PROVE  \E i \in Indices :
                             i < Primary.n[KindOf(d)] /\ slots[<<KindOf(d), i>>] = Slot(d, "outer")
        OBVIOUS
      <3>1. session[h].ok /\ session[h].task = "add" /\ d = c
        BY <1>3
      <3> HIDE DEF c
      <3> QED
        BY <1>5, <3>1, AddedCounted DEF c
    <2> QED
      BY <1>1, <2>1, <2>2, BackupRewritten
  <1> QED
    BY <1>4, <1>5, LastLeft

-----------------------------------------------------------------------------
(* Those who were added: how an operation begins.                            *)

LEMMA ThenTwo ==
    ASSUME NEW S, NEW s \in Seq(S), NEW a \in S, NEW b \in S
    PROVE  /\ Len(s \o <<a, b>>) = Len(s) + 2 /\ Len(s) \in Nat
           /\ \A i \in 1..Len(s) : (s \o <<a, b>>)[i] = s[i]
           /\ (s \o <<a, b>>)[Len(s) + 1] = a /\ (s \o <<a, b>>)[Len(s) + 2] = b
  OBVIOUS

LEMMA ThenOne ==
    ASSUME NEW S, NEW s \in Seq(S), NEW a \in S
    PROVE  /\ Len(s \o <<a>>) = Len(s) + 1 /\ s \o <<a>> \in Seq(S)
           /\ \A i \in 1..Len(s) : (s \o <<a>>)[i] = s[i]
           /\ (s \o <<a>>)[Len(s) + 1] = a
  OBVIOUS

LEMMA JustOne ==
    ASSUME NEW w
    PROVE  Len(<<w>>) = 1 /\ <<w>>[1] = w /\ <<w>> \o <<>> = <<w>>
  OBVIOUS

(* Where the counts are known, both headers are written. *)
LEMMA CountsWritten ==
    ASSUME NEW h, NEW n
    PROVE  /\ Recounts(h) => HeaderWrites(h, n) = <<HeaderWrite("start", Header("outer", n)),
                                                    HeaderWrite(BackupPlace, Header("outer", n))>>
           /\ ~Recounts(h) => HeaderWrites(h, n) = <<>>
  BY DEF HeaderWrites

LEMMA AddBegins ==
    ASSUME TypeOK, headers["start"].key = "outer", NEW h \in Handles, SessionApart(h), AddRecipient(h)
    PROVE  SessionGrants(h)' /\ UNCHANGED <<file, shape, fileVars, granted>>
  <1>1. PICK c \in Credentials \ granted, k \in Kinds, i \in Indices, counts \in AllCounts :
           /\ k = KindOf(c) /\ i = Primary.n[k]
           /\ counts = [Primary.n EXCEPT ![k] = i + 1]
           /\ UNCHANGED granted
           /\ Begins(h, "add", c, TRUE,
                     <<SlotWrite(k, i, Slot(c, KeyOfVolume(session[h].volume)))>>
                     \o HeaderWrites(h, counts))
    BY AddPicks
  <1> DEFINE w == SlotWrite(k, i, Slot(c, KeyOfVolume(session[h].volume)))
             a == HeaderWrite("start", Header("outer", counts))
             b == HeaderWrite(BackupPlace, Header("outer", counts))
             ws == <<w>> \o HeaderWrites(h, counts)
  <1>2. Begins(h, "add", c, TRUE, ws)
    BY <1>1
  <1>3. /\ session[h].task = "idle" /\ session'[h].task = "add" /\ session'[h].writes = ws
        /\ session'[h].credential = c /\ session'[h].ok = Recounts(h)
        /\ UNCHANGED <<file, shape, fileVars>>
    <2> HIDE DEF ws
    <2>1. session'[h].ok = Recounts(h)
      BY <1>2, BeginFields, Zenon
    <2>2. PICK alone \in BOOLEAN : alone
      OBVIOUS
    <2>3. Begins(h, "add", c, alone, ws)
      BY <1>2, <2>2, Zenon
    <2>4. /\ session[h].task = "idle" /\ session'[h].task = "add" /\ session'[h].writes = ws
          /\ session'[h].credential = c /\ UNCHANGED <<file, shape, fileVars>>
      BY <2>3, BeginFields
    <2> QED
      BY <2>1, <2>4, Zenon
  <1>4. headers["start"].key = "outer" /\ session[h].volume \in Volumes
    BY <1>3, IdleType
  <1>5. /\ UNCHANGED <<headers, slots, roots, Primary, BackupPlace>>
        /\ headers'["start"].key = "outer"
    BY <1>3, <1>4 DEF fileVars, Primary, BackupPlace
  <1>6. CASE session[h].volume = "outer"
    <2>1. Recounts(h) /\ w = SlotWrite(k, i, Slot(c, "outer"))
      BY <1>4, <1>6 DEF Recounts, Primary, KeyOfVolume
    <2>2. ws = <<w>> \o <<a, b>>
      BY <2>1, CountsWritten
    <2>3. Len(ws) = 3 /\ ws[1] = w /\ ws[2] = a /\ ws[3] = b
      <3> DEFINE S == {w, a, b}
      <3> HIDE DEF w, a, b, ws
      <3>1. <<w>> \in Seq(S) /\ a \in S /\ b \in S /\ Len(<<w>>) = 1 /\ <<w>>[1] = w
        BY Tuples, JustOne
      <3> HIDE DEF S
      <3>2. /\ Len(<<w>> \o <<a, b>>) = Len(<<w>>) + 2
            /\ \A x \in 1..Len(<<w>>) : (<<w>> \o <<a, b>>)[x] = <<w>>[x]
            /\ (<<w>> \o <<a, b>>)[Len(<<w>>) + 1] = a /\ (<<w>> \o <<a, b>>)[Len(<<w>>) + 2] = b
        BY <3>1, ThenTwo
      <3> QED
        BY <2>2, <3>1, <3>2
    <2> HIDE DEF ws, w
    <2>4. HeadersLeft(h, k, i + 1)'
      BY <1>1, <1>3, <1>5, <2>3 DEF HeadersLeft
    <2>5. SlotComes(h, k, i)'
      BY <1>1, <1>3, <1>5, <2>1, <2>3, <2>4 DEF SlotComes
    <2>6. Adding(h)'
      BY <1>1, <1>3, <2>5 DEF Adding
    <2> QED
      BY <1>1, <1>3, <1>5, <2>6 DEF SessionGrants
  <1>7. CASE session[h].volume = "hidden"
    <2>1. ~Recounts(h) /\ shape = "hidden" /\ w = SlotWrite(k, i, Slot(c, "derived"))
      BY <1>3, <1>7 DEF Recounts, SessionApart, KeyOfVolume
    <2>2. ws = <<w>>
      BY <2>1, CountsWritten, JustOne
    <2>3. Len(ws) = 1 /\ ws[1] = w
      BY <2>2, JustOne
    <2>4. Slot(c, "derived") \in SlotValues
      BY SlotType DEF CryptKeys
    <2>5. ~session'[h].ok
      BY <1>3, <2>1, Zenon
    <2> HIDE DEF ws, w
    <2>6. AddingHidden(h)'
      BY <1>1, <1>3, <1>5, <2>1, <2>3, <2>4, <2>5 DEF AddingHidden
    <2> QED
      BY <1>1, <1>3, <1>5, <2>6 DEF SessionGrants
  <1> QED
    BY <1>4, <1>6, <1>7 DEF Volumes

(* A removal, write by write: each slot from the next one, the last wiped.   *)
MovedDown(n, j, q) == IF q = n - 1 THEN NoiseSlot ELSE IF q < j THEN Key(q) ELSE Key(q + 1)

MovesDown(ws, n, j, a, b) ==
    /\ Len(ws) = n + 2 /\ ws[n + 1] = a /\ ws[n + 2] = b
    /\ \A q \in 0..(n - 1) : ws[q + 1] = SlotWrite("key", q, MovedDown(n, j, q))

LEMMA RemovedInOrder ==
    ASSUME NEW n \in 1..MaxSlots, NEW j \in 0..(n - 1), NEW a, NEW b
    PROVE  MovesDown(RemoveWrites(n, j) \o <<a, b>>, n, j, a, b)
  <1> DEFINE T == {SlotWrite("key", q, MovedDown(n, j, q)) : q \in 0..(n - 1)}
             S == T \union {a, b}
             s == Shifted(n, j)
             last == SlotWrite("key", n - 1, NoiseSlot)
             r == RemoveWrites(n, j)
  <1>1. n \in Nat /\ n >= 1 /\ j \in Nat /\ j < n
    BY Bounds
  <1>2. \A i \in 1..(n - 1) : i - 1 \in 0..(n - 1) /\ i - 1 # n - 1 /\ (i - 1 < j <=> i <= j) /\ (i - 1) + 1 = i
    BY <1>1
  <1>3. ASSUME NEW i \in 1..(n - 1) PROVE s[i] = SlotWrite("key", i - 1, MovedDown(n, j, i - 1))
    <2>1. s[i] = SlotWrite("key", i - 1, IF i <= j THEN Key(i - 1) ELSE Key(i))
      BY DEF Shifted, Key
    <2>2. MovedDown(n, j, i - 1) = IF i <= j THEN Key(i - 1) ELSE Key(i)
      BY <1>2 DEF MovedDown
    <2> QED
      BY <2>1, <2>2
  <1>4. last = SlotWrite("key", n - 1, MovedDown(n, j, n - 1)) /\ n - 1 \in 0..(n - 1)
    BY <1>1 DEF MovedDown
  <1>5. a \in S /\ b \in S /\ T \subseteq S
    OBVIOUS
  <1>6. (\A q \in 0..(n - 1) : SlotWrite("key", q, MovedDown(n, j, q)) \in T)
    OBVIOUS
  <1>7. last \in S /\ \A i \in 1..(n - 1) : SlotWrite("key", i - 1, MovedDown(n, j, i - 1)) \in S
    <2> HIDE DEF S, T, last
    <2> QED
      BY <1>2, <1>4, <1>5, <1>6
  <1>8. \A i \in 1..(n - 1) : s[i] \in S
    <2> HIDE DEF S, s
    <2> QED
      BY <1>3, <1>7
  <1> HIDE DEF S, T
  <1>9. s \in Seq(S) /\ Len(s) = n - 1
    <2>1. s \in [1..(n - 1) -> S]
      BY <1>8 DEF Shifted
    <2> HIDE DEF s
    <2> QED
      BY <1>1, <2>1
  <1>10. r = s \o <<last>>
    BY DEF RemoveWrites
  <1> HIDE DEF s, last, r
  <1>11. r \in Seq(S) /\ Len(r) = n /\ r[n] = last /\ \A i \in 1..(n - 1) : r[i] = s[i]
    <2>1. /\ Len(s \o <<last>>) = Len(s) + 1 /\ s \o <<last>> \in Seq(S)
          /\ \A i \in 1..Len(s) : (s \o <<last>>)[i] = s[i]
          /\ (s \o <<last>>)[Len(s) + 1] = last
      BY <1>7, <1>9, ThenOne
    <2>2. (n - 1) + 1 = n
      BY <1>1
    <2> QED
      BY <1>9, <1>10, <2>1, <2>2
  <1>12. ASSUME NEW q \in 0..(n - 1)
         PROVE  r[q + 1] = SlotWrite("key", q, MovedDown(n, j, q)) /\ q + 1 \in 1..n
    <2>1. CASE q = n - 1
      <3>1. q + 1 = n /\ n \in 1..n
        BY <1>1, <2>1
      <3> QED
        BY <1>4, <1>11, <2>1, <3>1
    <2>2. CASE q # n - 1
      <3>1. q + 1 \in 1..(n - 1) /\ (q + 1) - 1 = q /\ q + 1 \in 1..n
        BY <1>1, <2>2
      <3>2. s[q + 1] = SlotWrite("key", q, MovedDown(n, j, q))
        BY <1>3, <3>1
      <3> QED
        BY <1>11, <3>1, <3>2
    <2> QED
      BY <2>1, <2>2
  <1>13. /\ Len(r \o <<a, b>>) = n + 2 /\ \A i \in 1..n : (r \o <<a, b>>)[i] = r[i]
         /\ (r \o <<a, b>>)[n + 1] = a /\ (r \o <<a, b>>)[n + 2] = b
    <2>1. /\ Len(r \o <<a, b>>) = Len(r) + 2 /\ \A i \in 1..Len(r) : (r \o <<a, b>>)[i] = r[i]
          /\ (r \o <<a, b>>)[Len(r) + 1] = a /\ (r \o <<a, b>>)[Len(r) + 2] = b
      BY <1>5, <1>11, ThenTwo
    <2> QED
      BY <1>11, <2>1
  <1> QED
    BY <1>12, <1>13 DEF r, MovesDown

LEMMA RemoveStarts ==
    ASSUME TypeOK, headers["start"].key = "outer", NEW h \in Handles, session[h].volume = "outer",
           RemoveKey(h)
    PROVE  \E n \in 1..MaxSlots : \E j \in 0..(n - 1) :
              /\ n = Primary.n["key"] /\ granted' = granted \ {Key(j).credential}
              /\ session'[h].task = "remove"
              /\ session'[h].writes =
                    LET counts == [Primary.n EXCEPT !["key"] = n - 1]
                    IN RemoveWrites(n, j) \o <<HeaderWrite("start", Header("outer", counts)),
                                               HeaderWrite(BackupPlace, Header("outer", counts))>>
              /\ UNCHANGED <<file, shape, fileVars>>
  <1>1. PICK n \in 1..MaxSlots, alone \in BOOLEAN, counts \in AllCounts : \E j \in 0..(n - 1) :
           /\ n = Primary.n["key"] /\ counts = [Primary.n EXCEPT !["key"] = n - 1]
           /\ granted' = granted \ {Key(j).credential}
           /\ Begins(h, "remove", Key(j).credential, alone,
                     RemoveWrites(n, j) \o HeaderWrites(h, counts))
    BY RemovePicks DEF Key
  <1>2. PICK j \in 0..(n - 1) :
           /\ granted' = granted \ {Key(j).credential}
           /\ Begins(h, "remove", Key(j).credential, alone,
                     RemoveWrites(n, j) \o HeaderWrites(h, counts))
    BY <1>1
  <1> DEFINE c == Key(j).credential
             ws == RemoveWrites(n, j) \o HeaderWrites(h, counts)
  <1>3. Begins(h, "remove", c, alone, ws)
    BY <1>2
  <1>4. session'[h].task = "remove" /\ session'[h].writes = ws /\ UNCHANGED <<file, shape, fileVars>>
    <2> HIDE DEF ws, c
    <2> QED
      BY <1>3, BeginFields
  <1>5. Recounts(h)
    BY DEF Primary, Recounts
  <1>6. ws = RemoveWrites(n, j) \o <<HeaderWrite("start", Header("outer", counts)),
                                     HeaderWrite(BackupPlace, Header("outer", counts))>>
    BY <1>5, CountsWritten
  <1> HIDE DEF ws
  <1> QED
    BY <1>1, <1>2, <1>4, <1>5, <1>6

LEMMA RemoveBegins ==
    ASSUME TypeOK, headers["start"].key = "outer", NEW h \in Handles, session[h].volume = "outer",
           RemoveKey(h)
    PROVE  /\ SessionGrants(h)' /\ UNCHANGED <<file, shape, fileVars>>
           /\ granted' \subseteq granted
  <1>1. PICK n \in 1..MaxSlots : \E j \in 0..(n - 1) :
           /\ n = Primary.n["key"] /\ granted' = granted \ {Key(j).credential}
           /\ session'[h].task = "remove"
           /\ session'[h].writes =
                 LET counts == [Primary.n EXCEPT !["key"] = n - 1]
                 IN RemoveWrites(n, j) \o <<HeaderWrite("start", Header("outer", counts)),
                                            HeaderWrite(BackupPlace, Header("outer", counts))>>
           /\ UNCHANGED <<file, shape, fileVars>>
    BY RemoveStarts
  <1> DEFINE counts == [Primary.n EXCEPT !["key"] = n - 1]
             a == HeaderWrite("start", Header("outer", counts))
             b == HeaderWrite(BackupPlace, Header("outer", counts))
  <1>2. PICK j \in 0..(n - 1) :
           /\ n = Primary.n["key"] /\ granted' = granted \ {Key(j).credential}
           /\ session'[h].task = "remove" /\ session'[h].writes = RemoveWrites(n, j) \o <<a, b>>
           /\ UNCHANGED <<file, shape, fileVars>>
    BY <1>1
  <1> DEFINE ws == RemoveWrites(n, j) \o <<a, b>>
  <1>3. /\ UNCHANGED <<headers, slots, roots, Primary, BackupPlace>>
        /\ headers'["start"].key = "outer" /\ \A q : Key(q)' = Key(q)
    BY <1>2 DEF fileVars, Primary, BackupPlace, Key
  <1>4. n \in Nat /\ n >= 1 /\ j \in Nat /\ j < n
    BY Bounds
  <1>5. /\ Len(ws) = n + 2 /\ ws[n + 1] = a /\ ws[n + 2] = b
        /\ \A q \in 0..(n - 1) : ws[q + 1] = SlotWrite("key", q, MovedDown(n, j, q))
    <2> HIDE DEF a, b
    <2>1. MovesDown(RemoveWrites(n, j) \o <<a, b>>, n, j, a, b)
      BY RemovedInOrder
    <2> QED
      BY <2>1 DEF MovesDown
  <1>6. session'[h].writes = ws
    BY <1>2
  <1> HIDE DEF ws
  <1>7. HeadersLeft(h, "key", n - 1)'
    <2>1. (n + 2) - 1 = n + 1
      BY <1>4
    <2> QED
      BY <1>3, <1>5, <1>6, <2>1 DEF HeadersLeft
  <1> HIDE DEF a, b
  <1>8. ShiftLeft(h, n, j, 0)'
    <2>1. ASSUME NEW q \in 0..(n - 1)
          PROVE  ws[q - 0 + 1] = SlotWrite("key", q, IF q = n - 1 THEN NoiseSlot
                                                     ELSE IF q < j THEN Key(q)' ELSE Key(q + 1)')
      <3>1. q - 0 + 1 = q + 1
        BY <1>4
      <3> QED
        BY <1>3, <1>5, <3>1 DEF MovedDown
    <2>2. n - 0 + 2 = n + 2 /\ ~(j < 0) /\ 0 # n
      BY <1>4
    <2>3. Key(j)'.credential \notin granted'
      BY <1>2, <1>3
    <2>4. Len(ws) = n - 0 + 2 /\ n = Primary'.n["key"]
      BY <1>2, <1>3, <1>5, <2>2
    <2> QED
      BY <1>6, <1>7, <2>1, <2>2, <2>3, <2>4 DEF ShiftLeft
  <1>9. Removing(h)'
    <2>1. 0 \in 0..n
      BY <1>4
    <2> QED
      BY <1>2, <1>8, <2>1 DEF Removing
  <1> QED
    BY <1>2, <1>3, <1>9 DEF SessionGrants

-----------------------------------------------------------------------------
(* Those who were added: create.                                             *)

LEMMA PendingInTriple ==
    ASSUME NEW a, NEW b, NEW c
    PROVE  Pending(<<a, b, c>>, a.to, a.place) /\ Pending(<<a, b, c>>, c.to, c.place)
  <1> DEFINE ws == <<a, b, c>>
  <1>1. Len(ws) = 3 /\ ws[1] = a /\ ws[3] = c
    OBVIOUS
  <1>2. 1 \in 1..3 /\ 3 \in 1..3
    OBVIOUS
  <1> HIDE DEF ws
  <1>3. Pending(ws, a.to, a.place) /\ Pending(ws, c.to, c.place)
    BY <1>1, <1>2 DEF Pending
  <1> QED
    BY <1>3 DEF ws

LEMMA EmptyThenTriple ==
    ASSUME NEW a, NEW b, NEW c
    PROVE  <<>> \o <<a, b, c>> = <<a, b, c>>
  OBVIOUS

LEMMA CreateWritesFine ==
    ASSUME NEW sh \in ShapeKinds
    PROVE  CreateWrites(sh) \in Seq(CreateFine)
  <1>1. ASSUME NEW place \in Places, NEW header \in HeaderValues, place = "start" => header.key = "outer"
        PROVE  HeaderWrite(place, header) \in CreateFine
    BY <1>1, WriteType, SlotWriteTo DEF CreateFine
  <1>2. \A n \in AllCounts, key \in CryptKeys : Header(key, n) \in HeaderValues
    BY HeaderType
  <1>3. HiddenHeader(sh) \in HeaderValues
    BY <1>2, OneZero DEF HiddenHeader, CryptKeys
  <1>4. Header("k_hidden", Counted(1, 0)) \in HeaderValues
    BY <1>2, OneZero DEF CryptKeys
  <1>5. \A n \in {Counted(0, 0), Counted(1, 0)} :
           Header("outer", n) \in HeaderValues /\ Header("outer", n).key = "outer"
    BY <1>2, OneZero, HeaderParts DEF CryptKeys
  <1>6. CreatedBackup(sh) \in Places /\ {"start", "second", "end"} \subseteq Places
    BY DEF CreatedBackup, Places
  <1>7. SlotWrite("password", 0, Slot(Owner, "outer")) \in CreateFine
    <2>1. Slot(Owner, "outer") \in SlotValues /\ SlotFine(Slot(Owner, "outer"))
      BY SlotType, SlotParts, Bounds DEF CryptKeys, SlotFine
    <2> QED
      BY <2>1, WriteType, SlotWriteTo, Bounds DEF CreateFine, Kinds
  <1>8. RootWrite("hidden", "k_hidden") \in CreateFine /\ RootWrite("outer", "outer") \in CreateFine
    BY WriteType DEF RootWrite, CreateFine, Volumes, CryptKeys
  <1>9. \A n \in {Counted(0, 0), Counted(1, 0)} :
           /\ HeaderWrite("start", Header("outer", n)) \in CreateFine
           /\ HeaderWrite(CreatedBackup(sh), Header("outer", n)) \in CreateFine
    BY <1>1, <1>5, <1>6
  <1>10. /\ HeaderWrite("end", Header("k_hidden", Counted(1, 0))) \in CreateFine
         /\ HeaderWrite("end", HiddenHeader(sh)) \in CreateFine
         /\ HeaderWrite("second", HiddenHeader(sh)) \in CreateFine
    BY <1>1, <1>3, <1>4, <1>6
  <1> QED
    BY <1>7, <1>8, <1>9, <1>10, CreateWritesIn

LEMMA CreateWritesPending ==
    ASSUME NEW sh \in ShapeKinds, sh # "hidden long"
    PROVE  /\ Pending(CreateWrites(sh), "root", "outer")
           /\ Pending(CreateWrites(sh), "header", "start")
  <1>1. CASE sh # "keys only"
    BY <1>1, CreateWritesSafe DEF OwnedShapes
  <1>2. CASE sh = "keys only"
    <2> DEFINE header == Header("outer", Counted(0, 0))
               start == HeaderWrite("start", header)
               backup == HeaderWrite("end", header)
               root == RootWrite("outer", "outer")
               all == <<start, backup, root>>
    <2>1. HiddenWrites(sh) = <<>> /\ OuterWrites(sh) = all
      BY <1>2 DEF HiddenWrites, OuterWrites, HiddenShapes, CreatedBackup
    <2>2. /\ start.to = "header" /\ start.place = "start"
          /\ root.to = "root" /\ root.place = "outer"
      BY DEF HeaderWrite, RootWrite
    <2>3. Pending(all, "header", "start") /\ Pending(all, "root", "outer")
      <3> HIDE DEF start, root, backup
      <3>1. Pending(all, start.to, start.place) /\ Pending(all, root.to, root.place)
        BY PendingInTriple
      <3> HIDE DEF all
      <3> QED
        BY <2>2, <3>1
    <2>4. <<>> \o all = all
      BY EmptyThenTriple
    <2> HIDE DEF all
    <2> QED
      BY <1>2, <2>1, <2>3, <2>4 DEF CreateWrites
  <1> QED
    BY <1>1, <1>2

LEMMA CreateBegins ==
    ASSUME TypeOK, OneAtATime, GrantedKept, NEW h \in Handles, Create(h)
    PROVE  Creating(h)'
  <1>1. /\ file = "absent" /\ shape' \in ShapeKinds
        /\ session'[h].credential = Owner /\ session'[h].writes = CreateWrites(shape')
        /\ UNCHANGED <<slots, historyVars>>
        /\ session'[h].ok <=> shape' # "hidden long"
    BY CreateFields
  <1>2. granted' = {} /\ \A place \in Kinds \X Indices : SlotFine(slots'[place])
    BY <1>1 DEF GrantedKept, historyVars
  <1>3. session'[h].writes \in Seq(CreateFine)
    BY <1>1, CreateWritesFine
  <1>4. session'[h].ok => /\ Pending(session'[h].writes, "root", "outer")
                          /\ Pending(session'[h].writes, "header", "start")
    BY <1>1, CreateWritesPending
  <1> QED
    BY <1>1, <1>2, <1>3, <1>4 DEF Creating, CreateFine

LEMMA AppliedFine ==
    ASSUME TypeOK, NEW w \in CreateFine, Applied(w),
           \A place \in Kinds \X Indices : SlotFine(slots[place])
    PROVE  /\ \A place \in Kinds \X Indices : SlotFine(slots'[place])
           /\ OuterRoot => OuterRoot'
           /\ headers["start"].key = "outer" => headers'["start"].key = "outer"
           /\ w.to = "root" /\ w.place = "outer" => OuterRoot'
           /\ w.to = "header" /\ w.place = "start" => headers'["start"].key = "outer"
  <1>1. w \in Writes /\ "start" \in Places
    BY DEF CreateFine, Places
  <1>2. CASE w.to = "header"
    <2>1. w.place \in Places /\ (w.place = "start" => w.value.key = "outer")
      BY <1>1, <1>2 DEF Writes, CreateFine
    <2>2. headers' = [headers EXCEPT ![w.place] = w.value] /\ slots' = slots /\ roots' = roots
      BY <1>2 DEF Applied
    <2> QED
      BY <1>1, <1>2, <2>1, <2>2 DEF OuterRoot, TypeOK
  <1>3. CASE w.to = "slot"
    <2>1. w.place \in Kinds \X Indices /\ SlotFine(w.value)
      BY <1>1, <1>3 DEF Writes, CreateFine
    <2>2. headers' = headers /\ slots' = [slots EXCEPT ![w.place] = w.value] /\ roots' = roots
      BY <1>3 DEF Applied
    <2>3. \A place \in Kinds \X Indices : slots'[place] = IF place = w.place THEN w.value ELSE slots[place]
      BY <2>1, <2>2 DEF TypeOK
    <2> QED
      BY <1>3, <2>1, <2>2, <2>3 DEF OuterRoot
  <1>4. CASE w.to = "root"
    <2>1. w.place \in Volumes /\ (w.place = "outer" => w.value = "outer")
      BY <1>1, <1>4 DEF Writes, CreateFine
    <2>2. headers' = headers /\ slots' = slots /\ roots' = [roots EXCEPT ![w.place] = w.value]
      BY <1>4 DEF Applied
    <2> QED
      BY <1>4, <2>1, <2>2 DEF OuterRoot, TypeOK
  <1> QED
    BY <1>1, <1>2, <1>3, <1>4 DEF Writes

LEMMA CreateWriteStep ==
    ASSUME TypeOK, NEW h \in Handles, session[h].task = "create", Creating(h), Write(h) \/ Return(h)
    PROVE  /\ \A place \in Kinds \X Indices : SlotFine(slots'[place])
           /\ Write(h) => Creating(h)'
           /\ Return(h) /\ session[h].ok => OuterRoot' /\ headers'["start"].key = "outer"
  <1> DEFINE ws == session[h].writes
             w == Head(ws)
  <1>1. /\ Len(ws) >= 1 /\ Applied(w) /\ UNCHANGED shape /\ ws \in Seq(CreateFine)
        /\ Return(h) => ~(Len(ws) > 1)
    <2>1. Return(h) => Len(ws) = 1
      BY ReturnFields
    <2>2. Write(h) => Len(ws) > 1
      BY WriteFields
    <2>3. Applied(w) /\ UNCHANGED shape
      BY WriteFields, ReturnFields
    <2>4. ws \in Seq(CreateFine)
      BY DEF Creating
    <2> DEFINE l == Len(ws)
    <2>5. (l = 1 => l >= 1 /\ ~(l > 1)) /\ (l > 1 => l >= 1)
      <3>1. l \in Nat
        BY <2>4
      <3> HIDE DEF l
      <3> QED
        BY <3>1
    <2> HIDE DEF ws, w, l
    <2> QED
      BY <2>1, <2>2, <2>3, <2>4, <2>5 DEF l
  <1>2. w \in CreateFine /\ Tail(ws) \in Seq(CreateFine)
    BY <1>1, HeadTail
  <1>3. /\ \A place \in Kinds \X Indices : SlotFine(slots'[place])
        /\ OuterRoot => OuterRoot'
        /\ headers["start"].key = "outer" => headers'["start"].key = "outer"
        /\ w.to = "root" /\ w.place = "outer" => OuterRoot'
        /\ w.to = "header" /\ w.place = "start" => headers'["start"].key = "outer"
    <2>1. \A place \in Kinds \X Indices : SlotFine(slots[place])
      BY DEF Creating
    <2> HIDE DEF w, ws
    <2> QED
      BY <1>1, <1>2, <2>1, AppliedFine
  <1>4. ASSUME session[h].ok
        PROVE  /\ OuterRoot' \/ (Len(ws) > 1 /\ Pending(Tail(ws), "root", "outer"))
               /\ headers'["start"].key = "outer" \/ (Len(ws) > 1 /\ Pending(Tail(ws), "header", "start"))
    <2>1. OuterRoot \/ Pending(ws, "root", "outer")
      BY <1>4 DEF Creating
    <2>2. headers["start"].key = "outer" \/ Pending(ws, "header", "start")
      BY <1>4 DEF Creating
    <2> HIDE DEF ws
    <2>3. Pending(ws, "root", "outer") =>
             \/ w.to = "root" /\ w.place = "outer"
             \/ Len(ws) > 1 /\ Pending(Tail(ws), "root", "outer")
      BY <1>1, PendingStep
    <2>4. Pending(ws, "header", "start") =>
             \/ w.to = "header" /\ w.place = "start"
             \/ Len(ws) > 1 /\ Pending(Tail(ws), "header", "start")
      BY <1>1, PendingStep
    <2> QED
      BY <1>3, <2>1, <2>2, <2>3, <2>4
  <1>5. ASSUME Write(h) PROVE Creating(h)'
    <2>1. /\ session'[h].writes = Tail(ws) /\ session'[h].ok = session[h].ok
          /\ session'[h].credential = session[h].credential /\ UNCHANGED granted
      BY <1>5, WriteFields DEF historyVars
    <2>2. granted = {} /\ session[h].credential = Owner
      BY DEF Creating
    <2> HIDE DEF ws, w
    <2>3. session[h].ok \in BOOLEAN
      BY <1>5, BusyType DEF Write
    <2>4. session'[h].ok => session[h].ok
      BY <2>1
    <2> QED
      BY <1>2, <1>3, <1>4, <2>1, <2>2, <2>4 DEF Creating, CreateFine
  <1> QED
    BY <1>1, <1>3, <1>4, <1>5

(* Made: the owner, and nobody else, was added. *)
LEMMA CreateReturns ==
    ASSUME TypeOK, NEW h \in Handles, session[h].task = "create", Creating(h), Return(h),
           session[h].ok, OwnerKept', TypeOK'
    PROVE  OuterFine' /\ AllGranted'
  <1>1. /\ \A place \in Kinds \X Indices : SlotFine(slots'[place])
        /\ OuterRoot' /\ headers'["start"].key = "outer"
    BY CreateWriteStep
  <1>2. OuterFine'
    BY <1>1 DEF OuterFine
  <1>3. file' = "made" /\ granted' \subseteq {Owner} /\ (shape = "keys only" => granted' = {})
        /\ UNCHANGED shape
    BY DEF Return, Creating
  <1>4. ASSUME NEW c \in granted' PROVE Grants(c, 0)'
    <2>1. c = Owner /\ shape' \in OwnedShapes /\ KindOf(c) = "password" /\ "password" \in Kinds
      BY <1>3, <1>4, Bounds DEF OwnedShapes, TypeOK, KindOf, Kinds
    <2>2. OwnerSlot' /\ HeadersSafe'
      BY <1>3, <2>1 DEF OwnerKept
    <2>3. \A p \in {"start", "end"} : headers'[p].key = "outer" =>
             headers'[p].n["password"] >= 1 /\ headers'[p].n["password"] \in Nat
      <3> SUFFICES ASSUME NEW p \in {"start", "end"}, headers'[p].key = "outer"
                   PROVE  headers'[p].n["password"] >= 1 /\ headers'[p].n["password"] \in Nat
        OBVIOUS
      <3>1. p \in Places /\ headers'[p] \in HeaderValues
        BY DEF TypeOK, Places
      <3>2. headers'[p].n["password"] \in 0..MaxSlots
        BY <2>1, <3>1 DEF HeaderValues, AllCounts
      <3> QED
        BY <2>2, <3>1, <3>2, Bounds DEF HeadersSafe
    <2> QED
      BY <2>1, <2>2, <2>3 DEF Grants, OwnerSlot
  <1> QED
    BY <1>2, <1>4, Bounds DEF AllGranted

-----------------------------------------------------------------------------
(* Those who were added: every step.                                         *)

LEMMA FilesKeepGrants ==
    ASSUME UNCHANGED <<shape, fileVars>>, granted' \subseteq granted
    PROVE  (OuterFine => OuterFine') /\ (AllGranted => AllGranted')
  BY DEF fileVars, OuterFine, OuterRoot, AllGranted, Grants

LEMMA SameSession ==
    ASSUME NEW o \in Handles, session'[o] = session[o], UNCHANGED <<shape, fileVars, granted>>
    PROVE  (SessionGrants(o) => SessionGrants(o)') /\ (Creating(o) => Creating(o)')
  <1>1. UNCHANGED <<headers, slots, roots, Primary, BackupPlace>> /\ \A q : Key(q)' = Key(q)
    BY DEF fileVars, Primary, BackupPlace, Key
  <1>2. BackupLeft(o) => BackupLeft(o)'
    BY <1>1 DEF BackupLeft
  <1>3. ASSUME NEW k, NEW n, HeadersLeft(o, k, n) PROVE HeadersLeft(o, k, n)'
    BY <1>1, <1>3 DEF HeadersLeft
  <1>4. Adding(o) => Adding(o)'
    <2>1. ASSUME NEW k, NEW i, SlotComes(o, k, i) PROVE SlotComes(o, k, i)'
      BY <1>1, <1>3, <2>1 DEF SlotComes
    <2>2. ASSUME NEW k, NEW i, SlotCame(o, k, i) PROVE SlotCame(o, k, i)'
      BY <1>1, <1>3, <2>2 DEF SlotCame
    <2>3. ASSUME NEW k, NEW i, SlotCounted(o, k, i) PROVE SlotCounted(o, k, i)'
      BY <1>1, <1>2, <2>3 DEF SlotCounted
    <2> QED
      BY <2>1, <2>2, <2>3 DEF Adding
  <1>5. AddingHidden(o) => AddingHidden(o)'
    BY <1>1 DEF AddingHidden
  <1>6. Removing(o) => Removing(o)'
    <2>1. ASSUME NEW n, NEW j, NEW m, ShiftLeft(o, n, j, m) PROVE ShiftLeft(o, n, j, m)'
      BY <1>1, <1>3, <2>1 DEF ShiftLeft
    <2> QED
      BY <1>2, <2>1 DEF Removing
  <1>7. SessionGrants(o) => SessionGrants(o)'
    BY <1>1, <1>4, <1>5, <1>6 DEF SessionGrants, Busy
  <1>8. Creating(o) => Creating(o)'
    BY <1>1 DEF Creating, OuterRoot, CreateFine
  <1> QED
    BY <1>7, <1>8

(* A handle that does not write leaves no more to do. *)
LEMMA RestingGrants ==
    ASSUME NEW o \in Handles, ~Busy(o)'
    PROVE  SessionGrants(o)' /\ session'[o].task # "create"
  BY DEF SessionGrants, Busy

LEMMA GrantedRest ==
    ASSUME TypeOK, OneAtATime, GrantedKept, NEW h \in Handles, Open(h) \/ Close(h) \/ Crash(h)
    PROVE  GrantedKept'
  <1>1. /\ session'[h].task \in {"closed", "idle"}
        /\ \A o \in Handles \ {h} : session'[o] = session[o]
        /\ UNCHANGED <<file, shape, fileVars, granted, overlapped>>
    BY RestFields DEF historyVars
  <1>2. UNCHANGED slots
    BY <1>1 DEF fileVars
  <1>3. ~Busy(h)'
    BY <1>1 DEF Busy
  <1>4. \A o \in Handles : (SessionGrants(o) => SessionGrants(o)')
                           /\ (session'[o].task = "create" => session[o].task = "create"
                                                               /\ (Creating(o) => Creating(o)'))
    BY <1>1, <1>3, RestingGrants, SameSession
  <1>5. (OuterFine => OuterFine') /\ (AllGranted => AllGranted')
    BY <1>1, FilesKeepGrants
  <1> QED
    BY <1>1, <1>2, <1>4, <1>5 DEF GrantedKept

LEMMA BeginsSound ==
    ASSUME NEW h \in Handles
    PROVE  /\ "manage" \notin Faults /\ (AddRecipient(h) \/ RemoveKey(h)) => headers["start"].key = "outer"
           /\ "hidden manage" \notin Faults /\ RemoveKey(h) => session[h].volume = "outer"
           /\ AddRecipient(h) \/ RemoveKey(h) =>
                 session[h].task = "idle"
                 /\ overlapped' = (overlapped \/ \E o \in Handles : Busy(o))
  BY DEF AddRecipient, RemoveKey, Begins, Primary

LEMMA GrantedBegin ==
    ASSUME TypeOK, HeadersKept, GrantedKept, NEW h \in Handles, headers["start"].key = "outer",
           \/ AddRecipient(h)
           \/ RemoveKey(h) /\ session[h].volume = "outer"
    PROVE  GrantedKept'
  <1>1. /\ SessionGrants(h)' /\ UNCHANGED <<file, shape, fileVars>> /\ granted' \subseteq granted
        /\ session'[h].task \in {"add", "remove"}
        /\ \A o \in Handles \ {h} : session'[o] = session[o]
    <2>1. CASE AddRecipient(h)
      <3>1. SessionApart(h)
        BY DEF HeadersKept
      <3>2. PICK c, alone, ws : Begins(h, "add", c, alone, ws)
        BY <2>1 DEF AddRecipient
      <3>3. session'[h].task = "add" /\ \A o \in Handles \ {h} : session'[o] = session[o]
        BY <3>2, BeginFields
      <3> QED
        BY <2>1, <3>1, <3>3, AddBegins
    <2>2. CASE RemoveKey(h) /\ session[h].volume = "outer"
      <3>2. PICK c, alone, ws : Begins(h, "remove", c, alone, ws)
        BY <2>2 DEF RemoveKey
      <3>3. session'[h].task = "remove" /\ \A o \in Handles \ {h} : session'[o] = session[o]
        BY <3>2, BeginFields
      <3> QED
        BY <2>2, <3>3, RemoveBegins
    <2> QED
      BY <2>1, <2>2
  <1>2. overlapped' = (overlapped \/ \E o \in Handles : Busy(o)) /\ session[h].task = "idle"
    BY BeginsSound
  <1>3. file' # "absent"
    BY <1>1, <1>2, RestingTask DEF HeadersKept, OneAtATime
  <1> SUFFICES ASSUME ~overlapped'
               PROVE  /\ \A o \in Handles : session'[o].task # "create"
                      /\ file' = "made" => OuterFine' /\ AllGranted' /\ \A o \in Handles : SessionGrants(o)'
    BY <1>3 DEF GrantedKept
  <1>4. ~overlapped /\ \A o \in Handles \ {h} : ~Busy(o)'
    BY <1>1, <1>2 DEF Busy
  <1>5. \A o \in Handles \ {h} : SessionGrants(o)' /\ session'[o].task # "create"
    BY <1>4, RestingGrants
  <1>6. file' = "made" => OuterFine' /\ AllGranted'
    BY <1>1, <1>4, FilesKeepGrants DEF GrantedKept
  <1> QED
    BY <1>1, <1>5, <1>6

LEMMA GrantedWrite ==
    ASSUME TypeOK, OneAtATime, GrantedKept, NEW h \in Handles, Write(h)
    PROVE  GrantedKept'
  <1>1. /\ session'[h].task = session[h].task /\ Busy(h)
        /\ \A o \in Handles \ {h} : session'[o] = session[o]
        /\ UNCHANGED <<file, overlapped>>
    BY WriteFields DEF historyVars
  <1>2. file' # "absent"
    BY <1>1, RestingTask DEF OneAtATime, Busy
  <1> SUFFICES ASSUME ~overlapped'
               PROVE  /\ \A o \in Handles : session'[o].task = "create" => Creating(o)'
                      /\ file' = "made" => OuterFine' /\ AllGranted' /\ \A o \in Handles : SessionGrants(o)'
    BY <1>2 DEF GrantedKept
  <1>3. ~overlapped /\ \A o \in Handles \ {h} : ~Busy(o)'
    BY <1>1 DEF OneAtATime, Busy
  <1>4. \A o \in Handles \ {h} : SessionGrants(o)' /\ session'[o].task # "create"
    BY <1>3, RestingGrants
  <1>5. session'[h].task = "create" => Creating(h)'
    BY <1>1, <1>3, CreateWriteStep DEF GrantedKept
  <1>6. ASSUME file' = "made" PROVE OuterFine' /\ AllGranted' /\ SessionGrants(h)'
    <2>1. /\ OuterFine /\ AllGranted /\ headers["start"].key = "outer"
          /\ Adding(h) \/ AddingHidden(h) \/ Removing(h)
      BY <1>1, <1>3, <1>6 DEF GrantedKept, SessionGrants
    <2>2. ~AddingHidden(h)
      <3> DEFINE l == Len(session[h].writes)
      <3>1. l > 1
        BY WriteFields
      <3>2. AddingHidden(h) => l = 1
        BY DEF AddingHidden
      <3> HIDE DEF l
      <3> QED
        BY <3>1, <3>2
    <2> QED
      BY <2>1, <2>2, AddWrites, RemoveWriteStep
  <1> QED
    BY <1>4, <1>5, <1>6

LEMMA GrantedReturn ==
    ASSUME TypeOK, OneAtATime, GrantedKept, NEW h \in Handles, Return(h), TypeOK', OwnerKept'
    PROVE  GrantedKept'
  <1>1. /\ session'[h].task \in {"closed", "idle"} /\ Busy(h)
        /\ \A o \in Handles \ {h} : session'[o] = session[o]
        /\ UNCHANGED overlapped
    BY ReturnFields
  <1>2. \/ file' = "made" /\ session[h].task = "create" /\ session[h].ok
        \/ file' = file
    BY DEF Return
  <1>3. file' # "absent"
    BY <1>1, <1>2, RestingTask DEF OneAtATime, Busy
  <1> SUFFICES ASSUME ~overlapped'
               PROVE  /\ \A o \in Handles : session'[o].task # "create"
                      /\ file' = "made" => OuterFine' /\ AllGranted' /\ \A o \in Handles : SessionGrants(o)'
    BY <1>3 DEF GrantedKept
  <1>4. ~overlapped /\ \A o \in Handles : ~Busy(o)'
    BY <1>1 DEF OneAtATime, Busy
  <1>5. \A o \in Handles : SessionGrants(o)' /\ session'[o].task # "create"
    BY <1>4, RestingGrants
  <1>6. ASSUME file' = "made" PROVE OuterFine' /\ AllGranted'
    <2>1. CASE session[h].task = "create"
      <3>1. session[h].ok
        BY <1>2, <1>6, <2>1 DEF OneAtATime
      <3> QED
        BY <1>4, <2>1, <3>1, CreateReturns DEF GrantedKept
    <2>2. CASE session[h].task # "create"
      <3>1. file = "made"
        BY <1>2, <1>6, <2>2
      <3>2. OuterFine /\ AllGranted /\ SessionGrants(h) /\ headers["start"].key = "outer"
        BY <1>1, <1>4, <3>1 DEF GrantedKept, SessionGrants
      <3> QED
        BY <2>2, <3>2, ReturnGrants
    <2> QED
      BY <2>1, <2>2
  <1> QED
    BY <1>5, <1>6

LEMMA GrantedDamage ==
    ASSUME TypeOK, HeadersKept, GrantedKept, Damage
    PROVE  GrantedKept'
  <1>1. PICK p \in HeaderPlaces, n \in DamagedCounts :
            headers' = [headers EXCEPT ![p] = Header("none", n)]
    BY DEF Damage
  <1>2. /\ file = "made" /\ \A q \in HeaderPlaces : Sound(q)
        /\ \A h \in Handles : ~Busy(h)
        /\ UNCHANGED <<file, shape, slots, roots, session, granted, overlapped>>
    BY DEF Damage, historyVars
  <1> SUFFICES ASSUME ~overlapped PROVE OuterFine' /\ AllGranted'
    BY <1>2, RestingGrants DEF GrantedKept, Busy
  <1>3. OuterFine /\ AllGranted
    BY <1>2 DEF GrantedKept
  <1>4. /\ "start" \in HeaderPlaces /\ HeaderPlaces \subseteq Places
        /\ shape \notin HiddenShapes => "end" \in HeaderPlaces
        /\ "start" \in Places /\ "end" \in Places
    BY DEF HeaderPlaces, CreatedBackup, Places
  <1>5. /\ headers["start"].key = "outer"
        /\ shape \notin HiddenShapes => headers["end"].key = "outer"
    BY <1>2, <1>4 DEF Sound, HeadersKept, HeadersApart, CreatedBackup
  <1>6. \A q \in Places : headers'[q] = IF q = p THEN Header("none", n) ELSE headers[q]
    BY <1>1, <1>4 DEF TypeOK
  <1>7. Header("none", n).key = "none"
    BY DEF Header
  <1>8. OuterFine'
    BY <1>2, <1>3, <1>4, <1>5, <1>6, <1>7 DEF OuterFine, OuterRoot
  <1>9. AllGranted'
    <2>1. \A c, i : Grants(c, i) => Grants(c, i)'
      BY <1>2, <1>4, <1>6, <1>7 DEF Grants
    <2> QED
      BY <1>2, <1>3, <2>1 DEF AllGranted
  <1> QED
    BY <1>8, <1>9

LEMMA GrantedCreate ==
    ASSUME TypeOK, OneAtATime, GrantedKept, NEW h \in Handles, Create(h)
    PROVE  GrantedKept'
  <1>1. file = "absent" /\ file' = "partial" /\ \A o \in Handles \ {h} : session'[o] = session[o]
    BY CreateFields
  <1>2. \A o \in Handles \ {h} : session'[o].task # "create"
    BY <1>1, RestingTask DEF OneAtATime
  <1> QED
    BY <1>1, <1>2, CreateBegins DEF GrantedKept

LEMMA GrantedStep ==
    ASSUME "manage" \notin Faults, "hidden manage" \notin Faults,
           TypeOK, HeadersKept, GrantedKept, [Next]_vars, TypeOK', OwnerKept'
    PROVE  GrantedKept'
  <1>1. OneAtATime
    BY DEF HeadersKept
  <1>2. CASE UNCHANGED vars
    <2>1. /\ UNCHANGED <<file, shape, fileVars, session, granted, overlapped>>
      BY <1>2 DEF vars, historyVars
    <2>2. \A o \in Handles : (SessionGrants(o) => SessionGrants(o)') /\ (Creating(o) => Creating(o)')
      BY <2>1, SameSession
    <2>3. (OuterFine => OuterFine') /\ (AllGranted => AllGranted')
      BY <2>1, FilesKeepGrants
    <2> QED
      BY <2>1, <2>2, <2>3 DEF GrantedKept, fileVars
  <1>3. ASSUME NEW h \in Handles, Create(h) PROVE GrantedKept'
    BY <1>1, <1>3, GrantedCreate
  <1>4. ASSUME NEW h \in Handles, Open(h) \/ Close(h) \/ Crash(h) PROVE GrantedKept'
    BY <1>1, <1>4, GrantedRest
  <1>5. ASSUME NEW h \in Handles, AddRecipient(h) \/ RemoveKey(h) PROVE GrantedKept'
    <2>1. headers["start"].key = "outer" /\ (RemoveKey(h) => session[h].volume = "outer")
      BY <1>5, BeginsSound
    <2> QED
      BY <1>5, <2>1, GrantedBegin
  <1>6. ASSUME NEW h \in Handles, Write(h) PROVE GrantedKept'
    BY <1>1, <1>6, GrantedWrite
  <1>7. ASSUME NEW h \in Handles, Return(h) PROVE GrantedKept'
    BY <1>1, <1>7, GrantedReturn
  <1>8. CASE Damage
    BY <1>8, GrantedDamage
  <1> QED
    BY <1>2, <1>3, <1>4, <1>5, <1>6, <1>7, <1>8 DEF Next

-----------------------------------------------------------------------------
(* Those who were added get in.                                              *)

LEMMA LeastExists ==
    ASSUME NEW S \in SUBSET Nat, S # {}
    PROVE  \E x \in S : \A y \in S : x <= y
  <1> DEFINE T == {0..x : x \in S}
  <1>1. T \subseteq FiniteSubsetsOf(Nat)
    <2> SUFFICES ASSUME NEW x \in S PROVE 0..x \in FiniteSubsetsOf(Nat)
      OBVIOUS
    <2>1. IsFiniteSet(0..x) /\ 0..x \subseteq Nat
      BY FS_Interval
    <2> QED
      BY <2>1 DEF FiniteSubsetsOf
  <1>2. T # {}
    OBVIOUS
  <1>3. IsWellFoundedOn(StrictSubsetOrdering(Nat), FiniteSubsetsOf(Nat))
    BY FS_StrictSubsetOrderingWellFounded
  <1>4. PICK t \in T : \A u \in T : ~(<<u, t>> \in StrictSubsetOrdering(Nat))
    <2> HIDE DEF T
    <2> QED
      BY <1>1, <1>2, <1>3, WFMin
  <1>5. PICK x \in S : t = 0..x
    OBVIOUS
  <1>6. \A y \in S : x <= y
    <2> SUFFICES ASSUME NEW y \in S, y < x PROVE FALSE
      OBVIOUS
    <2>1. 0..y \in T /\ 0..y \subseteq 0..x /\ x \in 0..x /\ x \notin 0..y
      OBVIOUS
    <2>2. <<0..y, 0..x>> \in StrictSubsetOrdering(Nat)
      BY <2>1 DEF StrictSubsetOrdering
    <2> QED
      BY <1>4, <1>5, <2>1, <2>2
  <1> QED
    BY <1>6

(* The first slot that c opens is of the counted ones, and gives the key.    *)
LEMMA GrantedReads ==
    ASSUME TypeOK, OuterFine, AllGranted, CountsStandIn, NEW c \in granted
    PROVE  Reads(c)
  <1> DEFINE k == KindOf(c)
  <1>1. PICK x \in Indices : Grants(c, x)
    BY DEF AllGranted
  <1>2. /\ k \in Kinds /\ c # Nobody /\ x \in Nat
        /\ headers["start"].n[k] \in Nat /\ headers["end"].n[k] \in Nat
    BY PrimaryType, GrantedType
  <1>3. /\ slots[<<k, x>>] = Slot(c, "outer")
        /\ headers["start"].key = "outer" => x < headers["start"].n[k]
        /\ shape \notin HiddenShapes /\ headers["end"].key = "outer" => x < headers["end"].n[k]
    BY <1>1 DEF Grants
  <1>4. \A header : header.n[k] > 0 => SomeCount(header)
    BY <1>2 DEF SomeCount, Kinds
  <1>5. /\ x < Counts[k] /\ Authentic("outer", {"start", "end", "end2"})
        /\ \/ shape \notin HiddenShapes
           \/ headers["start"].key = "outer" /\ Counts[k] = headers["start"].n[k]
    <2>1. CASE headers["start"].key = "outer"
      <3>1. x < headers["start"].n[k] /\ headers["start"].n[k] > 0
        BY <1>2, <1>3, <2>1
      <3>2. Counts = headers["start"].n
        BY <1>4, <3>1 DEF Counts
      <3> QED
        BY <2>1, <3>1, <3>2 DEF Authentic
    <2>2. CASE headers["start"].key # "outer"
      <3>1. ~SomeCount(headers["start"]) /\ shape \notin HiddenShapes
        BY <2>2 DEF CountsStandIn, Primary
      <3>2. headers["end"].key = "outer"
        BY <2>2, <3>1 DEF OuterFine
      <3>3. x < headers["end"].n[k] /\ headers["end"].n[k] > 0
        BY <1>2, <1>3, <3>1, <3>2
      <3>4. Counts = headers["end"].n
        BY <1>4, <3>1, <3>3 DEF Counts
      <3> QED
        BY <3>1, <3>2, <3>3, <3>4 DEF Authentic
    <2> QED
      BY <2>1, <2>2
  <1> DEFINE S == {i \in Indices : slots[<<k, i>>].credential = c}
  <1>6. x \in S /\ S \in SUBSET Nat
    BY <1>3, SlotParts, Bounds
  <1>7. PICK i \in S : \A y \in S : i <= y
    <2>1. S # {}
      BY <1>6
    <2> HIDE DEF S
    <2> QED
      BY <1>6, <2>1, LeastExists
  <1>8. i \in Indices /\ i \in Nat /\ slots[<<k, i>>].credential = c /\ i <= x
    BY <1>6, <1>7
  <1>9. i < Counts[k]
    <2>1. Counts[k] \in Nat
      <3>1. Counts \in AllCounts
        BY DEF TypeOK, HeaderValues, Places, Counts
      <3> QED
        BY <1>2, <3>1, Bounds DEF AllCounts
    <2> HIDE DEF k
    <2> QED
      BY <1>2, <1>5, <1>8, <2>1
  <1>10. slots[<<k, i>>].key = "outer"
    <2>1. SlotFine(slots[<<k, i>>])
      BY <1>2, <1>5, <1>8, <1>9 DEF OuterFine
    <2> QED
      BY <1>2, <1>8, <2>1 DEF SlotFine
  <1>11. \A y \in Indices : y < i => slots[<<k, y>>].credential # c
    <2> SUFFICES ASSUME NEW y \in Indices, y < i, slots[<<k, y>>].credential = c PROVE FALSE
      OBVIOUS
    <2>1. y \in S /\ y \in Nat
      BY Bounds
    <2>2. i <= y
      BY <1>7, <2>1
    <2> QED
      BY <1>8, <2>1, <2>2
  <1>12. Unlocks(c)
    BY <1>8, <1>9, <1>10, <1>11 DEF Unlocks, IsFor
  <1> QED
    BY <1>5, <1>12 DEF Reads, OpensOuter, OuterFine, OuterRoot

(* From the end of create on, whoever was added and not removed gets in and  *)
(* reads the root: between the writes of an operation on somebody else,      *)
(* after a crash in it, and from the backup header, if open sees that the    *)
(* primary is lost.  As long as no two operations ran at once, and nobody    *)
(* manages recipients over a damaged primary or removes them through the     *)
(* hidden volume.                                                            *)
THEOREM GrantedGetIn ==
    "manage" \notin Faults /\ "hidden manage" \notin Faults => (Spec => []GrantedOpens)
  <1> SUFFICES ASSUME "manage" \notin Faults, "hidden manage" \notin Faults
               PROVE  Spec => []GrantedOpens
    OBVIOUS
  <1>1. Init => GrantedKept
    <2> SUFFICES ASSUME Init PROVE GrantedKept
      OBVIOUS
    <2>1. \A place \in Kinds \X Indices : SlotFine(slots[place])
      BY SlotParts DEF Init, NoiseSlot, SlotFine
    <2>2. \A h \in Handles : session[h].task = "closed"
      BY RestingTask DEF Init
    <2> QED
      BY <2>1, <2>2 DEF Init, GrantedKept
  <1>2. TypeOK /\ HeadersKept /\ GrantedKept /\ [Next]_vars /\ TypeOK' /\ OwnerKept' => GrantedKept'
    BY GrantedStep
  <1>3. TypeOK /\ GrantedKept => GrantedOpens
    BY GrantedReads DEF GrantedKept, GrantedOpens
  <1>4. Spec => [](TypeOK /\ OwnerKept)
    BY OwnerKeptAlways
  <1> QED
    BY <1>1, <1>2, <1>3, <1>4, HeadersAlways, PTL DEF Spec

=============================================================================
