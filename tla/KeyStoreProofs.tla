---------------------------- MODULE KeyStoreProofs ----------------------------
(***************************************************************************)
(* What the window's rows stand for, for any keys, names and files, and    *)
(* however mounts are reported and files removed meanwhile.                *)
(***************************************************************************)
EXTENDS KeyStore, FiniteSetTheorems, TLAPS

-----------------------------------------------------------------------------
(* Sorting.                                                                  *)

(* Two entries are the one before the other, or the same.                    *)
LEMMA LaterTotal ==
    ASSUME NEW a \in Entry, NEW b \in Entry, a # b
    PROVE  /\ Later(a, b) \/ Later(b, a)
           /\ ~(Later(a, b) /\ Later(b, a))
  <1>1. a.key \in Nat /\ b.key \in Nat /\ a.name \in Nat /\ b.name \in Nat
    BY KeysAssumption, NamesAssumption DEF Entry, Names, NameOf
  <1>2. a.key # b.key \/ a.name # b.name
    BY DEF Entry
  <1> QED
    BY <1>1, <1>2 DEF Later

LEMMA LaterTransitive ==
    ASSUME NEW a \in Entry, NEW b \in Entry, NEW c \in Entry, Later(a, b), Later(b, c)
    PROVE  Later(a, c) /\ ~Later(a, a)
  <1>1. \A e \in {a, b, c} : e.key \in Nat /\ e.name \in Nat
    BY KeysAssumption, NamesAssumption DEF Entry, Names, NameOf
  <1> QED
    BY <1>1 DEF Later

LEMMA NotLaterThanItself ==
    ASSUME NEW a \in Entry PROVE ~Later(a, a)
  <1>1. a.key \in Nat /\ a.name \in Nat
    BY KeysAssumption, NamesAssumption DEF Entry, Names, NameOf
  <1> QED
    BY <1>1 DEF Later

(* How many of S come before x. *)
Rank(S, x) == Cardinality({y \in S : Later(y, x)})

LEMMA RankGrows ==
    ASSUME NEW S \in SUBSET Entry, IsFiniteSet(S), NEW x \in S, NEW y \in S, Later(x, y)
    PROVE  Rank(S, x) < Rank(S, y)
  <1> DEFINE X == {z \in S : Later(z, x)}
             Y == {z \in S : Later(z, y)}
  <1>1. X \subseteq Y
    BY LaterTransitive
  <1>2. x \in Y /\ x \notin X
    BY NotLaterThanItself
  <1>3. IsFiniteSet(Y)
    BY FS_Subset
  <1>4. Cardinality(X) <= Cardinality(Y) /\ Cardinality(X) # Cardinality(Y)
    BY <1>1, <1>2, <1>3, FS_Subset
  <1>5. Cardinality(X) \in Nat /\ Cardinality(Y) \in Nat
    BY <1>1, <1>3, FS_Subset, FS_CardinalityType
  <1> QED
    BY <1>4, <1>5 DEF Rank

LEMMA RankBound ==
    ASSUME NEW S \in SUBSET Entry, IsFiniteSet(S), NEW x \in S
    PROVE  Rank(S, x) \in 0..(Cardinality(S) - 1)
  <1> DEFINE X == {z \in S : Later(z, x)}
  <1>1. X \subseteq S /\ x \notin X
    BY NotLaterThanItself
  <1>2. IsFiniteSet(X) /\ Cardinality(X) <= Cardinality(S) /\ Cardinality(X) # Cardinality(S)
    BY <1>1, FS_Subset
  <1>3. Cardinality(X) \in Nat /\ Cardinality(S) \in Nat
    BY <1>2, FS_CardinalityType
  <1> QED
    BY <1>2, <1>3 DEF Rank

(* Every finite set of entries can be put in order: the place of an entry is *)
(* the number of those before it.                                            *)
LEMMA SortedExists ==
    ASSUME NEW S \in SUBSET Entry, IsFiniteSet(S)
    PROVE  \E rows \in SetToSeqs(S) :
               \A i, j \in DOMAIN rows : i < j => Later(rows[i], rows[j])
  <1> DEFINE n == Cardinality(S)
             place == [x \in S |-> Rank(S, x) + 1]
             rows == [i \in 1..n |-> CHOOSE x \in S : place[x] = i]
  <1>1. n \in Nat
    BY FS_CardinalityType
  <1>2. \A x \in S : Rank(S, x) \in Nat /\ place[x] \in 1..n
    BY <1>1, RankBound
  <1>3. \A x, y \in S : Later(x, y) => place[x] < place[y]
    BY <1>2, RankGrows
  <1>4. \A x, y \in S : x # y => place[x] # place[y]
    <2> SUFFICES ASSUME NEW x \in S, NEW y \in S, x # y PROVE place[x] # place[y]
      OBVIOUS
    <2>1. Later(x, y) \/ Later(y, x)
      BY LaterTotal
    <2> QED
      BY <2>1, <1>2, <1>3
  <1>5. place \in Injection(S, 1..n)
    <2>1. place \in [S -> 1..n]
      BY <1>2
    <2> HIDE DEF place
    <2> QED
      BY <2>1, <1>4, Zenon DEF Injection, IsInjective
  <1>6. IsFiniteSet(1..n) /\ Cardinality(1..n) = n
    BY <1>1, FS_Interval
  <1>7. place \in Surjection(S, 1..n)
    BY <1>5, <1>6, FS_Injection
  <1>8. \A i \in 1..n : \E x \in S : place[x] = i
    BY <1>7 DEF Surjection
  <1>9. \A i \in 1..n : rows[i] \in S /\ place[rows[i]] = i
    BY <1>8
  <1> HIDE DEF place, rows, n
  <1>10. rows \in [1..n -> S] /\ DOMAIN rows = 1..n
    <2>1. rows = [i \in 1..n |-> rows[i]]
      BY DEF rows
    <2> QED
      BY <2>1, <1>9
  <1>11. rows \in SetToSeqs(S)
    <2>1. \A i, j \in 1..n : i # j => rows[i] # rows[j]
      BY <1>9
    <2> QED
      BY <2>1, <1>10 DEF SetToSeqs, n
  <1>12. \A i, j \in 1..n : i < j => Later(rows[i], rows[j])
    <2> SUFFICES ASSUME NEW i \in 1..n, NEW j \in 1..n, i < j PROVE Later(rows[i], rows[j])
      OBVIOUS
    <2>1. place[rows[i]] = i /\ place[rows[j]] = j /\ rows[i] \in S /\ rows[j] \in S
      BY <1>9
    <2>2. rows[i] # rows[j] /\ ~Later(rows[j], rows[i])
      BY <2>1, <1>1, <1>3
    <2> QED
      BY <2>1, <2>2, LaterTotal
  <1> QED
    BY <1>10, <1>11, <1>12

(* The rows of a list are the entries it was made from. *)
LEMMA SortedRows ==
    ASSUME NEW S \in SUBSET Entry, IsFiniteSet(S)
    PROVE  /\ Sorted(S) \in Seq(Entry)
           /\ \A row \in DOMAIN Sorted(S) : Sorted(S)[row] \in S
  <1>1. Sorted(S) \in SetToSeqs(S)
    BY SortedExists DEF Sorted
  <1>2. Sorted(S) \in [1..Cardinality(S) -> S]
    BY <1>1 DEF SetToSeqs
  <1>3. Cardinality(S) \in Nat
    BY FS_CardinalityType
  <1> QED
    BY <1>2, <1>3

-----------------------------------------------------------------------------
(* The invariant.                                                            *)

StoreTyped ==
    /\ DOMAIN store = Names
    /\ \A n \in Names : store[n] \in FilesNamed(n) \cup {None, Unreadable}

(* The file of a row is still of the key the row shows, or is none any more, *)
(* unless an export went over it.                                            *)
RowsTrue ==
    \A row \in DOMAIN m_keys : m_keys[row].name \notin Destinations =>
        store[m_keys[row].name].key \in {0, m_keys[row].key}

(* So is the file of the entry a question is about.                          *)
QuestionTrue ==
    ~Idle => /\ dialog.shown = dialog.entry.key
             /\ dialog.entry.name \notin Destinations =>
                    store[dialog.entry.name].key \in {0, dialog.entry.key}

(* An open question keeps the user from the create tab, though not the       *)
(* report of a mount from the first one.                                     *)
AskedElsewhere == ~Idle => tab \in {"keys", "vaults"}

KeyInv == TypeOK /\ AskedElsewhere /\ RowsAreKeys /\ RowsTrue /\ QuestionTrue

-----------------------------------------------------------------------------
LEMMA AskedStep ==
    ASSUME AskedElsewhere, [Next]_vars PROVE AskedElsewhere'
  <1> USE DEF AskedElsewhere, Idle
  <1>1. CASE UNCHANGED <<tab, dialog>>
    BY <1>1
  <1>2. CASE dialog'.asks = "nothing"
    BY <1>2
  <1>3. ASSUME NEW t, SwitchTab(t) PROVE AskedElsewhere'
    BY <1>3 DEF SwitchTab
  <1>4. ASSUME NEW what, NEW row, Ask(what, row) PROVE AskedElsewhere'
    BY <1>4 DEF Ask, Managing
  <1>5. CASE OnMountStarted
    <2>1. tab' = "vaults" \/ UNCHANGED <<tab, dialog>>
      BY <1>5 DEF OnMountStarted, TabShown
    <2> QED BY <2>1
  <1>6. ASSUME NEW n, NEW dest, Delete(n) \/ Export(n, dest) PROVE AskedElsewhere'
    BY <1>2, <1>6 DEF Delete, Export
  <1>7. ASSUME NEW n, NEW file, Import(n, file) \/ DropFile(n, file) PROVE AskedElsewhere'
    BY <1>1, <1>7 DEF Import, DropFile
  <1>8. ASSUME NEW k, Generate(k) PROVE AskedElsewhere'
    BY <1>1, <1>8 DEF Generate
  <1>9. CASE \/ RefreshUsb \/ Mount \/ Cancel \/ UNCHANGED vars
             \/ \E n \in Names : RemovedOutside(n)
             \/ \E rows \in SUBSET (DOMAIN listCreateKeys) : CreateContainer(rows)
    BY <1>1, <1>2, <1>9
    DEF RefreshUsb, Mount, Cancel, RemovedOutside, CreateContainer, vars
  <1> QED BY <1>3, <1>4, <1>5, <1>6, <1>7, <1>8, <1>9 DEF Next

LEMMA RowsStep ==
    ASSUME AskedElsewhere, RowsAreKeys, [Next]_vars PROVE RowsAreKeys'
  <1> USE DEF RowsAreKeys
  <1>1. ASSUME NEW t, TabShown(t) PROVE RowsAreKeys'
    BY <1>1 DEF TabShown, RefreshKeyList, RefreshCreateKeyList, RefreshMountKeyList
  <1>2. CASE ListsUnchanged /\ UNCHANGED tab
    BY <1>2 DEF ListsUnchanged
  <1>3. CASE RefreshKeyList /\ UNCHANGED tab /\ tab \in {"keys", "vaults"}
    BY <1>3 DEF RefreshKeyList
  <1>4. ASSUME NEW t, SwitchTab(t) PROVE RowsAreKeys'
    BY <1>1, <1>4 DEF SwitchTab
  <1>5. CASE RefreshUsb
    BY <1>5 DEF RefreshUsb, RefreshMountKeyList
  <1>6. CASE OnMountStarted
    BY <1>1, <1>2, <1>6 DEF OnMountStarted
  <1>7. ASSUME NEW k, Generate(k) PROVE RowsAreKeys'
    BY <1>2, <1>3, <1>7 DEF Generate, Managing
  <1>8. ASSUME NEW n, NEW file, Import(n, file) \/ DropFile(n, file) PROVE RowsAreKeys'
    BY <1>2, <1>3, <1>8 DEF Import, DropFile, Managing
  <1>9. ASSUME NEW n, NEW dest, Export(n, dest) PROVE RowsAreKeys'
    BY <1>2, <1>9 DEF Export
  <1>10. ASSUME NEW n, Delete(n) PROVE RowsAreKeys'
    <2>1. RefreshKeyList /\ UNCHANGED tab /\ ~Idle
      BY <1>10 DEF Delete, Idle
    <2> QED BY <1>3, <2>1 DEF AskedElsewhere
  <1>11. CASE \/ Mount \/ Cancel \/ UNCHANGED vars
              \/ \E n \in Names : RemovedOutside(n)
              \/ \E rows \in SUBSET (DOMAIN listCreateKeys) : CreateContainer(rows)
              \/ \E what \in {"delete", "export"}, row \in DOMAIN listKeys : Ask(what, row)
    BY <1>2, <1>11
    DEF Mount, Cancel, RemovedOutside, CreateContainer, Ask, vars, ListsUnchanged
  <1> QED BY <1>4, <1>5, <1>6, <1>7, <1>8, <1>9, <1>10, <1>11 DEF Next

-----------------------------------------------------------------------------
(* Files and lists.                                                          *)

LEMMA NamesTyped ==
    /\ Names \subseteq Nat \ {0}
    /\ IsFiniteSet(Names)
    /\ \A k \in Keys : k \in Nat \ {0} /\ NameOf(k) = k /\ k \in Names
    /\ Destinations \subseteq Names
  BY KeysAssumption, NamesAssumption DEF Names, NameOf

LEMMA FileFields ==
    ASSUME NEW k
    PROVE  /\ PrivateFile(k).key = k /\ PublicFile(k).key = k
           /\ None.key = 0 /\ Unreadable.key = 0
           /\ \A j : PrivateFile(k) # PublicFile(j)
           /\ \A j : PrivateFile(k) = PrivateFile(j) => k = j
           /\ PrivateFile(k) # Unreadable
           /\ k # 0 => PrivateFile(k) # None /\ PublicFile(k) # Unreadable
  BY DEF PrivateFile, PublicFile, None, Unreadable

(* What may be under a name.                                                 *)
LEMMA NamedFiles ==
    ASSUME NEW n \in Names, NEW f \in FilesNamed(n)
    PROVE  /\ f.key \in Keys
           /\ f \in {PrivateFile(f.key), PublicFile(f.key)}
           /\ n \in PublicNames => f = PublicFile(f.key)
           /\ n \in Keys => f = PrivateFile(n)
  BY FileFields, NamesTyped, NamesAssumption DEF FilesNamed, NameOf

LEMMA PublicFits ==
    ASSUME NEW n \in PublicNames, NEW k \in Keys
    PROVE  PublicFile(k) \in FilesNamed(n)
  BY DEF FilesNamed

LEMMA GeneratedFits ==
    ASSUME NEW k \in Keys
    PROVE  PrivateFile(k) \in FilesNamed(NameOf(k))
  BY DEF FilesNamed

LEMMA StoredFiles ==
    ASSUME StoreTyped, NEW n \in Names
    PROVE  /\ store[n].key \in Keys \cup {0}
           /\ store[n].key # 0 => store[n] \in FilesNamed(n)
           /\ \A k \in Keys : store[n] = PrivateFile(k) =>
                 /\ n \notin PublicNames
                 /\ n \in Keys => n = k
  <1>1. store[n] \in FilesNamed(n) \cup {None, Unreadable}
    BY DEF StoreTyped
  <1>2. None.key = 0 /\ Unreadable.key = 0
    BY FileFields
  <1>3. ASSUME NEW k \in Keys, store[n] = PrivateFile(k)
        PROVE  store[n] \in FilesNamed(n)
    BY <1>1, <1>3, FileFields, NamesTyped
  <1> QED
    BY <1>1, <1>2, <1>3, NamedFiles, FileFields

(* The entries a list is made from.                                          *)
Listed == {[name |-> n, key |-> store[n].key] : n \in {n \in Names : store[n].key # 0}}

LEMMA ListedTyped ==
    ASSUME StoreTyped
    PROVE  /\ Listed \subseteq Entry /\ IsFiniteSet(Listed)
           /\ \A e \in Listed : store[e.name].key = e.key
  <1> DEFINE R == {n \in Names : store[n].key # 0}
             f == [n \in R |-> [name |-> n, key |-> store[n].key]]
  <1>1. Listed \subseteq Entry
    BY StoredFiles DEF Listed, Entry
  <1>2. IsFiniteSet(R)
    BY NamesTyped, FS_Subset
  <1>3. f \in Surjection(R, Listed)
    <2>1. f \in [R -> Listed] /\ \A e \in Listed : \E n \in R : f[n] = e
      BY DEF Listed
    <2> QED
      BY <2>1 DEF Surjection
  <1>4. IsFiniteSet(Listed)
    BY <1>2, <1>3, FS_Surjection
  <1> QED
    BY <1>1, <1>4 DEF Listed

Loaded == m_keys' = LocalKeys'

(* Whichever list is drawn, it is drawn from m_keys.                         *)
ListsDrawn ==
    /\ Loaded \/ UNCHANGED m_keys
    /\ listKeys' \in {listKeys, m_keys'}
    /\ listCreateKeys' \in {listCreateKeys, m_keys'}

ListTrue ==
    /\ LocalKeys \in Seq(Entry)
    /\ \A row \in DOMAIN LocalKeys : store[LocalKeys[row].name].key = LocalKeys[row].key

LEMMA ListedAlways == StoreTyped => ListTrue
  <1> SUFFICES ASSUME StoreTyped PROVE ListTrue
    OBVIOUS
  <1>1. LocalKeys = Sorted(Listed)
    BY DEF LocalKeys, Listed
  <1>2. Listed \in SUBSET Entry /\ IsFiniteSet(Listed)
    BY ListedTyped
  <1>3. LocalKeys \in Seq(Entry) /\ \A row \in DOMAIN LocalKeys : LocalKeys[row] \in Listed
    BY <1>1, <1>2, SortedRows
  <1> QED
    BY <1>3, ListedTyped DEF ListTrue

LEMMA ListedNext == StoreTyped' => ListTrue'
  BY ListedAlways, PTL

LEMMA LoadedTrue ==
    ASSUME StoreTyped', Loaded
    PROVE  /\ m_keys' \in Seq(Entry)
           /\ \A row \in DOMAIN m_keys' : store'[m_keys'[row].name].key = m_keys'[row].key
  BY ListedNext DEF Loaded, ListTrue

-----------------------------------------------------------------------------
(* What a step does to files and lists.                                      *)

(* Only an export puts a key's file where a list has been drawn before.      *)
NoNewFiles == \A n \in Names \ Destinations : store'[n].key \in {0, store[n].key}

FilesMove == StoreTyped' /\ ListsDrawn /\ (Loaded \/ NoNewFiles)

LEMMA StoreSame ==
    ASSUME StoreTyped, UNCHANGED store
    PROVE  StoreTyped' /\ NoNewFiles
  BY DEF StoreTyped, NoNewFiles

LEMMA StoreWrite ==
    ASSUME StoreTyped, NEW n \in Names, NEW f \in FilesNamed(n) \cup {None, Unreadable},
           store' = [store EXCEPT ![n] = f]
    PROVE  /\ StoreTyped'
           /\ f \in {None, Unreadable} => NoNewFiles
  <1>1. DOMAIN store' = Names
    BY DEF StoreTyped
  <1>2. \A m \in Names : store'[m] = IF m = n THEN f ELSE store[m]
    BY DEF StoreTyped
  <1>3. None.key = 0 /\ Unreadable.key = 0
    BY FileFields
  <1>4. StoreTyped'
    BY <1>1, <1>2 DEF StoreTyped
  <1>5. f \in {None, Unreadable} => NoNewFiles
    BY <1>2, <1>3 DEF NoNewFiles
  <1> QED
    BY <1>4, <1>5

(* An export reaches names of .pub files only.                               *)
LEMMA WithWrite ==
    ASSUME StoreTyped, NEW dest \in Destinations \cup {Elsewhere},
           NEW f, dest \in PublicNames => f \in FilesNamed(dest) \cup {None, Unreadable},
           store' = With(dest, f)
    PROVE  StoreTyped' /\ NoNewFiles
  <1>1. dest \in Names => dest \in Destinations /\ dest \in PublicNames
    BY NamesTyped, NamesAssumption DEF Elsewhere
  <1>2. DOMAIN store' = Names /\ \A n \in Names : store'[n] = IF n = dest THEN f ELSE store[n]
    BY DEF With
  <1>3. StoreTyped'
    BY <1>1, <1>2 DEF StoreTyped
  <1>4. NoNewFiles
    BY <1>1, <1>2 DEF NoNewFiles
  <1> QED
    BY <1>3, <1>4

LEMMA ListsMove ==
    /\ RefreshKeyList => Loaded /\ ListsDrawn
    /\ RefreshCreateKeyList => Loaded /\ ListsDrawn
    /\ RefreshMountKeyList => Loaded /\ ListsDrawn
    /\ ListsUnchanged => ListsDrawn
    /\ \A t : TabShown(t) => Loaded /\ ListsDrawn
  BY DEF RefreshKeyList, RefreshCreateKeyList, RefreshMountKeyList, ListsUnchanged, TabShown,
         Loaded, ListsDrawn

LEMMA RowsKept ==
    ASSUME TypeOK, RowsTrue, FilesMove
    PROVE  /\ {m_keys, listKeys, listCreateKeys}' \subseteq Seq(Entry)
           /\ RowsTrue'
  <1>1. CASE Loaded
    <2>1. /\ m_keys' \in Seq(Entry)
          /\ \A row \in DOMAIN m_keys' : store'[m_keys'[row].name].key = m_keys'[row].key
      BY <1>1, LoadedTrue DEF FilesMove
    <2> QED
      BY <2>1 DEF TypeOK, RowsTrue, FilesMove, ListsDrawn
  <1>2. CASE ~Loaded
    <2>1. UNCHANGED m_keys /\ NoNewFiles
      BY <1>2 DEF FilesMove, ListsDrawn
    <2>2. m_keys \in Seq(Entry)
      BY DEF TypeOK
    <2>3. ASSUME NEW row \in DOMAIN m_keys, m_keys[row].name \notin Destinations
          PROVE  store'[m_keys[row].name].key \in {0, m_keys[row].key}
      <3>1. m_keys[row] \in Entry
        BY <2>2
      <3>2. m_keys[row].name \in Names
        BY <3>1 DEF Entry
      <3> QED
        BY <2>1, <2>3, <3>2 DEF NoNewFiles, RowsTrue
    <2> QED
      BY <2>1, <2>2, <2>3 DEF TypeOK, RowsTrue, FilesMove, ListsDrawn
  <1> QED
    BY <1>1, <1>2

(* Steps that leave the directory as it is. *)
LEMMA FilesStay ==
    ASSUME StoreTyped,
           \/ \E t : SwitchTab(t)
           \/ RefreshUsb \/ Mount \/ OnMountStarted \/ Cancel \/ UNCHANGED vars
           \/ \E rows : CreateContainer(rows)
           \/ \E what, row : Ask(what, row)
    PROVE  FilesMove /\ UNCHANGED store
  <1>1. UNCHANGED store
    BY DEF SwitchTab, RefreshUsb, Mount, OnMountStarted, Cancel, vars, CreateContainer, Ask
  <1>2. ListsDrawn
    <2>1. ASSUME UNCHANGED <<m_keys, listKeys, listCreateKeys>> PROVE ListsDrawn
      BY <2>1 DEF ListsDrawn
    <2>2. ASSUME NEW t, SwitchTab(t) PROVE ListsDrawn
      BY <2>2, ListsMove DEF SwitchTab
    <2>3. RefreshUsb => ListsDrawn
      BY ListsMove DEF RefreshUsb
    <2>4. OnMountStarted => ListsDrawn
      BY ListsMove DEF OnMountStarted
    <2>5. Mount \/ Cancel \/ UNCHANGED vars => ListsDrawn
      BY <2>1 DEF Mount, Cancel, vars
    <2>6. ASSUME NEW rows, CreateContainer(rows) PROVE ListsDrawn
      BY <2>1, <2>6 DEF CreateContainer
    <2>7. ASSUME NEW what, NEW row, Ask(what, row) PROVE ListsDrawn
      BY <2>1, <2>7 DEF Ask
    <2> QED
      BY <2>2, <2>3, <2>4, <2>5, <2>6, <2>7
  <1> QED
    BY <1>1, <1>2, StoreSame DEF FilesMove

(* Steps that change it. *)
LEMMA GenerateFiles ==
    ASSUME StoreTyped, NEW k \in Keys, Generate(k)
    PROVE  FilesMove
  <1>1. k \in Names /\ NameOf(k) = k /\ PrivateFile(k) \in FilesNamed(NameOf(k))
    BY NamesTyped, GeneratedFits
  <1>2. CASE RefreshKeyList /\ store' \in {store, [store EXCEPT ![NameOf(k)] = PrivateFile(k)]}
    <2>1. StoreTyped'
      BY <1>1, <1>2, StoreSame, StoreWrite
    <2> QED
      BY <1>2, <2>1, ListsMove DEF FilesMove
  <1>3. CASE ListsUnchanged /\ store' \in {store, [store EXCEPT ![NameOf(k)] = Unreadable]}
    <2>1. StoreTyped' /\ NoNewFiles
      BY <1>1, <1>3, StoreSame, StoreWrite
    <2> QED
      BY <1>3, <2>1, ListsMove DEF FilesMove
  <1> QED
    BY <1>2, <1>3 DEF Generate

LEMMA ImportFiles ==
    ASSUME StoreTyped, NEW n \in Names, NEW file \in FilesNamed(n),
           Import(n, file) \/ DropFile(n, file)
    PROVE  FilesMove
  <1>1. ASSUME NEW f \in {file, None}, store' = [store EXCEPT ![n] = f]
        PROVE  StoreTyped' /\ (f = None => NoNewFiles)
    BY <1>1, StoreWrite
  <1>2. \/ RefreshKeyList /\ \E f \in {file, None} : store' = [store EXCEPT ![n] = f]
        \/ ListsUnchanged /\ store' = [store EXCEPT ![n] = None]
    BY DEF Import, DropFile
  <1> QED
    BY <1>1, <1>2, ListsMove DEF FilesMove

LEMMA RemovedFiles ==
    ASSUME StoreTyped, NEW n \in Names, RemovedOutside(n) \/ Delete(n)
    PROVE  FilesMove /\ NoNewFiles
  <1>1. store' = [store EXCEPT ![n] = None]
    BY DEF RemovedOutside, Delete
  <1>2. StoreTyped' /\ NoNewFiles
    BY <1>1, StoreWrite
  <1>3. ListsDrawn
    BY ListsMove DEF RemovedOutside, Delete, ListsUnchanged
  <1> QED
    BY <1>2, <1>3 DEF FilesMove

LEMMA ExportFiles ==
    ASSUME StoreTyped, NEW n \in Names, NEW dest \in Destinations \cup {Elsewhere},
           Export(n, dest)
    PROVE  FilesMove /\ (UNCHANGED store \/ \E f : store' = With(dest, f))
  <1>1. ListsDrawn
    BY ListsMove DEF Export
  <1>2. CASE store[n].key # 0 /\ store' = With(dest, PublicFile(store[n].key))
    <2>1. store[n].key \in Keys
      BY <1>2, StoredFiles
    <2>2. dest \in PublicNames => PublicFile(store[n].key) \in FilesNamed(dest)
      BY <2>1, PublicFits
    <2>3. StoreTyped' /\ NoNewFiles
      BY <1>2, <2>2, WithWrite
    <2> QED
      BY <1>1, <1>2, <2>3 DEF FilesMove
  <1>3. ASSUME NEW f \in {None, Unreadable}, store' = With(dest, f)
        PROVE  FilesMove /\ \E g : store' = With(dest, g)
    <2>1. StoreTyped' /\ NoNewFiles
      BY <1>3, WithWrite
    <2> QED
      BY <1>1, <1>3, <2>1 DEF FilesMove
  <1>4. CASE UNCHANGED store
    BY <1>1, <1>4, StoreSame DEF FilesMove
  <1> QED
    BY <1>2, <1>3, <1>4 DEF Export

LEMMA FilesStep ==
    ASSUME StoreTyped, [Next]_vars
    PROVE  FilesMove
  <1>1. ASSUME NEW rows \in SUBSET (DOMAIN listCreateKeys), CreateContainer(rows) PROVE FilesMove
    BY <1>1, FilesStay
  <1>2. ASSUME NEW what, NEW row, Ask(what, row) PROVE FilesMove
    BY <1>2, FilesStay
  <1>3. ASSUME NEW t, SwitchTab(t) PROVE FilesMove
    BY <1>3, FilesStay
  <1>4. RefreshUsb \/ Mount \/ OnMountStarted \/ Cancel \/ UNCHANGED vars => FilesMove
    BY FilesStay
  <1>5. ASSUME NEW n \in Names, NEW file \in FilesNamed(n), Import(n, file) \/ DropFile(n, file)
        PROVE  FilesMove
    BY <1>5, ImportFiles
  <1>6. ASSUME NEW n \in Names, RemovedOutside(n) \/ Delete(n) PROVE FilesMove
    BY <1>6, RemovedFiles
  <1>7. ASSUME NEW n \in Names, NEW dest \in Destinations \cup {Elsewhere}, Export(n, dest)
        PROVE  FilesMove
    BY <1>7, ExportFiles
  <1>8. ASSUME NEW k \in Keys, Generate(k) PROVE FilesMove
    BY <1>8, GenerateFiles
  <1> QED
    BY <1>1, <1>2, <1>3, <1>4, <1>5, <1>6, <1>7, <1>8 DEF Next

-----------------------------------------------------------------------------
(* What a step asks and does.                                                *)

QuestionTyped ==
    Idle \/ dialog \in [asks : {"delete", "export"}, entry : Entry, shown : Keys,
                        stale : BOOLEAN]

(* A row that is asked about or picked is of a key. *)
LEMMA RowTyped ==
    ASSUME TypeOK, NEW row
    PROVE  /\ row \in DOMAIN m_keys => m_keys[row] \in Entry /\ m_keys[row].name \in Names
                                         /\ m_keys[row].key \in Keys
           /\ row \in DOMAIN listKeys => listKeys[row].key \in Keys
           /\ row \in DOMAIN listCreateKeys => listCreateKeys[row].key \in Keys
  <1>1. m_keys \in Seq(Entry) /\ listKeys \in Seq(Entry) /\ listCreateKeys \in Seq(Entry)
    BY DEF TypeOK
  <1>2. /\ row \in DOMAIN m_keys => m_keys[row] \in Entry
        /\ row \in DOMAIN listKeys => listKeys[row] \in Entry
        /\ row \in DOMAIN listCreateKeys => listCreateKeys[row] \in Entry
    BY <1>1
  <1> QED
    BY <1>2 DEF Entry

(* A question is asked, is dropped or answered, or goes on while no file of  *)
(* a key comes.                                                              *)
QuestionMove ==
    \/ dialog' = [asks |-> "nothing"]
    \/ NoNewFiles /\ (UNCHANGED dialog \/ (~Idle /\ dialog' = [dialog EXCEPT !.stale = TRUE]))
    \/ \E what \in {"delete", "export"}, row \in DOMAIN listKeys : Ask(what, row)

LEMMA QuestionStep ==
    ASSUME StoreTyped, [Next]_vars
    PROVE  QuestionMove \/ (Idle /\ UNCHANGED dialog)
  <1>1. ASSUME NEW rows, CreateContainer(rows) PROVE Idle /\ UNCHANGED dialog
    BY <1>1 DEF CreateContainer
  <1>2. ASSUME NEW t, SwitchTab(t) PROVE Idle /\ UNCHANGED dialog
    BY <1>2 DEF SwitchTab
  <1>3. RefreshUsb \/ Mount => Idle /\ UNCHANGED dialog
    BY DEF RefreshUsb, Mount
  <1>4. OnMountStarted => QuestionMove
    BY StoreSame, Zenon DEF OnMountStarted, QuestionMove
  <1>5. Cancel => QuestionMove
    BY DEF Cancel, QuestionMove
  <1>6. UNCHANGED vars => QuestionMove
    BY StoreSame DEF QuestionMove, vars
  <1>7. ASSUME NEW n, NEW file, Import(n, file) \/ DropFile(n, file)
        PROVE  Idle /\ UNCHANGED dialog
    BY <1>7 DEF Import, DropFile, Managing
  <1>8. ASSUME NEW n \in Names, RemovedOutside(n) PROVE QuestionMove
    BY <1>8, RemovedFiles DEF RemovedOutside, QuestionMove
  <1>9. ASSUME NEW n, NEW dest, Delete(n) \/ Export(n, dest) PROVE QuestionMove
    BY <1>9 DEF Delete, Export, QuestionMove
  <1>10. ASSUME NEW k, Generate(k) PROVE Idle /\ UNCHANGED dialog
    BY <1>10 DEF Generate, Managing
  <1>11. ASSUME NEW what \in {"delete", "export"}, NEW row \in DOMAIN listKeys, Ask(what, row)
         PROVE  QuestionMove
    BY <1>11 DEF QuestionMove
  <1> QED
    BY <1>1, <1>2, <1>3, <1>4, <1>5, <1>6, <1>7, <1>8, <1>9, <1>10, <1>11 DEF Next

LEMMA QuestionKept ==
    ASSUME KeyInv, [Next]_vars
    PROVE  QuestionTyped' /\ QuestionTrue'
  <1>1. StoreTyped /\ QuestionTyped
    BY DEF KeyInv, TypeOK, StoreTyped, QuestionTyped
  <1>2. CASE dialog' = [asks |-> "nothing"]
    BY <1>2 DEF QuestionTyped, QuestionTrue, Idle
  <1>3. CASE Idle /\ UNCHANGED dialog
    BY <1>3 DEF QuestionTyped, QuestionTrue, Idle
  <1>4. ASSUME ~Idle, NoNewFiles, dialog' \in {dialog, [dialog EXCEPT !.stale = TRUE]}
        PROVE  QuestionTyped' /\ QuestionTrue'
    <2>1. dialog \in [asks : {"delete", "export"}, entry : Entry, shown : Keys, stale : BOOLEAN]
      BY <1>1, <1>4 DEF QuestionTyped
    <2>2. /\ dialog' \in [asks : {"delete", "export"}, entry : Entry, shown : Keys, stale : BOOLEAN]
          /\ dialog'.entry = dialog.entry /\ dialog'.shown = dialog.shown
      BY <1>4, <2>1
    <2>3. dialog.entry.name \in Names
      BY <2>1 DEF Entry
    <2>4. dialog.entry.name \notin Destinations =>
              store'[dialog.entry.name].key \in {0, dialog.entry.key}
      BY <1>4, <2>3 DEF KeyInv, QuestionTrue, NoNewFiles
    <2>5. dialog.shown = dialog.entry.key
      BY <1>4 DEF KeyInv, QuestionTrue
    <2> QED
      BY <2>2, <2>4, <2>5 DEF QuestionTyped, QuestionTrue
  <1>5. ASSUME NEW what \in {"delete", "export"}, NEW row \in DOMAIN listKeys, Ask(what, row)
        PROVE  QuestionTyped' /\ QuestionTrue'
    <2>1. dialog' = [asks |-> what, entry |-> m_keys[row], shown |-> listKeys[row].key,
                     stale |-> FALSE]
      BY <1>5 DEF Ask
    <2>2. listKeys = m_keys /\ UNCHANGED store
      BY <1>5 DEF Ask, Managing, KeyInv, RowsAreKeys
    <2>3. m_keys[row] \in Entry /\ m_keys[row].key \in Keys
      BY <2>2, RowTyped DEF KeyInv
    <2>4. QuestionTyped'
      BY <2>1, <2>2, <2>3 DEF QuestionTyped
    <2>5. m_keys[row].name \notin Destinations =>
              store[m_keys[row].name].key \in {0, m_keys[row].key}
      BY <2>2 DEF KeyInv, RowsTrue
    <2>6. dialog'.entry = m_keys[row] /\ dialog'.shown = m_keys[row].key
      BY <2>1, <2>2
    <2> QED
      BY <2>2, <2>4, <2>5, <2>6 DEF QuestionTrue
  <1>6. QuestionMove \/ (Idle /\ UNCHANGED dialog)
    BY <1>1, QuestionStep
  <1>7. CASE QuestionMove
    BY <1>2, <1>3, <1>4, <1>5, <1>7 DEF QuestionMove
  <1> QED
    BY <1>3, <1>6, <1>7

LEMMA TabStep ==
    ASSUME TypeOK, [Next]_vars
    PROVE  tab' \in {"vaults", "create", "keys"} /\ mounting' \in BOOLEAN
  <1> USE DEF TypeOK
  <1>1. ASSUME NEW t \in {"vaults", "create", "keys"}, SwitchTab(t)
        PROVE  tab' = t /\ UNCHANGED mounting
    BY <1>1 DEF SwitchTab, TabShown
  <1>2. Mount => mounting' = TRUE /\ UNCHANGED tab
    BY DEF Mount
  <1>3. OnMountStarted => mounting' = FALSE /\ tab' \in {tab, "vaults"}
    BY DEF OnMountStarted, TabShown
  <1>4. ASSUME NEW n, NEW file, Import(n, file) \/ DropFile(n, file)
        PROVE  UNCHANGED <<tab, mounting>>
    BY <1>4 DEF Import, DropFile
  <1>5. ASSUME NEW n, NEW dest, RemovedOutside(n) \/ Delete(n) \/ Export(n, dest)
        PROVE  UNCHANGED <<tab, mounting>>
    BY <1>5 DEF RemovedOutside, Delete, Export
  <1>6. ASSUME NEW k, Generate(k) PROVE UNCHANGED <<tab, mounting>>
    BY <1>6 DEF Generate
  <1>7. ASSUME NEW what, NEW row, Ask(what, row) PROVE UNCHANGED <<tab, mounting>>
    BY <1>7 DEF Ask
  <1>8. ASSUME NEW rows, CreateContainer(rows) PROVE UNCHANGED <<tab, mounting>>
    BY <1>8 DEF CreateContainer
  <1>9. RefreshUsb \/ Cancel \/ UNCHANGED vars => UNCHANGED <<tab, mounting>>
    BY DEF RefreshUsb, Cancel, vars
  <1> QED
    BY <1>1, <1>2, <1>3, <1>4, <1>5, <1>6, <1>7, <1>8, <1>9 DEF Next

-----------------------------------------------------------------------------
(* What was done to keys, against what was shown.                            *)

LastTyped == last \in [shown : SUBSET Keys, done : SUBSET Keys, excused : BOOLEAN]

Acted == Destinations = {} => ActsOnWhatIsShown

LEMMA IdleSteps ==
    ASSUME DidNothing PROVE LastTyped' /\ Acted'
  BY DEF DidNothing, Did, LastTyped, Acted, ActsOnWhatIsShown

LEMMA PickedRows ==
    ASSUME KeyInv, NEW rows, CreateContainer(rows)
    PROVE  LastTyped' /\ Acted'
  <1> DEFINE picked == {m_keys[row].name : row \in rows \cap DOMAIN m_keys}
             shown == {listCreateKeys[row].key : row \in rows}
             done == {store[n].key : n \in picked}
  <1>1. /\ Did(shown, done, FALSE) /\ rows \subseteq DOMAIN listCreateKeys
        /\ \A n \in picked : store[n].key # 0
        /\ listCreateKeys = m_keys
    BY DEF CreateContainer, KeyInv, RowsAreKeys
  <1>2. ASSUME NEW row \in rows
        PROVE  /\ row \in DOMAIN m_keys /\ m_keys[row].key \in Keys
               /\ store[m_keys[row].name].key \in Keys
               /\ Destinations = {} => store[m_keys[row].name].key = m_keys[row].key
    <2>1. row \in DOMAIN m_keys
      BY <1>1
    <2>2. m_keys[row].key \in Keys /\ m_keys[row].name \in Names
      BY <2>1, RowTyped DEF KeyInv
    <2>3. store[m_keys[row].name].key # 0
      BY <1>1, <2>1
    <2>4. StoreTyped
      BY DEF KeyInv, TypeOK, StoreTyped
    <2>5. store[m_keys[row].name].key \in Keys
      BY <2>2, <2>3, <2>4, StoredFiles
    <2> QED
      BY <2>1, <2>2, <2>3, <2>5 DEF KeyInv, RowsTrue
  <1>3. shown \subseteq Keys /\ done \subseteq Keys
    BY <1>1, <1>2
  <1>4. Destinations = {} => done \subseteq shown
    BY <1>1, <1>2
  <1>5. last' = [shown |-> shown, done |-> done, excused |-> FALSE]
    BY <1>1 DEF Did
  <1> HIDE DEF shown, done
  <1> QED
    BY <1>3, <1>4, <1>5 DEF LastTyped, Acted, ActsOnWhatIsShown

(* The answer to a question acts on the file the question was about, or on   *)
(* what the memory read holds.                                               *)
LEMMA AnsweredAbout ==
    ASSUME KeyInv, ~Idle, NEW n, n \in NamesRead,
           NEW done, done \subseteq Keys \cap {store[n].key},
           Did({dialog.shown}, done, dialog.stale)
    PROVE  LastTyped' /\ Acted'
  <1>1. dialog \in [asks : {"delete", "export"}, entry : Entry, shown : Keys, stale : BOOLEAN]
    BY DEF KeyInv, TypeOK
  <1>2. last' = [shown |-> {dialog.shown}, done |-> done, excused |-> dialog.stale]
    BY DEF Did
  <1>3. LastTyped'
    BY <1>1, <1>2 DEF LastTyped
  <1>4. ASSUME Destinations = {}, ~dialog.stale PROVE done \subseteq {dialog.shown}
    <2>1. n = dialog.entry.name
      BY <1>4 DEF NamesRead
    <2>2. store[n].key \in {0, dialog.shown}
      BY <1>4, <2>1 DEF KeyInv, QuestionTrue
    <2> QED
      BY <2>2, KeysAssumption
  <1>5. Acted'
    BY <1>1, <1>2, <1>4 DEF Acted, ActsOnWhatIsShown
  <1> QED
    BY <1>3, <1>5

LEMMA DoneStep ==
    ASSUME KeyInv, Acted, [Next]_vars
    PROVE  LastTyped' /\ Acted'
  <1>1. ASSUME NEW rows, CreateContainer(rows) PROVE LastTyped' /\ Acted'
    BY <1>1, PickedRows
  <1>2. ASSUME NEW n \in Names, Delete(n) PROVE LastTyped' /\ Acted'
    <2> DEFINE done == {k \in Keys : store[n] \in {PrivateFile(k), PublicFile(k)}}
    <2>1. ~Idle /\ n \in NamesRead /\ Did({dialog.shown}, done, dialog.stale)
      BY <1>2 DEF Delete, Idle
    <2>2. done \subseteq Keys \cap {store[n].key}
      BY FileFields
    <2> HIDE DEF done
    <2> QED
      BY <2>1, <2>2, AnsweredAbout
  <1>3. ASSUME NEW n \in Names, NEW dest, Export(n, dest) PROVE LastTyped' /\ Acted'
    <2>1. ~Idle /\ n \in NamesRead
      BY <1>3 DEF Export, Idle
    <2>2. CASE store[n].key # 0 /\ Did({dialog.shown}, {store[n].key}, dialog.stale)
      <3>1. StoreTyped
        BY DEF KeyInv, TypeOK, StoreTyped
      <3>2. {store[n].key} \subseteq Keys \cap {store[n].key}
        BY <2>2, <3>1, StoredFiles
      <3> QED
        BY <2>1, <2>2, <3>2, AnsweredAbout
    <2>3. CASE DidNothing
      BY <2>3, IdleSteps
    <2> QED
      BY <1>3, <2>2, <2>3 DEF Export
  <1>4. CASE UNCHANGED vars
    BY <1>4 DEF vars, KeyInv, TypeOK, LastTyped, Acted, ActsOnWhatIsShown
  <1>5. ASSUME NEW t, SwitchTab(t) PROVE DidNothing
    BY <1>5 DEF SwitchTab
  <1>6. RefreshUsb \/ Mount \/ OnMountStarted \/ Cancel => DidNothing
    BY DEF RefreshUsb, Mount, OnMountStarted, Cancel
  <1>7. ASSUME NEW n, NEW file, Import(n, file) \/ DropFile(n, file) PROVE DidNothing
    BY <1>7 DEF Import, DropFile
  <1>8. ASSUME NEW n, RemovedOutside(n) PROVE DidNothing
    BY <1>8 DEF RemovedOutside
  <1>9. ASSUME NEW k, Generate(k) PROVE DidNothing
    BY <1>9 DEF Generate
  <1>10. ASSUME NEW what, NEW row, Ask(what, row) PROVE DidNothing
    BY <1>10 DEF Ask
  <1> QED
    BY <1>1, <1>2, <1>3, <1>4, <1>5, <1>6, <1>7, <1>8, <1>9, <1>10, IdleSteps DEF Next

-----------------------------------------------------------------------------
(* Private keys.                                                             *)

(* An export goes over .pub files only. *)
LEMMA ExportedOver ==
    ASSUME StoreTyped, NEW k \in Keys, NEW n \in Names, store[n] = PrivateFile(k),
           NEW dest \in Destinations \cup {Elsewhere}, NEW f, store' = With(dest, f)
    PROVE  store'[n] = PrivateFile(k)
  <1>1. n \notin Destinations /\ n # Elsewhere
    BY StoredFiles, NamesTyped, NamesAssumption DEF Elsewhere
  <1> QED
    BY <1>1 DEF With

LEMMA KeyLeaves ==
    ASSUME KeyInv, [Next]_vars, NEW k \in Keys, HasPrivate(k), ~HasPrivate(k)'
    PROVE  \/ dialog.asks = "delete" /\ (dialog.entry.key = k \/ dialog.stale)
           \/ \E n \in Names : \/ RemovedOutside(n)
                               \/ \E file \in FilesNamed(n) : Import(n, file) \/ DropFile(n, file)
  <1>1. StoreTyped
    BY DEF KeyInv, TypeOK, StoreTyped
  <1>2. PICK m \in Names : store[m] = PrivateFile(k)
    BY DEF HasPrivate
  <1>3. store'[m] # PrivateFile(k)
    BY DEF HasPrivate
  <1>4. ~UNCHANGED store
    BY <1>2, <1>3
  <1>5. ASSUME NEW j \in Keys, Generate(j) PROVE FALSE
    <2>1. store[m].key = k /\ NameOf(j) = j
      BY <1>2, FileFields, NamesTyped
    <2>2. \A n \in Names : store[n].key # j
      BY <1>5 DEF Generate
    <2>3. m # j
      BY <1>1, <1>2, <2>1, <2>2, StoredFiles
    <2>4. store'[m] = store[m]
      BY <1>1, <1>5, <2>1, <2>3 DEF Generate, StoreTyped
    <2> QED
      BY <1>2, <1>3, <2>4
  <1>6. ASSUME NEW n \in Names, Delete(n)
        PROVE  dialog.asks = "delete" /\ (dialog.entry.key = k \/ dialog.stale)
    <2>1. /\ dialog.asks = "delete" /\ n \in NamesRead /\ ~Idle
          /\ store' = [store EXCEPT ![n] = None]
      BY <1>6 DEF Delete, Idle
    <2>2. m = n
      BY <1>1, <1>2, <1>3, <2>1 DEF StoreTyped
    <2>3. CASE ~dialog.stale
      <3>1. n = dialog.entry.name
        BY <2>1, <2>3 DEF NamesRead
      <3>2. n \notin Destinations
        BY <1>1, <1>2, <2>2, StoredFiles, NamesAssumption
      <3>3. store[n].key \in {0, dialog.entry.key}
        BY <2>1, <3>1, <3>2 DEF KeyInv, QuestionTrue
      <3>4. store[n].key = k /\ k # 0
        BY <1>2, <2>2, FileFields, NamesTyped
      <3> QED
        BY <2>1, <3>3, <3>4
    <2> QED
      BY <2>1, <2>3
  <1>7. ASSUME NEW n \in Names, NEW dest \in Destinations \cup {Elsewhere}, Export(n, dest)
        PROVE  FALSE
    BY <1>1, <1>2, <1>3, <1>4, <1>7, ExportFiles, ExportedOver
  <1>8. ~\E rows : CreateContainer(rows)
    BY <1>4 DEF CreateContainer
  <1>9. ~\E what, row : Ask(what, row)
    BY <1>4 DEF Ask
  <1>10. ~\E t : SwitchTab(t)
    BY <1>4 DEF SwitchTab
  <1>11. ~(RefreshUsb \/ Mount \/ OnMountStarted \/ Cancel \/ UNCHANGED vars)
    BY <1>4 DEF RefreshUsb, Mount, OnMountStarted, Cancel, vars
  <1> QED
    BY <1>5, <1>6, <1>7, <1>8, <1>9, <1>10, <1>11 DEF Next

-----------------------------------------------------------------------------
(* The theorems.                                                             *)

LEMMA KeyInvStart == Init => KeyInv /\ Acted
  <1> SUFFICES ASSUME Init PROVE KeyInv /\ Acted
    OBVIOUS
  <1> USE DEF Init
  <1>1. DOMAIN store = Names /\ \A n \in Names : store[n] = None
    OBVIOUS
  <1>2. Idle /\ AskedElsewhere /\ QuestionTrue
    BY DEF Idle, AskedElsewhere, QuestionTrue
  <1>3. RowsAreKeys /\ RowsTrue /\ Acted
    BY DEF RowsAreKeys, RowsTrue, Acted, ActsOnWhatIsShown
  <1>4. {m_keys, listKeys, listCreateKeys} \subseteq Seq(Entry)
    OBVIOUS
  <1>5. last \in [shown : SUBSET Keys, done : SUBSET Keys, excused : BOOLEAN]
    OBVIOUS
  <1>6. tab \in {"vaults", "create", "keys"} /\ mounting \in BOOLEAN
    OBVIOUS
  <1> HIDE DEF Init
  <1>7. TypeOK
    BY <1>1, <1>2, <1>4, <1>5, <1>6 DEF TypeOK
  <1> QED
    BY <1>2, <1>3, <1>7 DEF KeyInv

LEMMA KeyInvStep ==
    ASSUME KeyInv, Acted, [Next]_vars
    PROVE  KeyInv' /\ Acted'
  <1>1. TypeOK /\ AskedElsewhere /\ RowsAreKeys /\ RowsTrue /\ StoreTyped
    BY DEF KeyInv, TypeOK, StoreTyped
  <1>2. AskedElsewhere' /\ RowsAreKeys'
    BY <1>1, AskedStep, RowsStep
  <1>3. FilesMove
    BY <1>1, FilesStep
  <1>4. {m_keys, listKeys, listCreateKeys}' \subseteq Seq(Entry) /\ RowsTrue'
    BY <1>1, <1>3, RowsKept
  <1>5. QuestionTyped' /\ QuestionTrue'
    BY QuestionKept
  <1>6. tab' \in {"vaults", "create", "keys"} /\ mounting' \in BOOLEAN
    BY <1>1, TabStep
  <1>7. LastTyped' /\ Acted'
    BY DoneStep
  <1>8. TypeOK'
    BY <1>3, <1>4, <1>5, <1>6, <1>7 DEF TypeOK, FilesMove, StoreTyped, QuestionTyped, LastTyped
  <1> QED
    BY <1>2, <1>4, <1>5, <1>7, <1>8 DEF KeyInv

LEMMA KeysAlways == Spec => [](KeyInv /\ Acted)
  <1>1. KeyInv /\ Acted /\ [Next]_vars => (KeyInv /\ Acted)'
    BY KeyInvStep
  <1> QED
    BY <1>1, KeyInvStart, PTL DEF Spec

(* Whatever files a user brings, removes or has removed, the key directory   *)
(* holds under each name a file that belongs there, and what the window has  *)
(* in m_keys and in its lists are entries of files that decoded.             *)
THEOREM TypeCorrect == Spec => []TypeOK
  <1>1. KeyInv => TypeOK
    BY DEF KeyInv
  <1> QED
    BY <1>1, KeysAlways, PTL

(* Whatever the key directory holds and whenever mounts are reported, the    *)
(* rows on view and m_keys agree: m_keys is loaded for a list that is not on *)
(* view only together with a change of the tab.                              *)
THEOREM RowsStayKeys == Spec => []RowsAreKeys
  <1>1. KeyInv => RowsAreKeys
    BY DEF KeyInv
  <1> QED
    BY <1>1, KeysAlways, PTL

(* Where exports stay out of the key directory, what deleteKeypair,          *)
(* exportPublicKey and createContainer do, they do to the keys of the rows   *)
(* the user picked, unless m_keys was replaced under an open question.       *)
THEOREM RowsActedOn == Destinations = {} => (Spec => []ActsOnWhatIsShown)
  <1> SUFFICES ASSUME Destinations = {} PROVE Spec => []ActsOnWhatIsShown
    OBVIOUS
  <1>1. Acted => ActsOnWhatIsShown
    BY DEF Acted
  <1> QED
    BY <1>1, KeysAlways, PTL

(* No generation, no export, wherever it goes, and no deletion of another    *)
(* key takes a private key out of the directory.                             *)
THEOREM PrivateKeysStay == Spec => KeysStay
  <1> DEFINE Left(k) ==
        HasPrivate(k) /\ ~HasPrivate(k)' =>
          \/ dialog.asks = "delete" /\ (dialog.entry.key = k \/ dialog.stale)
          \/ \E n \in Names : \/ RemovedOutside(n)
                             \/ \E file \in FilesNamed(n) : Import(n, file) \/ DropFile(n, file)
  <1>1. KeyInv /\ [Next]_vars => [\A k \in Keys : Left(k)]_vars
    BY KeyLeaves
  <1> QED
    BY <1>1, KeysAlways, PTL DEF Spec, KeysStay

=============================================================================
