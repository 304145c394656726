------------------------------- MODULE KeyStore -------------------------------
(***************************************************************************)
(* The key files of ~/.config/venom/keys and the window that manages them. *)
(* Three lists of the window show keys, but one member, m_keys, holds what *)
(* the rows stand for, and each list's refresh loads it again. The user    *)
(* picks rows; a deletion and an export ask a question first, in an event  *)
(* loop of its own that goes on delivering VenomCore's signals.            *)
(***************************************************************************)
EXTENDS Naturals, Sequences, FiniteSets, SequencesExt

CONSTANTS Keys,          \* keypairs: numbers, the later created the larger
          OtherNames,    \* names of .key files that are no fingerprints
          PublicNames,   \* names of .pub files
          Destinations   \* names in the key directory that exports may go to

ASSUME KeysAssumption == Keys \subseteq Nat \ {0}
ASSUME NamesAssumption ==
    /\ OtherNames \subseteq Nat \ (Keys \cup {0})
    /\ PublicNames \subseteq Nat \ (Keys \cup OtherNames \cup {0})
    /\ IsFiniteSet(Keys \cup OtherNames \cup PublicNames)
    /\ Destinations \subseteq PublicNames

VARIABLES
    store,           \* the key directory: a file or None, by name
    m_keys,          \* what the rows of the list on view stand for
    listKeys,        \* the rows of the key manager's list
    listCreateKeys,  \* the rows of the create tab's list of recipients
    tab,             \* the tab on view
    mounting,        \* a mount was asked for and not yet reported
    dialog,          \* the open question, or None
    last             \* what a step did to rows: the keys shown, the keys acted on

vars == <<store, m_keys, listKeys, listCreateKeys, tab, mounting, dialog, last>>

None == [key |-> 0, pubOnly |-> FALSE]

(* What a name can hold: nothing, a .key or .pub file, or a file that does *)
(* not decode because a write stopped in its middle.                       *)
Unreadable == [key |-> 0, pubOnly |-> TRUE]
PrivateFile(k) == [key |-> k, pubOnly |-> FALSE]
PublicFile(k) == [key |-> k, pubOnly |-> TRUE]

(* A mutant: keypairs of one label share a file.                           *)
NameOfLabel(k) == CHOOSE j \in Keys : TRUE

(* write_key_file's names: the fingerprint of the keypair.                 *)
NameOf(k) == k

Names == {NameOf(k) : k \in Keys} \cup OtherNames \cup PublicNames

(* Files a user may have under a name: a backup of a generated one, a .key *)
(* file under a name of his own, or anybody's .pub file.                   *)
FilesNamed(n) ==
    {PrivateFile(k) : k \in {j \in Keys : n = NameOf(j) \/ n \in OtherNames}}
        \cup {PublicFile(k) : k \in {j \in Keys : n \in PublicNames}}

(* A row's KeyEntry, as far as the window uses it.                         *)
Entry == [name : Names, key : Keys]

(* A mutant: a file is listed although it does not decode.                 *)
LocalKeysAll ==
    SetToSeq({[name |-> n, key |-> store[n].key] : n \in {n \in Names : store[n] # None}})

(* vnm_keylist_load: the files that decode, the latest created first.      *)
Later(a, b) == a.key > b.key \/ (a.key = b.key /\ a.name < b.name)

Sorted(entries) ==
    CHOOSE rows \in SetToSeqs(entries) :
        \A i, j \in DOMAIN rows : i < j => Later(rows[i], rows[j])

LocalKeys ==
    Sorted({[name |-> n, key |-> store[n].key] : n \in {n \in Names : store[n].key # 0}})

Init ==
    /\ store = [n \in Names |-> None]
    /\ m_keys = <<>>
    /\ listKeys = <<>>
    /\ listCreateKeys = <<>>
    /\ tab = "vaults"
    /\ mounting = FALSE
    /\ dialog = [asks |-> "nothing"]
    /\ last = [shown |-> {}, done |-> {}, excused |-> FALSE]

Idle == dialog.asks = "nothing"

Did(shown, done, excused) == last' = [shown |-> shown, done |-> done, excused |-> excused]

DidNothing == Did({}, {}, FALSE)

-----------------------------------------------------------------------------
(* The lists, in terms of what the key directory holds after the step.     *)

RefreshKeyList ==
    /\ m_keys' = LocalKeys'
    /\ listKeys' = m_keys'
    /\ UNCHANGED listCreateKeys

(* A mutant: rows drawn once are kept.                                     *)
RefreshCreateKeyListOnce ==
    /\ m_keys' = LocalKeys'
    /\ listCreateKeys' = IF listCreateKeys = <<>> THEN m_keys' ELSE listCreateKeys
    /\ UNCHANGED listKeys

RefreshCreateKeyList ==
    /\ m_keys' = LocalKeys'
    /\ listCreateKeys' = m_keys'
    /\ UNCHANGED listKeys

(* The rows of the mount list carry the path of their own file.            *)
RefreshMountKeyList ==
    /\ m_keys' = LocalKeys'
    /\ UNCHANGED <<listKeys, listCreateKeys>>

ListsUnchanged == UNCHANGED <<m_keys, listKeys, listCreateKeys>>

TabShown(t) ==
    /\ tab' = t
    /\ \/ t = "vaults" /\ RefreshMountKeyList
       \/ t = "create" /\ RefreshCreateKeyList
       \/ t = "keys" /\ RefreshKeyList

SwitchTab(t) ==
    /\ Idle /\ tab # t
    /\ UNCHANGED <<store, mounting, dialog>>
    /\ DidNothing
    /\ TabShown(t)

RefreshUsb ==
    /\ Idle /\ tab = "vaults"
    /\ UNCHANGED <<store, tab, mounting, dialog>>
    /\ DidNothing
    /\ RefreshMountKeyList

-----------------------------------------------------------------------------
(* A mount, reported by its thread at any later time.                      *)

Mount ==
    /\ Idle /\ tab = "vaults"
    /\ mounting' = TRUE
    /\ UNCHANGED <<store, m_keys, listKeys, listCreateKeys, tab, dialog>>
    /\ DidNothing

(* A mutant: the list is loaded and the tab on view stays.                 *)
OnMountStartedHere ==
    /\ mounting
    /\ mounting' = FALSE
    /\ UNCHANGED <<store, tab, dialog>>
    /\ DidNothing
    /\ RefreshMountKeyList

(* The handler goes to the first tab, whose list is drawn if it was not on *)
(* view; an open question keeps a reference into the m_keys this replaces. *)
OnMountStarted ==
    /\ mounting
    /\ mounting' = FALSE
    /\ UNCHANGED store
    /\ DidNothing
    /\ IF tab = "vaults"
         THEN ListsUnchanged /\ UNCHANGED <<tab, dialog>>
         ELSE /\ TabShown("vaults")
              /\ dialog' = IF Idle THEN dialog ELSE [dialog EXCEPT !.stale = TRUE]

-----------------------------------------------------------------------------
(* Operations of the key manager that ask nothing.                         *)

Managing == Idle /\ tab = "keys"

(* A new keypair is written to the store or to a drive; a write that fails *)
(* may leave a part of the file, and no list is drawn.                     *)
Generate(k) ==
    /\ Managing
    /\ \A n \in Names : store[n].key # k
    /\ \/ /\ store' \in {store, [store EXCEPT ![NameOf(k)] = PrivateFile(k)]}
          /\ RefreshKeyList
       \/ /\ store' \in {store, [store EXCEPT ![NameOf(k)] = Unreadable]}
          /\ ListsUnchanged
    /\ UNCHANGED <<tab, mounting, dialog>>
    /\ DidNothing

(* A file is copied over the one of its name, which is removed first; when *)
(* the copy fails the old file is gone and no list is drawn.               *)
Import(n, file) ==
    /\ Managing
    /\ file \in FilesNamed(n)
    /\ \/ /\ store' = [store EXCEPT ![n] = file]
          /\ RefreshKeyList
       \/ /\ store' = [store EXCEPT ![n] = None]
          /\ ListsUnchanged
    /\ UNCHANGED <<tab, mounting, dialog>>
    /\ DidNothing

(* The same by drag and drop: a copy that fails goes unnoticed.            *)
DropFile(n, file) ==
    /\ Managing
    /\ file \in FilesNamed(n)
    /\ store' \in {[store EXCEPT ![n] = new] : new \in {file, None}}
    /\ RefreshKeyList
    /\ UNCHANGED <<tab, mounting, dialog>>
    /\ DidNothing

(* Somebody removes a file of the directory.                               *)
RemovedOutside(n) ==
    /\ store[n] # None
    /\ store' = [store EXCEPT ![n] = None]
    /\ UNCHANGED <<m_keys, listKeys, listCreateKeys, tab, mounting, dialog>>
    /\ DidNothing

-----------------------------------------------------------------------------
(* Operations on rows.                                                     *)

(* The keys picked on the create tab become recipients of the container,   *)
(* read from the files m_keys names; if one cannot be read the container   *)
(* is removed again.                                                       *)
CreateContainer(rows) ==
    /\ Idle /\ tab = "create"
    /\ rows # {} /\ rows \subseteq DOMAIN listCreateKeys
    /\ LET picked == {m_keys[row].name : row \in rows \cap DOMAIN m_keys}
       IN  /\ \A n \in picked : store[n].key # 0
           /\ Did({listCreateKeys[row].key : row \in rows},
                  {store[n].key : n \in picked}, FALSE)
    /\ UNCHANGED <<store, m_keys, listKeys, listCreateKeys, tab, mounting, dialog>>

(* A mutant: the first row is taken for a heading, as in the mount list.   *)
AskBelowHeading(what, row) ==
    /\ Managing
    /\ row \in DOMAIN listKeys /\ row - 1 \in DOMAIN m_keys
    /\ dialog' = [asks |-> what, entry |-> m_keys[row - 1], shown |-> listKeys[row].key,
                  stale |-> FALSE]
    /\ UNCHANGED <<store, m_keys, listKeys, listCreateKeys, tab, mounting>>
    /\ DidNothing

(* The question is about m_keys[row]; `row` is what the user sees.         *)
Ask(what, row) ==
    /\ Managing
    /\ row \in DOMAIN listKeys /\ row <= Len(m_keys)
    /\ dialog' = [asks |-> what, entry |-> m_keys[row], shown |-> listKeys[row].key,
                  stale |-> FALSE]
    /\ UNCHANGED <<store, m_keys, listKeys, listCreateKeys, tab, mounting>>
    /\ DidNothing

Cancel ==
    /\ ~Idle
    /\ dialog' = [asks |-> "nothing"]
    /\ UNCHANGED <<store, m_keys, listKeys, listCreateKeys, tab, mounting>>
    /\ DidNothing

(* The name read through the reference the question was asked with: if the *)
(* list was replaced meanwhile the memory holds what it held or another    *)
(* entry.                                                                  *)
NamesRead == IF dialog.stale THEN Names ELSE {dialog.entry.name}

(* Yes: the file is removed, and the list drawn.                           *)
Delete(n) ==
    /\ dialog.asks = "delete"
    /\ n \in NamesRead
    /\ store' = [store EXCEPT ![n] = None]
    /\ dialog' = [asks |-> "nothing"]
    /\ RefreshKeyList
    /\ Did({dialog.shown}, {k \in Keys : store[n] \in {PrivateFile(k), PublicFile(k)}},
           dialog.stale)
    /\ UNCHANGED <<tab, mounting>>

(* Save: the public part goes to a .pub file anywhere or, when `dest` is   *)
(* one of Names, in the key directory; a file of that name is removed      *)
(* before a .pub file is copied over it, and what fails after that may     *)
(* leave nothing or a part there. No list is drawn.                        *)
Elsewhere == 0

With(dest, file) == [n \in Names |-> IF n = dest THEN file ELSE store[n]]

Export(n, dest) ==
    /\ dialog.asks = "export"
    /\ n \in NamesRead
    /\ dialog' = [asks |-> "nothing"]
    /\ \/ /\ store[n].key # 0 /\ n # dest
          /\ store' = With(dest, PublicFile(store[n].key))
          /\ Did({dialog.shown}, {store[n].key}, dialog.stale)
       \/ /\ IF n \in PublicNames
               THEN store' = With(dest, None)
               ELSE \/ UNCHANGED store
                    \/ store[n].key # 0 /\ store' = With(dest, Unreadable)
          /\ DidNothing
    /\ ListsUnchanged
    /\ UNCHANGED <<tab, mounting>>

-----------------------------------------------------------------------------
Next ==
    \/ \E t \in {"vaults", "create", "keys"} : SwitchTab(t)
    \/ RefreshUsb \/ Mount \/ OnMountStarted
    \/ \E k \in Keys : Generate(k)
    \/ \E n \in Names : \E file \in FilesNamed(n) : Import(n, file) \/ DropFile(n, file)
    \/ \E n \in Names : RemovedOutside(n)
    \/ \E rows \in SUBSET (DOMAIN listCreateKeys) : CreateContainer(rows)
    \/ \E what \in {"delete", "export"}, row \in DOMAIN listKeys : Ask(what, row)
    \/ Cancel
    \/ \E n \in Names : Delete(n)
    \/ \E n \in Names, dest \in Destinations \cup {Elsewhere} : Export(n, dest)

Spec == Init /\ [][Next]_vars

-----------------------------------------------------------------------------
(* The variables have the values the code gives them; a row names a file   *)
(* that decoded, so its key is a keypair's.                                *)
TypeOK ==
    /\ DOMAIN store = Names
    /\ \A n \in Names : store[n] \in FilesNamed(n) \cup {None, Unreadable}
    /\ {m_keys, listKeys, listCreateKeys} \subseteq Seq(Entry)
    /\ tab \in {"vaults", "create", "keys"}
    /\ mounting \in BOOLEAN
    /\ Idle \/ dialog \in [asks : {"delete", "export"}, entry : Entry, shown : Keys,
                           stale : BOOLEAN]
    /\ last \in [shown : SUBSET Keys, done : SUBSET Keys, excused : BOOLEAN]

(* The list on view and m_keys agree row by row, although the other lists' *)
(* refreshes, and handlers of signals, load m_keys too.                    *)
RowsAreKeys ==
    /\ tab = "keys" => listKeys = m_keys
    /\ tab = "create" => listCreateKeys = m_keys

(* What was removed, exported or made a recipient is what the rows showed  *)
(* that the user picked, unless m_keys was replaced under an open question.*)
ActsOnWhatIsShown == last.done \subseteq last.shown \/ last.excused

HasPrivate(k) == \E n \in Names : store[n] = PrivateFile(k)

(* A private key leaves the directory only when its deletion was asked     *)
(* for and answered, when a file of the same name is imported, or by the   *)
(* hand of somebody else: never by a generation or an export, nor by the   *)
(* deletion of another key.                                                *)
KeysStay ==
    [][\A k \in Keys : HasPrivate(k) /\ ~HasPrivate(k)' =>
          \/ dialog.asks = "delete" /\ (dialog.entry.key = k \/ dialog.stale)
          \/ \E n \in Names : \/ RemovedOutside(n)
                             \/ \E file \in FilesNamed(n) : Import(n, file) \/ DropFile(n, file)]_vars

(* MainWindow asks "Delete keypair <label>? This cannot be undone." of the *)
(* file it then removes. The reference it removes it by outlives the list. *)
DeletesWhatItNamed == last.done \subseteq last.shown

=============================================================================
