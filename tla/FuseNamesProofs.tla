--------------------------- MODULE FuseNamesProofs ---------------------------
(***************************************************************************)
(* Theorems about FuseNames.                                               *)
(***************************************************************************)
EXTENDS FuseNames, FiniteSetTheorems, TLAPS

(* A set of naturals that is not empty has a least member: of the intervals  *)
(* that end in a member, one has no other below it.                          *)
LEMMA LeastExists ==
    ASSUME NEW S \in SUBSET Nat, S # {}
    PROVE  Min(S) \in S /\ \A y \in S : Min(S) <= y
  <1> DEFINE T == {0..x : x \in S}
  <1>1. T \subseteq FiniteSubsetsOf(Nat)
    <2> SUFFICES ASSUME NEW x \in S PROVE 0..x \in FiniteSubsetsOf(Nat)
      OBVIOUS
    <2>1. IsFiniteSet(0..x) /\ 0..x \subseteq Nat
      BY FS_Interval
    <2> QED
      BY <2>1 DEF FiniteSubsetsOf
  <1>2. T # {}
    OBVIOUS
  <1>3. IsWellFoundedOn(StrictSubsetOrdering(Nat), FiniteSubsetsOf(Nat))
    BY FS_StrictSubsetOrderingWellFounded
  <1>4. PICK t \in T : \A u \in T : ~(<<u, t>> \in StrictSubsetOrdering(Nat))
    <2> HIDE DEF T
    <2> QED
      BY <1>1, <1>2, <1>3, WFMin
  <1>5. PICK x \in S : t = 0..x
    OBVIOUS
  <1>6. \A y \in S : x <= y
    <2> SUFFICES ASSUME NEW y \in S, y < x PROVE FALSE
      OBVIOUS
    <2>1. 0..y \in T /\ 0..y \subseteq 0..x /\ x \in 0..x /\ x \notin 0..y
      OBVIOUS
    <2>2. <<0..y, 0..x>> \in StrictSubsetOrdering(Nat)
      BY <2>1 DEF StrictSubsetOrdering
    <2> QED
      BY <1>4, <1>5, <2>1, <2>2
  <1> QED
    BY <1>6 DEF Min

-----------------------------------------------------------------------------
(* The invariant.                                                            *)

(* Directory d names s by n. *)
Leads(d, n, s) ==
    /\ d \in Slots /\ IsDirectory(d)
    /\ n \in DOMAIN Listing(d) /\ Listing(d)[n] = s

(* Nothing is said of a slot that a failed rename freed under its name.  An   *)
(* entry leads to a file or a directory, never back to the root, and no      *)
(* other entry leads there.                                                  *)
EntriesApart ==
    /\ IsDirectory(Root) /\ Root \notin dangling
    /\ \A d, s \in Slots, n \in Names :
          Leads(d, n, s) => s # Root /\ (s \in dangling \/ IsFile(s) \/ IsDirectory(s))
    /\ \A d, e, s \in Slots, n, m \in Names :
          Leads(d, n, s) /\ Leads(e, m, s) /\ s \notin dangling => d = e /\ n = m

(* The slots of a file hold its data and are of no other file. *)
DataApart ==
    \A f \in Files : \A s \in nodes[f].slots \ dangling :
        /\ nodes[s] = FileDataBlock
        /\ \A g \in Files \ {f} : s \notin nodes[g].slots

(* A handle is of a file that no other handle is of, and the slots it has    *)
(* written through are nobody else's.                                        *)
HandlesApart ==
    \A h \in DOMAIN files :
        /\ files[h].head \notin dangling =>
              /\ IsFile(files[h].head)
              /\ \A k \in DOMAIN files \ {h} : files[k].head # files[h].head
        /\ \A s \in files[h].slots \ dangling :
              /\ nodes[s] = FileDataBlock
              /\ \A g \in Files \ {files[h].head} : s \notin nodes[g].slots
              /\ \A k \in DOMAIN files \ {h} : s \notin files[k].slots

SlotsInv ==
    /\ TypeOK /\ FreeIsNoise /\ EntriesApart /\ DataApart /\ HandlesApart
    /\ dangling # {} => lost

(* What holds until a rename has lost something. *)
KnownInv == HandlesOnFiles /\ InodesNamed

(* "over open" lets a handle outlive its file. *)
NoneOverOpen == "over open" \notin Requests

-----------------------------------------------------------------------------
(* What requests do to the nodes.                                            *)

LEMMA Kinds ==
    ASSUME NEW S, NEW x
    PROVE  /\ Noise.kind = "noise" /\ FileDataBlock.kind = "data"
           /\ Directory(x).kind = "directory" /\ Directory(x).entries = x
           /\ FileBlock(S).kind = "file" /\ FileBlock(S).slots = S
  BY DEF Noise, FileDataBlock, Directory, FileBlock

LEMMA NodeShape ==
    ASSUME TypeOK, NEW s \in Slots
    PROVE  /\ IsDirectory(s) => /\ nodes[s] = Directory(Listing(s))
                                /\ DOMAIN Listing(s) \subseteq Names
                                /\ \A n \in DOMAIN Listing(s) : Listing(s)[n] \in Slots
           /\ IsFile(s) => nodes[s] = FileBlock(nodes[s].slots) /\ nodes[s].slots \subseteq Slots
  <1>1. IsNode(nodes[s])
    BY DEF TypeOK
  <1> QED
    BY <1>1, Kinds DEF IsNode, IsDirectory, IsFile, Listing, Range

LEMMA LeadsTyped ==
    ASSUME TypeOK, NEW d, NEW n, NEW s, Leads(d, n, s)
    PROVE  n \in Names /\ s \in Slots
  BY NodeShape DEF Leads

LEMMA HandleTyped ==
    ASSUME TypeOK, NEW h \in DOMAIN files
    PROVE  files[h].head \in Slots /\ files[h].slots \subseteq Slots
  BY DEF TypeOK, OpenFile

(* Taking out an entry. *)
LEMMA WithoutIs ==
    ASSUME NEW f, NEW x
    PROVE  /\ DOMAIN Tree!Without(f, x) = DOMAIN f \ {x}
           /\ \A z \in DOMAIN f \ {x} : Tree!Without(f, x)[z] = f[z]
  BY DEF Tree!Without, Restrict, Tree!Restrict

LEMMA EntriesSet ==
    ASSUME TypeOK, NEW d \in Slots, IsDirectory(d), NEW x
    PROVE  /\ DOMAIN [nodes EXCEPT ![d].entries = x] = Slots
           /\ [nodes EXCEPT ![d].entries = x][d] = Directory(x)
           /\ \A s \in Slots \ {d} : [nodes EXCEPT ![d].entries = x][s] = nodes[s]
  <1>1. DOMAIN nodes = Slots
    BY DEF TypeOK
  <1>2. nodes[d] = Directory(Listing(d))
    BY NodeShape
  <1>3. [nodes[d] EXCEPT !.entries = x] = Directory(x)
    BY <1>2 DEF Directory
  <1> QED
    BY <1>1, <1>3

LEMMA NextFreeIs ==
    ASSUME TypeOK, FreeIsNoise, HasSpace
    PROVE  /\ NextFree \in Slots /\ free[NextFree] \in Nat \ {0}
           /\ NextFree \notin dangling => /\ free[NextFree] = 1 /\ nodes[NextFree] = Noise
                                         /\ ~IsFile(NextFree) /\ ~IsDirectory(NextFree)
  <1> DEFINE F == {s \in Slots : free[s] > 0}
  <1>1. F \in SUBSET Nat /\ F # {}
    BY SlotsAssumption DEF HasSpace
  <1>2. NextFree \in F
    BY <1>1, LeastExists DEF NextFree
  <1>3. free[NextFree] \in Nat /\ (NextFree \notin dangling => free[NextFree] <= 1)
    BY <1>2 DEF TypeOK
  <1> QED
    BY <1>2, <1>3, Kinds DEF FreeIsNoise, IsFile, IsDirectory

(* What mkdir and create put into a slot. *)
NewNodes == {Directory(<<>>), FileBlock({})}

(* The slot may be d's own, if a failed rename freed d under its name. *)
LEMMA AddedEffect ==
    ASSUME SlotsInv, NEW d \in Slots, IsDirectory(d), NEW name, NEW node \in NewNodes,
           Added(d, name, node), NEW new, new = NextFree
    PROVE  /\ HasSpace /\ name \notin DOMAIN Listing(d) /\ new \in Slots
           /\ DOMAIN nodes' = Slots
           /\ new # d => /\ nodes'[new] = node
                         /\ nodes'[d] = Directory(Tree!With(Listing(d), name, new))
           /\ new = d => /\ node = Directory(<<>>) /\ d \in dangling
                         /\ nodes'[d] = Directory(Tree!With(<<>>, name, new))
           /\ \A s \in Slots \ {d, new} : nodes'[s] = nodes[s]
           /\ free' = [free EXCEPT ![new] = free[new] - 1]
  <1>1. HasSpace /\ name \notin DOMAIN Listing(d)
    BY DEF Added
  <1>2. new \in Slots /\ (new = d => d \in dangling)
    BY <1>1, NextFreeIs DEF SlotsInv
  <1>3. nodes[d] = Directory(Listing(d)) /\ DOMAIN nodes = Slots
    BY NodeShape DEF SlotsInv, TypeOK
  <1>4. PICK made : /\ made = [nodes EXCEPT ![new] = node]
                    /\ nodes' = [made EXCEPT ![d].entries = Tree!With(@, name, new)]
    BY DEF Added, NodeWritten
  <1>5. free' = [free EXCEPT ![new] = free[new] - 1]
    BY DEF Added, Taken
  <1>6. DOMAIN made = Slots /\ made[new] = node /\ \A s \in Slots \ {new} : made[s] = nodes[s]
    BY <1>2, <1>3, <1>4
  <1>7. /\ DOMAIN nodes' = Slots /\ \A s \in Slots \ {d} : nodes'[s] = made[s]
        /\ nodes'[d] = [made[d] EXCEPT !.entries = Tree!With(@, name, new)]
    BY <1>4, <1>6
  <1>8. CASE new # d
    <2>1. nodes'[d] = Directory(Tree!With(Listing(d), name, new))
      BY <1>3, <1>6, <1>7, <1>8 DEF Directory
    <2> QED
      BY <1>1, <1>2, <1>5, <1>6, <1>7, <1>8, <2>1
  <1>9. CASE new = d
    <2>1. node = Directory(<<>>)
      BY <1>9, Kinds DEF Added, NewNodes
    <2>2. nodes'[d] = Directory(Tree!With(<<>>, name, new))
      BY <1>6, <1>7, <1>9, <2>1 DEF Directory
    <2> QED
      BY <1>1, <1>2, <1>5, <1>6, <1>7, <1>9, <2>1, <2>2
  <1> QED
    BY <1>8, <1>9

LEMMA CutEffect ==
    ASSUME TypeOK, NEW d \in Slots, IsDirectory(d), NEW name, NEW R,
           nodes' = Wiped(SourceWritten(d, name), R)
    PROVE  /\ DOMAIN nodes' = Slots
           /\ \A s \in Slots : s \in R => nodes'[s] = Noise
           /\ d \notin R => nodes'[d] = Directory(Tree!Without(Listing(d), name))
           /\ \A s \in Slots \ {d} : s \notin R => nodes'[s] = nodes[s]
  <1> DEFINE cut == Tree!Without(Listing(d), name)
  <1>1. SourceWritten(d, name) = [nodes EXCEPT ![d].entries = cut]
    BY DEF SourceWritten, Listing
  <1> HIDE DEF cut
  <1>2. /\ [nodes EXCEPT ![d].entries = cut][d] = Directory(cut)
        /\ \A s \in Slots \ {d} : [nodes EXCEPT ![d].entries = cut][s] = nodes[s]
    BY EntriesSet
  <1>3. \A s \in Slots : nodes'[s] = IF s \in R THEN Noise ELSE SourceWritten(d, name)[s]
    BY DEF Wiped
  <1>4. DOMAIN nodes' = Slots
    BY DEF Wiped
  <1> USE DEF cut
  <1> QED
    BY <1>1, <1>2, <1>3, <1>4

LEMMA NothingWiped ==
    ASSUME TypeOK, NEW d \in Slots, IsDirectory(d), NEW name
    PROVE  SourceWritten(d, name) = Wiped(SourceWritten(d, name), {})
  <1>1. DOMAIN nodes = Slots
    BY DEF TypeOK
  <1> QED
    BY <1>1 DEF SourceWritten, Wiped

(* The nodes that rename writes, before the replaced one goes. *)
Moved(d, name, e, newname, id) ==
    [SourceWritten(d, name) EXCEPT ![e].entries = Tree!With(@, newname, id)]

LEMMA MovedEffect ==
    ASSUME TypeOK, NEW d \in Slots, IsDirectory(d), NEW e \in Slots, IsDirectory(e),
           NEW name, NEW newname, NEW id, NEW R,
           nodes' = Wiped(Moved(d, name, e, newname, id), R)
    PROVE  /\ DOMAIN nodes' = Slots
           /\ \A s \in Slots : s \in R => nodes'[s] = Noise
           /\ \A s \in Slots \ {d, e} : s \notin R => nodes'[s] = nodes[s]
           /\ d # e /\ d \notin R => nodes'[d] = Directory(Tree!Without(Listing(d), name))
           /\ d # e /\ e \notin R => nodes'[e] = Directory(Tree!With(Listing(e), newname, id))
           /\ d = e /\ e \notin R =>
                 nodes'[e] = Directory(Tree!With(Tree!Without(Listing(d), name), newname, id))
  <1> DEFINE cut == Tree!Without(Listing(d), name)
             left == SourceWritten(d, name)
             put == Tree!With(left[e].entries, newname, id)
             all == [left EXCEPT ![e].entries = put]
  <1>1. left = [nodes EXCEPT ![d].entries = cut]
    BY DEF SourceWritten, Listing
  <1>2. DOMAIN left = Slots /\ left[d] = Directory(cut) /\ \A s \in Slots \ {d} : left[s] = nodes[s]
    <2> HIDE DEF cut, left
    <2> QED BY <1>1, EntriesSet
  <1>3. left[e] = Directory(IF d = e THEN cut ELSE Listing(e))
    <2>1. nodes[e] = Directory(Listing(e))
      BY NodeShape
    <2> HIDE DEF cut, left
    <2> QED BY <1>2, <2>1
  <1>4. left[e].entries = IF d = e THEN cut ELSE Listing(e)
    <2> HIDE DEF cut, left
    <2> QED BY <1>3, Kinds
  <1>5. [left[e] EXCEPT !.entries = put] = Directory(put)
    <2> HIDE DEF cut, left, put
    <2> QED BY <1>3 DEF Directory
  <1>6. all[e] = Directory(put) /\ \A s \in Slots \ {e} : all[s] = left[s]
    <2> HIDE DEF cut, left, put
    <2> QED BY <1>2, <1>5
  <1>7. nodes' = Wiped(all, R)
    BY DEF Moved
  <1>8. DOMAIN nodes' = Slots /\ \A s \in Slots : nodes'[s] = IF s \in R THEN Noise ELSE all[s]
    <2> HIDE DEF all
    <2> QED BY <1>7 DEF Wiped
  <1>9. put = Tree!With(IF d = e THEN cut ELSE Listing(e), newname, id)
    <2>1. put = Tree!With(left[e].entries, newname, id)
      OBVIOUS
    <2> HIDE DEF put, left, cut
    <2> QED BY <1>4, <2>1
  <1>10. cut = Tree!Without(Listing(d), name)
    OBVIOUS
  <1> HIDE DEF all, put, left, cut
  <1> QED
    BY <1>2, <1>6, <1>8, <1>9, <1>10

LEMMA FlushedEffect ==
    ASSUME TypeOK, HandlesApart, NEW hs \in SUBSET DOMAIN files
    PROVE  /\ DOMAIN Flushed(hs) = Slots
           /\ \A s \in Slots \ dangling : ~IsFile(s) => Flushed(hs)[s] = nodes[s]
           /\ \A s \in Slots : Flushed(hs)[s] = nodes[s]
                \/ \E h \in hs : files[h].head = s /\ Flushed(hs)[s] = FileBlock(files[h].slots)
  <1>1. DOMAIN Flushed(hs) = Slots
    BY DEF Flushed
  <1>2. ASSUME NEW s \in Slots, Flushed(hs)[s] # nodes[s]
        PROVE  \E h \in hs : files[h].head = s /\ Flushed(hs)[s] = FileBlock(files[h].slots)
    <2> DEFINE writers == {h \in hs : files[h].head = s /\ files[h].dirty}
    <2>1. Flushed(hs)[s] = IF writers = {} THEN nodes[s]
                           ELSE FileBlock(files[CHOOSE h \in writers : TRUE].slots)
      BY DEF Flushed
    <2>2. writers # {}
      BY <1>2, <2>1
    <2>3. (CHOOSE h \in writers : TRUE) \in writers
      BY <2>2
    <2> QED
      BY <2>1, <2>2, <2>3
  <1>3. \A h \in hs : files[h].head \notin dangling => IsFile(files[h].head)
    BY DEF HandlesApart
  <1> QED
    BY <1>1, <1>2, <1>3

-----------------------------------------------------------------------------
(* What requests do to the entries.                                          *)

(* The nodes of what the tree is made of stay as they are. *)
TreeKept ==
    \A s \in Slots :
        /\ IsDirectory(s)' <=> IsDirectory(s)
        /\ IsDirectory(s) => nodes'[s] = nodes[s]
        /\ IsFile(s)' <=> IsFile(s)

LEMMA LeadsKept ==
    ASSUME TreeKept, NEW x, NEW m, NEW s
    PROVE  Leads(x, m, s)' <=> Leads(x, m, s)
  BY DEF TreeKept, Leads, Listing

LEMMA LeadsAdded ==
    ASSUME SlotsInv, NEW d \in Slots, IsDirectory(d), NEW name, NEW node \in NewNodes,
           Added(d, name, node), NEW new, new = NextFree, NEW x, NEW m, NEW s
    PROVE  Leads(x, m, s)' <=> (Leads(x, m, s) /\ x # new) \/ (x = d /\ m = name /\ s = new)
  <1>1. /\ name \notin DOMAIN Listing(d) /\ new \in Slots
        /\ new # d => /\ nodes'[new] = node
                      /\ nodes'[d] = Directory(Tree!With(Listing(d), name, new))
        /\ new = d => nodes'[d] = Directory(Tree!With(<<>>, name, new))
        /\ \A t \in Slots \ {d, new} : nodes'[t] = nodes[t]
    BY AddedEffect
  <1>2. new # d => ~Leads(new, m, s)'
    <2> SUFFICES ASSUME new # d PROVE ~Leads(new, m, s)'
      OBVIOUS
    <2>1. node.kind = "directory" => node.entries = <<>>
      BY Kinds DEF NewNodes
    <2>2. ~IsDirectory(new)' \/ Listing(new)' = <<>>
      BY <1>1, <2>1 DEF IsDirectory, Listing
    <2> QED
      BY <2>2 DEF Leads
  <1>3. Leads(d, m, s)' <=> (Leads(d, m, s) /\ d # new) \/ (m = name /\ s = new)
    <2> DEFINE old == IF new = d THEN <<>> ELSE Listing(d)
    <2>1. IsDirectory(d)' /\ Listing(d)' = Tree!With(old, name, new)
      <3>1. nodes'[d] = Directory(Tree!With(old, name, new))
        BY <1>1
      <3> HIDE DEF old
      <3> QED
        BY <3>1, Kinds DEF IsDirectory, Listing
    <2>2. name \notin DOMAIN old /\ (m \in DOMAIN old /\ old[m] = s <=> Leads(d, m, s) /\ d # new)
      <3>1. DOMAIN <<>> = {}
        OBVIOUS
      <3> QED
        BY <1>1, <3>1 DEF Leads
    <2> HIDE DEF old
    <2>3. /\ DOMAIN Listing(d)' = DOMAIN old \union {name}
          /\ Listing(d)'[name] = new
          /\ \A z \in DOMAIN old \ {name} : Listing(d)'[z] = old[z]
      BY <2>1 DEF Tree!With
    <2> QED
      BY <2>1, <2>2, <2>3 DEF Leads
  <1>4. x \in Slots \ {d, new} => (Leads(x, m, s)' <=> Leads(x, m, s))
    BY <1>1 DEF Leads, IsDirectory, Listing
  <1>5. CASE x \notin Slots
    BY <1>1, <1>5 DEF Leads
  <1> QED
    BY <1>1, <1>2, <1>3, <1>4, <1>5

LEMMA LeadsCut ==
    ASSUME TypeOK, NEW d \in Slots, IsDirectory(d), NEW name, NEW R,
           nodes' = Wiped(SourceWritten(d, name), R), NEW x, NEW m, NEW s
    PROVE  Leads(x, m, s)' <=> x \notin R /\ Leads(x, m, s) /\ ~(x = d /\ m = name)
  <1>1. /\ \A t \in Slots : t \in R => nodes'[t] = Noise
        /\ d \notin R => nodes'[d] = Directory(Tree!Without(Listing(d), name))
        /\ \A t \in Slots \ {d} : t \notin R => nodes'[t] = nodes[t]
    BY CutEffect
  <1>2. d \notin R => (Leads(d, m, s)' <=> Leads(d, m, s) /\ m # name)
    <2> SUFFICES ASSUME d \notin R PROVE Leads(d, m, s)' <=> Leads(d, m, s) /\ m # name
      OBVIOUS
    <2>1. IsDirectory(d)' /\ Listing(d)' = Tree!Without(Listing(d), name)
      BY <1>1, Kinds DEF IsDirectory, Listing
    <2>2. /\ DOMAIN Listing(d)' = DOMAIN Listing(d) \ {name}
          /\ \A z \in DOMAIN Listing(d) \ {name} : Listing(d)'[z] = Listing(d)[z]
      BY <2>1 DEF Tree!Without, Restrict, Tree!Restrict
    <2> QED
      BY <2>1, <2>2 DEF Leads
  <1>3. x \in R => ~Leads(x, m, s)'
    <2> SUFFICES ASSUME x \in R, x \in Slots PROVE ~Leads(x, m, s)'
      BY DEF Leads
    <2>1. ~IsDirectory(x)'
      BY <1>1, Kinds DEF IsDirectory
    <2> QED
      BY <2>1 DEF Leads
  <1>4. x \in Slots \ {d} /\ x \notin R => (Leads(x, m, s)' <=> Leads(x, m, s))
    BY <1>1 DEF Leads, IsDirectory, Listing
  <1> QED
    BY <1>2, <1>3, <1>4 DEF Leads

LEMMA LeadsMoved ==
    ASSUME TypeOK, NEW d \in Slots, IsDirectory(d), NEW e \in Slots, IsDirectory(e),
           NEW name, NEW newname, NEW id, NEW R, <<d, name>> # <<e, newname>>,
           nodes' = Wiped(Moved(d, name, e, newname, id), R),
           NEW x, NEW m, NEW s
    PROVE  Leads(x, m, s)' <=>
              /\ x \notin R
              /\ \/ x = e /\ m = newname /\ s = id
                 \/ Leads(x, m, s) /\ <<x, m>> # <<d, name>> /\ <<x, m>> # <<e, newname>>
  <1>1. /\ \A t \in Slots : t \in R => nodes'[t] = Noise
        /\ \A t \in Slots \ {d, e} : t \notin R => nodes'[t] = nodes[t]
        /\ d # e /\ d \notin R => nodes'[d] = Directory(Tree!Without(Listing(d), name))
        /\ d # e /\ e \notin R => nodes'[e] = Directory(Tree!With(Listing(e), newname, id))
        /\ d = e /\ e \notin R =>
              nodes'[e] = Directory(Tree!With(Tree!Without(Listing(d), name), newname, id))
    BY MovedEffect
  <1>2. CASE x \in R
    <2>1. x \in Slots => ~IsDirectory(x)'
      BY <1>1, <1>2, Kinds DEF IsDirectory
    <2> QED
      BY <1>2, <2>1 DEF Leads
  <1>3. CASE x \notin R /\ x = d /\ d # e
    <2>1. IsDirectory(d)' /\ Listing(d)' = Tree!Without(Listing(d), name)
      BY <1>1, <1>3, Kinds DEF IsDirectory, Listing
    <2>2. /\ DOMAIN Listing(d)' = DOMAIN Listing(d) \ {name}
          /\ \A z \in DOMAIN Listing(d) \ {name} : Listing(d)'[z] = Listing(d)[z]
      BY <2>1 DEF Tree!Without, Restrict, Tree!Restrict
    <2> QED
      BY <1>3, <2>1, <2>2 DEF Leads
  <1>4. CASE x \notin R /\ x = e /\ d # e
    <2>1. IsDirectory(e)' /\ Listing(e)' = Tree!With(Listing(e), newname, id)
      BY <1>1, <1>4, Kinds DEF IsDirectory, Listing
    <2>2. /\ DOMAIN Listing(e)' = DOMAIN Listing(e) \union {newname}
          /\ Listing(e)'[newname] = id
          /\ \A z \in DOMAIN Listing(e) \ {newname} : Listing(e)'[z] = Listing(e)[z]
      BY <2>1 DEF Tree!With
    <2> QED
      BY <1>4, <2>1, <2>2 DEF Leads
  <1>5. CASE x \notin R /\ x = e /\ d = e
    <2> DEFINE left == Tree!Without(Listing(d), name)
    <2>1. IsDirectory(e)' /\ Listing(e)' = Tree!With(left, newname, id)
      BY <1>1, <1>5, Kinds DEF IsDirectory, Listing
    <2>2. DOMAIN left = DOMAIN Listing(d) \ {name}
          /\ \A z \in DOMAIN Listing(d) \ {name} : left[z] = Listing(d)[z]
      BY WithoutIs
    <2> HIDE DEF left
    <2>3. /\ DOMAIN Listing(e)' = DOMAIN left \union {newname}
          /\ Listing(e)'[newname] = id
          /\ \A z \in DOMAIN left \ {newname} : Listing(e)'[z] = left[z]
      BY <2>1 DEF Tree!With
    <2> QED
      BY <1>5, <2>1, <2>2, <2>3 DEF Leads
  <1>6. CASE x \notin R /\ x # d /\ x # e
    BY <1>1, <1>6 DEF Leads, IsDirectory, Listing
  <1> QED
    BY <1>2, <1>3, <1>4, <1>5, <1>6

(* Slots in which files and directories stay what they are. *)
SameKinds(S) ==
    \A s \in S : (IsFile(s)' <=> IsFile(s)) /\ (IsDirectory(s)' <=> IsDirectory(s))

LEMMA AddedKinds ==
    ASSUME SlotsInv, NEW d \in Slots, IsDirectory(d), NEW name, NEW node \in NewNodes,
           Added(d, name, node), NEW new, new = NextFree
    PROVE  SameKinds(Slots \ {new}) /\ (IsFile(new) \/ IsDirectory(new))'
  <1>1. /\ new # d => /\ nodes'[new] = node
                      /\ nodes'[d] = Directory(Tree!With(Listing(d), name, new))
        /\ new = d => nodes'[d] = Directory(Tree!With(<<>>, name, new))
        /\ \A t \in Slots \ {d, new} : nodes'[t] = nodes[t]
    BY AddedEffect
  <1>2. IsDirectory(d)' /\ ~IsFile(d)' /\ ~IsFile(d)
    BY <1>1, Kinds DEF IsDirectory, IsFile
  <1>3. node.kind \in {"file", "directory"}
    BY Kinds DEF NewNodes
  <1>4. (IsFile(new) \/ IsDirectory(new))'
    BY <1>1, <1>2, <1>3 DEF IsDirectory, IsFile
  <1> QED
    BY <1>1, <1>2, <1>4 DEF SameKinds, IsFile, IsDirectory

LEMMA CutKinds ==
    ASSUME TypeOK, NEW d \in Slots, IsDirectory(d), NEW name, NEW R,
           nodes' = Wiped(SourceWritten(d, name), R)
    PROVE  SameKinds(Slots \ R)
  <1>1. /\ d \notin R => nodes'[d] = Directory(Tree!Without(Listing(d), name))
        /\ \A t \in Slots \ {d} : t \notin R => nodes'[t] = nodes[t]
    BY CutEffect
  <1>2. d \notin R => IsDirectory(d)' /\ ~IsFile(d)' /\ ~IsFile(d)
    BY <1>1, Kinds DEF IsDirectory, IsFile
  <1> QED
    BY <1>1, <1>2 DEF SameKinds, IsFile, IsDirectory

LEMMA MovedKinds ==
    ASSUME TypeOK, NEW d \in Slots, IsDirectory(d), NEW e \in Slots, IsDirectory(e),
           NEW name, NEW newname, NEW id, NEW R,
           nodes' = Wiped(Moved(d, name, e, newname, id), R)
    PROVE  SameKinds(Slots \ R) /\ \A t \in Slots \ {d, e} : t \notin R => nodes'[t] = nodes[t]
  <1>1. /\ \A t \in Slots \ {d, e} : t \notin R => nodes'[t] = nodes[t]
        /\ d # e /\ d \notin R => nodes'[d] = Directory(Tree!Without(Listing(d), name))
        /\ d # e /\ e \notin R => nodes'[e] = Directory(Tree!With(Listing(e), newname, id))
        /\ d = e /\ e \notin R =>
              nodes'[e] = Directory(Tree!With(Tree!Without(Listing(d), name), newname, id))
    BY MovedEffect
  <1>2. \A t \in {d, e} : t \notin R => IsDirectory(t)' /\ ~IsFile(t)' /\ ~IsFile(t)
    BY <1>1, Kinds DEF IsDirectory, IsFile
  <1> QED
    BY <1>1, <1>2 DEF SameKinds, IsFile, IsDirectory

-----------------------------------------------------------------------------
(* EntriesApart.                                                             *)

LEMMA AddedEntries ==
    ASSUME SlotsInv, NEW d \in Slots, IsDirectory(d), NEW name, NEW node \in NewNodes,
           Added(d, name, node), dangling' = dangling
    PROVE  EntriesApart'
  <1>1. PICK new : new = NextFree
    OBVIOUS
  <1>2. \A x, m, s : Leads(x, m, s)' <=> (Leads(x, m, s) /\ x # new) \/ (x = d /\ m = name /\ s = new)
    BY <1>1, LeadsAdded
  <1>3. SameKinds(Slots \ {new}) /\ (IsFile(new) \/ IsDirectory(new))'
    BY <1>1, AddedKinds
  <1>4. new \in Slots /\ (new \notin dangling => ~IsFile(new) /\ ~IsDirectory(new))
    BY <1>1, AddedEffect, NextFreeIs DEF SlotsInv
  <1>5. new \notin dangling => \A x \in Slots, m \in Names : ~Leads(x, m, new)
    BY <1>4 DEF SlotsInv, EntriesApart
  <1>6. new # Root /\ Root \notin dangling'
    BY <1>4 DEF SlotsInv, EntriesApart
  <1>7. IsDirectory(Root)'
    BY <1>3, <1>6, SlotsAssumption DEF SlotsInv, EntriesApart, SameKinds
  <1>8. ASSUME NEW x \in Slots, NEW s \in Slots, NEW m \in Names, Leads(x, m, s)'
        PROVE  s # Root /\ (s \in dangling' \/ (IsFile(s) \/ IsDirectory(s))')
    <2>1. CASE s = new
      BY <1>3, <1>6, <2>1
    <2>2. CASE s # new
      <3>1. Leads(x, m, s)
        BY <1>2, <1>8, <2>2
      <3> QED
        BY <1>3, <2>2, <3>1 DEF SlotsInv, EntriesApart, SameKinds
    <2> QED
      BY <2>1, <2>2
  <1>9. ASSUME NEW x \in Slots, NEW y \in Slots, NEW s \in Slots, NEW m \in Names, NEW k \in Names,
               Leads(x, m, s)', Leads(y, k, s)', s \notin dangling'
        PROVE  x = y /\ m = k
    BY <1>2, <1>5, <1>9 DEF SlotsInv, EntriesApart
  <1> QED
    BY <1>6, <1>7, <1>8, <1>9 DEF EntriesApart

(* Entries go, and nodes that no entry leads to any more. *)
LEMMA FewerEntries ==
    ASSUME EntriesApart, NEW R, Root \notin R, SameKinds(Slots \ R),
           dangling \subseteq dangling', Root \notin dangling',
           \A x, m, s : Leads(x, m, s)' => Leads(x, m, s) /\ (s \notin R \/ s \in dangling')
    PROVE  EntriesApart'
  <1>1. IsDirectory(Root)'
    BY SlotsAssumption DEF EntriesApart, SameKinds
  <1>2. \A d, s \in Slots, n \in Names :
           Leads(d, n, s)' => s # Root /\ (s \in dangling' \/ (IsFile(s) \/ IsDirectory(s))')
    BY DEF EntriesApart, SameKinds
  <1> QED
    BY <1>1, <1>2 DEF EntriesApart

LEMMA DataIs ==
    ASSUME SlotsInv, NEW id \in Slots
    PROVE  /\ SlotsOfFile(id) \in SUBSET Slots /\ id \in SlotsOfFile(id)
           /\ \A s \in SlotsOfFile(id) \ dangling : s = id \/ (IsFile(id) /\ nodes[s] = FileDataBlock)
  <1>1. IsFile(id) => /\ nodes[id].slots \subseteq Slots
                      /\ \A s \in nodes[id].slots \ dangling : nodes[s] = FileDataBlock
    BY NodeShape DEF SlotsInv, DataApart, Files
  <1> QED
    BY <1>1 DEF SlotsOfFile, DataOf

(* What goes with an entry: nothing, or its slot alone, or all of its file.  *)
LEMMA CutEntries ==
    ASSUME SlotsInv, NEW d \in Slots, IsDirectory(d), NEW name \in DOMAIN Listing(d),
           NEW id, id = Listing(d)[name], NEW R \in {{}, {id}, SlotsOfFile(id)},
           nodes' = Wiped(SourceWritten(d, name), R), dangling' = dangling
    PROVE  EntriesApart' /\ SameKinds(Slots \ R) /\ Root \notin R /\ R \in SUBSET Slots
  <1>1. Leads(d, name, id) /\ name \in Names /\ id \in Slots
    <2>1. Leads(d, name, id)
      BY DEF Leads
    <2> QED
      BY <2>1, LeadsTyped DEF SlotsInv
  <1>2. SameKinds(Slots \ R)
    BY CutKinds DEF SlotsInv
  <1>3. \A x, m, s : Leads(x, m, s)' => Leads(x, m, s) /\ ~(x = d /\ m = name)
    BY LeadsCut DEF SlotsInv
  <1>4. R \in SUBSET Slots /\ \A s \in R \ dangling : s = id \/ (~IsFile(s) /\ ~IsDirectory(s))
    <2>1. \A s \in R : s = id \/ s \in SlotsOfFile(id)
      OBVIOUS
    <2> QED
      BY <1>1, <2>1, DataIs, Kinds DEF IsFile, IsDirectory
  <1>5. Root \notin R
    BY <1>1, <1>4 DEF SlotsInv, EntriesApart
  <1>6. ASSUME NEW x, NEW m, NEW s, Leads(x, m, s)'
        PROVE  Leads(x, m, s) /\ (s \notin R \/ s \in dangling')
    <2>1. Leads(x, m, s) /\ ~(x = d /\ m = name)
      BY <1>3, <1>6
    <2>2. x \in Slots /\ m \in Names /\ s \in Slots
      BY <2>1, LeadsTyped DEF SlotsInv, Leads
    <2> QED
      BY <1>1, <1>4, <2>1, <2>2 DEF SlotsInv, EntriesApart
  <1>7. EntriesApart'
    BY <1>2, <1>5, <1>6, FewerEntries DEF SlotsInv, EntriesApart
  <1> QED
    BY <1>2, <1>4, <1>5, <1>7

(* A rename that failed: what it was to replace is gone, but for its entry.  *)
LEMMA DanglingEntries ==
    ASSUME SlotsInv, NEW d \in Slots, IsDirectory(d), NEW name, NEW R \in SUBSET (Slots \ {Root}),
           nodes' = Wiped(SourceWritten(d, name), R), dangling' = dangling \union R
    PROVE  EntriesApart'
  <1>1. SameKinds(Slots \ R)
    BY CutKinds DEF SlotsInv
  <1>2. \A x, m, s : Leads(x, m, s)' => Leads(x, m, s)
    BY LeadsCut DEF SlotsInv
  <1> QED
    BY <1>1, <1>2, FewerEntries DEF SlotsInv, EntriesApart

(* The entries after a rename of id that replaced R. *)
EntriesMoved(d, name, e, newname, id, R) ==
    \A x, m, s : Leads(x, m, s)' <=>
        /\ x \notin R
        /\ \/ x = e /\ m = newname /\ s = id
           \/ Leads(x, m, s) /\ <<x, m>> # <<d, name>> /\ <<x, m>> # <<e, newname>>

LEMMA MovedEntries ==
    ASSUME SlotsInv, NEW d \in Slots, IsDirectory(d), NEW e \in Slots, IsDirectory(e),
           NEW name \in DOMAIN Listing(d), NEW newname \in Names, <<d, name>> # <<e, newname>>,
           NEW id, id = Listing(d)[name], NEW R \in SUBSET Replaced(e, newname),
           id \in R => id \in dangling,
           nodes' = Wiped(Moved(d, name, e, newname, id), R), dangling' = dangling
    PROVE  /\ EntriesApart' /\ SameKinds(Slots \ R)
           /\ EntriesMoved(d, name, e, newname, id, R)
  <1>1. Leads(d, name, id) /\ name \in Names /\ id \in Slots
    <2>1. Leads(d, name, id)
      BY DEF Leads
    <2> QED
      BY <2>1, LeadsTyped DEF SlotsInv
  <1>2. SameKinds(Slots \ R)
    BY MovedKinds DEF SlotsInv
  <1>3. \A x, m, s : Leads(x, m, s)' <=>
           /\ x \notin R
           /\ \/ x = e /\ m = newname /\ s = id
              \/ Leads(x, m, s) /\ <<x, m>> # <<d, name>> /\ <<x, m>> # <<e, newname>>
    BY LeadsMoved DEF SlotsInv
  <1>4. \A r \in R : Leads(e, newname, r)
    BY DEF Leads, Replaced
  <1>5. \A r \in R : r \in Slots /\ r # Root
    <2> TAKE r \in R
    <2>1. Leads(e, newname, r) /\ r \in Slots
      BY <1>4, LeadsTyped DEF SlotsInv
    <2> QED
      BY <2>1 DEF SlotsInv, EntriesApart
  <1>6. IsDirectory(Root)' /\ Root \notin dangling'
    BY <1>2, <1>5, SlotsAssumption DEF SlotsInv, EntriesApart, SameKinds
  <1>7. ASSUME NEW x \in Slots, NEW s \in Slots, NEW m \in Names, Leads(x, m, s)'
        PROVE  s # Root /\ (s \in dangling' \/ (IsFile(s) \/ IsDirectory(s))')
    <2>1. \E y \in Slots, k \in Names : Leads(y, k, s)
      BY <1>1, <1>3, <1>7
    <2>2. s # Root /\ (s \in dangling \/ IsFile(s) \/ IsDirectory(s))
      BY <2>1 DEF SlotsInv, EntriesApart
    <2>3. s \in R => s \in dangling
      <3> SUFFICES ASSUME s \in R, s \notin dangling PROVE FALSE
        OBVIOUS
      <3>1. Leads(e, newname, s)
        BY <1>4
      <3>2. Leads(x, m, s) /\ <<x, m>> # <<e, newname>>
        BY <1>3, <1>7
      <3> QED
        BY <3>1, <3>2 DEF SlotsInv, EntriesApart
    <2> QED
      BY <1>2, <2>2, <2>3 DEF SameKinds
  <1>8. ASSUME NEW x \in Slots, NEW y \in Slots, NEW s \in Slots, NEW m \in Names, NEW k \in Names,
               Leads(x, m, s)', Leads(y, k, s)', s \notin dangling'
        PROVE  x = y /\ m = k
    BY <1>1, <1>3, <1>8 DEF SlotsInv, EntriesApart
  <1>9. EntriesApart'
    BY <1>6, <1>7, <1>8 DEF EntriesApart
  <1>10. EntriesMoved(d, name, e, newname, id, R)
    BY <1>3 DEF EntriesMoved
  <1> QED
    BY <1>2, <1>9, <1>10

-----------------------------------------------------------------------------
(* The slots of files and handles, and the free list.                        *)

SlotsSafe == FreeIsNoise /\ DataApart /\ HandlesApart

LEMMA UsedIsNotFree ==
    ASSUME TypeOK, FreeIsNoise, NEW s \in Slots \ dangling, nodes[s] # Noise
    PROVE  free[s] = 0
  <1>1. free[s] \in Nat
    BY DEF TypeOK
  <1> QED
    BY <1>1 DEF FreeIsNoise

(* A request that wipes the slots of R, and of what is left writes directories. *)
LEMMA WipedSafe ==
    ASSUME SlotsInv, NEW R \in SUBSET Slots, dangling \subseteq dangling',
           \A s \in R : nodes'[s] = Noise,
           \A s \in Slots \ R : ~IsDirectory(s) => nodes'[s] = nodes[s],
           SameKinds(Slots \ R),
           \A s \in Slots \ (R \union dangling') : free'[s] > 0 => free[s] > 0,
           DOMAIN files' \subseteq DOMAIN files,
           \A h \in DOMAIN files' : /\ files'[h] = files[h] /\ files[h].head \notin R \ dangling'
                                    /\ files[h].slots \intersect R \subseteq dangling',
           \A f \in Files \ R : nodes[f].slots \intersect R \subseteq dangling'
    PROVE  SlotsSafe'
  <1>1. \A s \in Slots \ R : ~IsDirectory(s) => nodes'[s] = nodes[s]
    OBVIOUS
  <1>2. Files' = Files \ R /\ \A f \in Files' : nodes'[f] = nodes[f]
    <2>1. \A s \in R : ~IsFile(s)'
      BY Kinds DEF IsFile
    <2>2. \A s \in Slots \ R : IsFile(s) => ~IsDirectory(s)
      BY DEF IsFile, IsDirectory
    <2> QED
      BY <2>1, <2>2 DEF SameKinds, Files
  <1>3. \A s \in Slots \ R : nodes[s] = FileDataBlock => nodes'[s] = FileDataBlock
    BY Kinds DEF IsDirectory
  <1>4. FreeIsNoise'
    <2> SUFFICES ASSUME NEW s \in Slots \ dangling', free'[s] > 0, s \notin R PROVE nodes'[s] = Noise
      BY DEF FreeIsNoise
    <2>1. nodes[s] = Noise
      BY DEF SlotsInv, FreeIsNoise
    <2> QED
      BY <2>1, Kinds DEF IsDirectory
  <1>5. DataApart'
    <2> SUFFICES ASSUME NEW f \in Files', NEW s \in nodes'[f].slots \ dangling'
                 PROVE  /\ nodes'[s] = FileDataBlock
                        /\ \A g \in Files' \ {f} : s \notin nodes'[g].slots
      BY DEF DataApart
    <2>1. f \in Files \ R /\ f \in Slots /\ s \in nodes[f].slots /\ s \notin R
      BY <1>2 DEF Files
    <2>2. s \in Slots \ dangling
      BY <2>1, NodeShape DEF SlotsInv, Files
    <2> QED
      BY <1>2, <1>3, <2>1, <2>2 DEF SlotsInv, DataApart
  <1>6. HandlesApart'
    <2> SUFFICES ASSUME NEW h \in DOMAIN files'
                 PROVE  /\ files'[h].head \notin dangling' =>
                              /\ IsFile(files[h].head)'
                              /\ \A k \in DOMAIN files' \ {h} : files'[k].head # files'[h].head
                        /\ \A s \in files'[h].slots \ dangling' :
                              /\ nodes'[s] = FileDataBlock
                              /\ \A g \in Files' \ {files'[h].head} : s \notin nodes'[g].slots
                              /\ \A k \in DOMAIN files' \ {h} : s \notin files'[k].slots
      BY DEF HandlesApart
    <2>1. h \in DOMAIN files /\ files'[h] = files[h]
      OBVIOUS
    <2>2. files[h].head \in Slots \ (R \ dangling') /\ files[h].slots \subseteq Slots \ (R \ dangling')
      BY <2>1, HandleTyped DEF SlotsInv
    <2>3. files[h].head \notin dangling' => IsFile(files[h].head)'
      <3>1. files[h].head \notin dangling' => IsFile(files[h].head)
        BY <2>1 DEF SlotsInv, HandlesApart
      <3> QED
        BY <2>1, <2>2, <3>1 DEF SameKinds, IsFile
    <2>4. files[h].head \notin dangling' =>
             \A k \in DOMAIN files' \ {h} : files'[k].head # files'[h].head
      BY <2>1 DEF SlotsInv, HandlesApart
    <2>5. \A s \in files'[h].slots \ dangling' :
             /\ nodes'[s] = FileDataBlock
             /\ \A g \in Files' \ {files'[h].head} : s \notin nodes'[g].slots
             /\ \A k \in DOMAIN files' \ {h} : s \notin files'[k].slots
      BY <1>2, <1>3, <2>1, <2>2 DEF SlotsInv, HandlesApart
    <2> QED
      BY <2>1, <2>3, <2>4, <2>5
  <1> QED
    BY <1>4, <1>5, <1>6 DEF SlotsSafe

LEMMA FreedAllIs ==
    ASSUME NEW R, free' = FreedAll(R)
    PROVE  \A s \in Slots \ R : free'[s] > 0 => free[s] > 0
  BY DEF FreedAll

LEMMA IsNodes ==
    ASSUME NEW x, NEW S
    PROVE  /\ IsNode(Noise) /\ IsNode(FileDataBlock)
           /\ DOMAIN x \subseteq Names /\ (\A n \in DOMAIN x : x[n] \in Slots) => IsNode(Directory(x))
           /\ S \subseteq Slots => IsNode(FileBlock(S))
  BY Kinds DEF IsNode, Range

LEMMA InodeGivenTyped ==
    ASSUME TypeOK, NEW slot \in Slots, InodeGiven(slot)
    PROVE  /\ DOMAIN inodes' \subseteq 1..MaxInodes /\ Range(inodes)' \subseteq Slots
           /\ nextIno' \in 2..(MaxInodes + 1)
           /\ \A i \in DOMAIN inodes' : (i \in DOMAIN inodes /\ inodes'[i] = inodes[i]) \/ inodes'[i] = slot
           /\ DOMAIN inodes \subseteq DOMAIN inodes'
           /\ \A i \in DOMAIN inodes : inodes'[i] = inodes[i] \/ inodes'[i] = slot
  <1>1. /\ DOMAIN inodes \subseteq 1..MaxInodes
        /\ \A i \in DOMAIN inodes : inodes[i] \in Slots
        /\ nextIno \in 2..(MaxInodes + 1)
    BY DEF TypeOK, Range
  <1>2. CASE UNCHANGED <<inodes, nextIno>>
    BY <1>1, <1>2 DEF Range
  <1>3. CASE nextIno <= MaxInodes /\ inodes' = Tree!With(inodes, nextIno, slot) /\ nextIno' = nextIno + 1
    <2>1. /\ DOMAIN inodes' = DOMAIN inodes \union {nextIno}
          /\ \A i \in DOMAIN inodes' : inodes'[i] = IF i = nextIno THEN slot ELSE inodes[i]
      BY <1>3 DEF Tree!With
    <2>2. nextIno \in 1..MaxInodes /\ nextIno' \in 2..(MaxInodes + 1)
      BY <1>1, <1>3, BoundsAssumption
    <2> QED
      BY <1>1, <2>1, <2>2 DEF Range
  <1> QED
    BY <1>2, <1>3 DEF InodeGiven

(* The handle that create gives out. *)
Fresh(h, new) == files' = Tree!With(files, h, [head |-> new, slots |-> {}, dirty |-> FALSE])

LEMMA AddedSafe ==
    ASSUME SlotsInv, NEW d \in Slots, IsDirectory(d), NEW name \in Names, NEW node \in NewNodes,
           Added(d, name, node), NEW new, new = NextFree, lost' = lost, dangling' = dangling,
           \/ files' = files
           \/ node = FileBlock({}) /\ \E h \in Handles \ DOMAIN files : Fresh(h, new)
    PROVE  TypeOK' /\ SlotsSafe'
  <1>1. /\ HasSpace /\ new \in Slots
        /\ DOMAIN nodes' = Slots
        /\ new # d => /\ nodes'[new] = node
                      /\ nodes'[d] = Directory(Tree!With(Listing(d), name, new))
        /\ new = d => /\ node = Directory(<<>>) /\ d \in dangling
                      /\ nodes'[d] = Directory(Tree!With(<<>>, name, new))
        /\ \A s \in Slots \ {d, new} : nodes'[s] = nodes[s]
        /\ free' = [free EXCEPT ![new] = free[new] - 1]
    BY AddedEffect
  <1>2. /\ free[new] \in Nat \ {0}
        /\ new \notin dangling => /\ free[new] = 1 /\ nodes[new] = Noise
                                  /\ ~IsFile(new) /\ ~IsDirectory(new)
    BY <1>1, NextFreeIs DEF SlotsInv
  <1>3. /\ DOMAIN files' \subseteq Handles /\ DOMAIN files \subseteq DOMAIN files'
        /\ \A h \in DOMAIN files : files'[h] = files[h]
        /\ \A h \in DOMAIN files' \ DOMAIN files :
              files'[h] = [head |-> new, slots |-> {}, dirty |-> FALSE] /\ node = FileBlock({})
        /\ \A h, k \in DOMAIN files' \ DOMAIN files : h = k
    BY DEF Fresh, Tree!With, SlotsInv, TypeOK
  <1>4. TypeOK'
    <2>1. \A s \in Slots : IsNode(nodes'[s])
      <3>1. DOMAIN <<>> = {}
        OBVIOUS
      <3>2. IsNode(node)
        BY <3>1, IsNodes DEF NewNodes
      <3>3. IsNode(nodes'[d])
        <4> DEFINE put == Tree!With(Listing(d), name, new)
                   first == Tree!With(<<>>, name, new)
        <4>1. DOMAIN Listing(d) \subseteq Names /\ \A n \in DOMAIN Listing(d) : Listing(d)[n] \in Slots
          BY NodeShape DEF SlotsInv
        <4>2. DOMAIN put \subseteq Names /\ \A n \in DOMAIN put : put[n] \in Slots
          BY <1>1, <4>1 DEF Tree!With
        <4>3. DOMAIN first \subseteq Names /\ \A n \in DOMAIN first : first[n] \in Slots
          BY <1>1, <3>1 DEF Tree!With
        <4> HIDE DEF put, first
        <4>4. IsNode(Directory(put)) /\ IsNode(Directory(first))
          BY <4>2, <4>3, IsNodes
        <4> USE DEF put, first
        <4> QED
          BY <1>1, <4>4
      <3> QED
        BY <1>1, <3>2, <3>3 DEF SlotsInv, TypeOK
    <2>2. free' \in [Slots -> Nat] /\ \A s \in Slots \ dangling' : free'[s] <= 1
      BY <1>1, <1>2 DEF SlotsInv, TypeOK
    <2>3. /\ DOMAIN inodes' \subseteq 1..MaxInodes /\ Range(inodes)' \subseteq Slots
          /\ nextIno' \in 2..(MaxInodes + 1)
      BY <1>1, InodeGivenTyped DEF Added, SlotsInv
    <2>4. \A h \in DOMAIN files' : files'[h] \in OpenFile
      <3> TAKE h \in DOMAIN files'
      <3>1. CASE h \in DOMAIN files
        BY <1>3, <3>1 DEF SlotsInv, TypeOK
      <3>2. CASE h \notin DOMAIN files
        <4>1. files'[h] = [head |-> new, slots |-> {}, dirty |-> FALSE]
          BY <1>3, <3>2
        <4> QED
          BY <1>1, <4>1 DEF OpenFile
      <3> QED
        BY <3>1, <3>2
    <2>5. failed' \in BOOLEAN /\ lost' \in BOOLEAN /\ dangling' \subseteq Slots
      BY DEF Added, SlotsInv, TypeOK
    <2> QED
      BY <1>1, <1>3, <2>1, <2>2, <2>3, <2>4, <2>5 DEF TypeOK
  <1>5. FreeIsNoise'
    <2> SUFFICES ASSUME NEW s \in Slots \ dangling, free'[s] > 0 PROVE nodes'[s] = Noise
      BY DEF FreeIsNoise
    <2>1. s # new /\ free[s] > 0
      BY <1>1, <1>2 DEF SlotsInv, TypeOK
    <2>2. nodes[s] = Noise /\ s # d
      BY <2>1, Kinds DEF SlotsInv, FreeIsNoise, IsDirectory
    <2> QED
      BY <1>1, <2>1, <2>2
  <1>6. \A s \in Slots \ dangling : nodes[s] = FileDataBlock => nodes'[s] = FileDataBlock
    BY <1>1, <1>2, Kinds DEF IsDirectory, Noise, FileDataBlock
  <1>7. /\ \A f \in Files' : (f = new /\ nodes'[f].slots = {}) \/ (f \in Files /\ nodes'[f] = nodes[f])
        /\ node = FileBlock({}) => new \in Files'
        /\ Files \ {new} \subseteq Files'
    <2>1. node = FileBlock({}) => new # d
      BY <1>1, Kinds
    <2>2. IsFile(new)' => new # d /\ nodes'[new].slots = {}
      BY <1>1, Kinds DEF IsFile, NewNodes
    <2>3. ~IsFile(d) /\ ~IsFile(d)'
      BY <1>1, Kinds DEF IsFile, IsDirectory
    <2>4. \A f \in Files \ {new} : nodes'[f] = nodes[f]
      BY <1>1, <2>3 DEF Files
    <2>5. node = FileBlock({}) => IsFile(new)'
      BY <1>1, <2>1, Kinds DEF IsFile
    <2> QED
      BY <1>1, <2>2, <2>3, <2>4, <2>5 DEF Files, IsFile
  <1>8. DataApart'
    <2> SUFFICES ASSUME NEW f \in Files', NEW s \in nodes'[f].slots \ dangling
                 PROVE  /\ nodes'[s] = FileDataBlock
                        /\ \A g \in Files' \ {f} : s \notin nodes'[g].slots
      BY DEF DataApart
    <2>1. f \in Files /\ s \in nodes[f].slots /\ s \in Slots
      BY <1>7, NodeShape DEF SlotsInv, Files
    <2> QED
      BY <1>6, <1>7, <2>1 DEF SlotsInv, DataApart
  <1>9. HandlesApart'
    <2> SUFFICES ASSUME NEW h \in DOMAIN files'
                 PROVE  /\ files'[h].head \notin dangling =>
                              /\ IsFile(files[h].head)'
                              /\ \A k \in DOMAIN files' \ {h} : files'[k].head # files'[h].head
                        /\ \A s \in files'[h].slots \ dangling :
                              /\ nodes'[s] = FileDataBlock
                              /\ \A g \in Files' \ {files'[h].head} : s \notin nodes'[g].slots
                              /\ \A k \in DOMAIN files' \ {h} : s \notin files'[k].slots
      BY DEF HandlesApart
    <2>1. \A k \in DOMAIN files : files[k].head \notin dangling =>
             files[k].head \in Files /\ files[k].head # new
      BY <1>2, HandleTyped DEF SlotsInv, HandlesApart, Files
    <2>2. CASE h \in DOMAIN files
      <3>1. files'[h].head \notin dangling => IsFile(files[h].head)'
        BY <1>3, <1>7, <2>1, <2>2 DEF Files, IsFile
      <3>2. files'[h].head \notin dangling =>
               \A k \in DOMAIN files' \ {h} : files'[k].head # files'[h].head
        BY <1>3, <2>1, <2>2 DEF SlotsInv, HandlesApart
      <3>3. \A s \in files'[h].slots \ dangling :
               /\ s \in Slots \ dangling /\ nodes[s] = FileDataBlock
               /\ \A g \in Files \ {files[h].head} : s \notin nodes[g].slots
               /\ \A k \in DOMAIN files \ {h} : s \notin files[k].slots
        BY <1>3, <2>2, HandleTyped DEF SlotsInv, HandlesApart
      <3>4. \A k \in DOMAIN files' \ DOMAIN files : files'[k].slots = {}
        BY <1>3
      <3> QED
        BY <1>3, <1>6, <1>7, <2>2, <3>1, <3>2, <3>3, <3>4
    <2>3. CASE h \notin DOMAIN files
      <3>1. files'[h].head = new /\ files'[h].slots = {} /\ new \in Files'
        BY <1>3, <1>7, <2>3
      <3>2. IsFile(files[h].head)'
        BY <3>1 DEF Files, IsFile
      <3>3. new \notin dangling => \A k \in DOMAIN files' \ {h} : files'[k].head # files'[h].head
        BY <1>3, <2>1, <2>3, <3>1
      <3> QED
        BY <3>1, <3>2, <3>3
    <2> QED
      BY <2>2, <2>3
  <1> QED
    BY <1>4, <1>5, <1>8, <1>9 DEF SlotsSafe

LEMMA WipedTyped ==
    ASSUME SlotsInv, NEW R \in SUBSET Slots, DOMAIN nodes' = Slots,
           dangling \subseteq dangling', dangling' \subseteq Slots,
           \A s \in Slots : nodes'[s] = Noise \/ IsNode(nodes'[s]),
           \A s \in R \ dangling' : nodes[s] # Noise,
           free' = FreedAll(R), nextIno' = nextIno,
           DOMAIN inodes' \subseteq DOMAIN inodes, \A i \in DOMAIN inodes' : inodes'[i] = inodes[i],
           DOMAIN files' \subseteq DOMAIN files, \A h \in DOMAIN files' : files'[h] = files[h],
           failed' \in BOOLEAN, lost' \in BOOLEAN
    PROVE  TypeOK'
  <1>1. \A s \in Slots : IsNode(nodes'[s])
    BY IsNodes
  <1>2. free' \in [Slots -> Nat] /\ \A s \in Slots \ dangling' : free'[s] <= 1
    <2> SUFFICES ASSUME NEW s \in Slots
                 PROVE  /\ (IF s \in R THEN free[s] + 1 ELSE free[s]) \in Nat
                        /\ s \notin dangling' => (IF s \in R THEN free[s] + 1 ELSE free[s]) <= 1
      BY DEF FreedAll
    <2>1. s \in R \ dangling' => free[s] = 0
      BY UsedIsNotFree DEF SlotsInv
    <2>2. free[s] \in Nat /\ (s \notin dangling => free[s] <= 1)
      BY DEF SlotsInv, TypeOK
    <2> QED
      BY <2>1, <2>2
  <1>3. DOMAIN inodes' \subseteq 1..MaxInodes /\ Range(inodes)' \subseteq Slots
    BY DEF SlotsInv, TypeOK, Range
  <1>4. /\ DOMAIN files' \subseteq Handles
        /\ \A h \in DOMAIN files' : files'[h] \in OpenFile
    BY DEF SlotsInv, TypeOK
  <1>5. nextIno' \in 2..(MaxInodes + 1)
    BY DEF SlotsInv, TypeOK
  <1> QED
    BY <1>1, <1>2, <1>3, <1>4, <1>5 DEF TypeOK

(* A directory with an entry more or less is still one. *)
LEMMA EditedIsNode ==
    ASSUME TypeOK, NEW d \in Slots, IsDirectory(d), NEW e \in Slots, IsDirectory(e),
           NEW name, NEW newname \in Names, NEW id \in Slots
    PROVE  /\ IsNode(Directory(Tree!Without(Listing(d), name)))
           /\ IsNode(Directory(Tree!With(Listing(e), newname, id)))
           /\ IsNode(Directory(Tree!With(Tree!Without(Listing(d), name), newname, id)))
  <1> DEFINE left == Tree!Without(Listing(d), name)
             put == Tree!With(Listing(e), newname, id)
             both == Tree!With(left, newname, id)
  <1>1. \A x \in {d, e} : /\ DOMAIN Listing(x) \subseteq Names
                          /\ \A n \in DOMAIN Listing(x) : Listing(x)[n] \in Slots
    BY NodeShape
  <1>2. DOMAIN left \subseteq Names /\ \A n \in DOMAIN left : left[n] \in Slots
    BY <1>1 DEF Tree!Without, Restrict, Tree!Restrict
  <1>3. DOMAIN put \subseteq Names /\ \A n \in DOMAIN put : put[n] \in Slots
    BY <1>1 DEF Tree!With
  <1>4. DOMAIN both \subseteq Names /\ \A n \in DOMAIN both : both[n] \in Slots
    <2> HIDE DEF left
    <2> QED BY <1>2 DEF Tree!With
  <1> HIDE DEF left, put, both
  <1>5. IsNode(Directory(left)) /\ IsNode(Directory(put)) /\ IsNode(Directory(both))
    BY <1>2, <1>3, <1>4, IsNodes
  <1> USE DEF left, put, both
  <1> QED
    BY <1>5

LEMMA RmdirSafe ==
    ASSUME SlotsInv, NEW d \in Slots, IsDirectory(d), NEW name, Rmdir(d, name), ~failed',
           lost' = lost, dangling' = dangling
    PROVE  SlotsInv'
  <1>1. PICK id : id = Listing(d)[name]
    OBVIOUS
  <1>2. /\ name \in DOMAIN Listing(d) /\ IsDirectory(id) /\ Listing(id) = <<>>
        /\ nodes' = Wiped(SourceWritten(d, name), {id})
        /\ free' = FreedAll({id}) /\ inodes' = InodeRemoved(id)
        /\ failed' = FALSE /\ nextIno' = nextIno /\ files' = files
    BY <1>1 DEF Rmdir, Refused, MayRemove, DirectoryGone, SourceWritten
  <1>3. name \in Names /\ id \in Slots /\ d # id
    <2>1. Leads(d, name, id)
      BY <1>1, <1>2 DEF Leads
    <2>2. DOMAIN <<>> = {}
      OBVIOUS
    <2>3. d # id
      BY <1>2, <2>2
    <2> QED
      BY <2>1, <2>3, LeadsTyped DEF SlotsInv
  <1>4. EntriesApart' /\ SameKinds(Slots \ {id})
    BY <1>1, <1>2, CutEntries
  <1>5. /\ DOMAIN nodes' = Slots /\ nodes'[id] = Noise
        /\ nodes'[d] = Directory(Tree!Without(Listing(d), name))
        /\ \A s \in Slots \ {d, id} : nodes'[s] = nodes[s]
    <2>1. TypeOK /\ d \notin {id} /\ id \in {id}
      BY <1>3 DEF SlotsInv
    <2>2. /\ DOMAIN nodes' = Slots
          /\ \A s \in Slots : s \in {id} => nodes'[s] = Noise
          /\ nodes'[d] = Directory(Tree!Without(Listing(d), name))
          /\ \A s \in Slots \ {d} : s \notin {id} => nodes'[s] = nodes[s]
      BY <1>2, <2>1, CutEffect
    <2> QED
      BY <1>3, <2>2
  <1>6. nodes[id] # Noise /\ ~IsFile(id)
    BY <1>2, Kinds DEF IsDirectory, IsFile
  <1>7. TypeOK'
    <2>1. \A s \in Slots \ {id} : IsNode(nodes'[s])
      BY <1>3, <1>5, EditedIsNode DEF SlotsInv, TypeOK
    <2>2. DOMAIN inodes' \subseteq DOMAIN inodes /\ \A i \in DOMAIN inodes' : inodes'[i] = inodes[i]
      BY <1>2 DEF InodeRemoved, Restrict
    <2>3. lost' \in BOOLEAN /\ failed' \in BOOLEAN /\ dangling' \subseteq Slots
      BY <1>2 DEF SlotsInv, TypeOK
    <2>4. {id} \in SUBSET Slots /\ \A s \in {id} : nodes[s] # Noise /\ nodes'[s] = Noise
      BY <1>3, <1>5, <1>6
    <2>5. DOMAIN files' \subseteq DOMAIN files /\ \A h \in DOMAIN files' : files'[h] = files[h]
      BY <1>2
    <2> QED
      BY <1>2, <1>5, <2>1, <2>2, <2>3, <2>4, <2>5, WipedTyped
  <1>8. SlotsSafe'
    <2>1. \A h \in DOMAIN files : /\ files[h].head \notin {id} \ dangling
                                  /\ files[h].slots \intersect {id} \subseteq dangling
      BY <1>2, <1>6, Kinds DEF SlotsInv, HandlesApart, IsDirectory
    <2>2. \A f \in Files : nodes[f].slots \intersect {id} \subseteq dangling
      BY <1>2, Kinds DEF SlotsInv, DataApart, IsDirectory
    <2>3. \A s \in Slots \ {id} : ~IsDirectory(s) => nodes'[s] = nodes[s]
      BY <1>5
    <2>4. {id} \in SUBSET Slots /\ \A s \in {id} : nodes'[s] = Noise
      BY <1>3, <1>5
    <2>5. \A s \in Slots \ {id} : free'[s] > 0 => free[s] > 0
      BY <1>2, FreedAllIs
    <2> QED
      BY <1>2, <1>4, <2>1, <2>2, <2>3, <2>4, <2>5, WipedSafe
  <1> QED
    BY <1>4, <1>7, <1>8 DEF SlotsInv, SlotsSafe

LEMMA UnlinkSafe ==
    ASSUME SlotsInv, NEW d \in Slots, IsDirectory(d), NEW name, Unlink(d, name),
           lost' = lost, dangling' = dangling
    PROVE  SlotsInv'
  <1>1. PICK id : id = Listing(d)[name]
    OBVIOUS
  <1>2. PICK R : R = SlotsOfFile(id)
    OBVIOUS
  <1>3. /\ name \in DOMAIN Listing(d) /\ (IsDirectory(id) => id \in dangling)
        /\ nodes' = Wiped(SourceWritten(d, name), R)
        /\ free' = FreedAll(R) /\ inodes' = InodeRemoved(id)
        /\ failed' = FALSE /\ nextIno' = nextIno /\ files' = Evicted(id)
    BY <1>1, <1>2 DEF Unlink, SourceWritten
  <1>4. name \in Names /\ id \in Slots /\ (id \notin dangling => IsFile(id))
    <2>1. Leads(d, name, id)
      BY <1>1, <1>3 DEF Leads
    <2> QED
      BY <1>3, <2>1, LeadsTyped DEF SlotsInv, EntriesApart
  <1>5. \A s \in R \ dangling : \/ s = id /\ IsFile(id)
                                \/ s \in nodes[id].slots /\ IsFile(id) /\ nodes[s] = FileDataBlock
    BY <1>2, <1>4, DataIs DEF SlotsOfFile, DataOf
  <1>6. R \in SUBSET Slots /\ id \in R /\ \A s \in R \ dangling : nodes[s] # Noise
    BY <1>2, <1>4, <1>5, DataIs, Kinds DEF IsFile
  <1>7. EntriesApart' /\ SameKinds(Slots \ R)
    BY <1>1, <1>2, <1>3, CutEntries
  <1>8. /\ DOMAIN nodes' = Slots /\ \A s \in Slots : s \in R => nodes'[s] = Noise
        /\ d \notin R => nodes'[d] = Directory(Tree!Without(Listing(d), name))
        /\ \A s \in Slots \ {d} : s \notin R => nodes'[s] = nodes[s]
    BY <1>3, CutEffect DEF SlotsInv
  <1>9. /\ DOMAIN files' = {h \in DOMAIN files : files[h].head # id}
        /\ \A h \in DOMAIN files' : files'[h] = files[h]
    BY <1>3 DEF Evicted, Restrict
  <1>10. TypeOK'
    <2>1. \A s \in Slots \ R : IsNode(nodes'[s])
      BY <1>4, <1>8, EditedIsNode DEF SlotsInv, TypeOK
    <2>2. DOMAIN inodes' \subseteq DOMAIN inodes /\ \A i \in DOMAIN inodes' : inodes'[i] = inodes[i]
      BY <1>3 DEF InodeRemoved, Restrict
    <2>3. lost' \in BOOLEAN /\ failed' \in BOOLEAN /\ dangling' \subseteq Slots
      BY <1>3 DEF SlotsInv, TypeOK
    <2>4. \A s \in R : nodes'[s] = Noise
      BY <1>6, <1>8
    <2>5. DOMAIN files' \subseteq DOMAIN files /\ \A h \in DOMAIN files' : files'[h] = files[h]
      BY <1>9
    <2> QED
      BY <1>3, <1>6, <1>8, <2>1, <2>2, <2>3, <2>4, <2>5, WipedTyped
  <1>11. SlotsSafe'
    <2>1. ASSUME NEW h \in DOMAIN files'
          PROVE  files[h].head \notin R \ dangling /\ files[h].slots \intersect R \subseteq dangling
      <3>1. h \in DOMAIN files /\ files[h].head # id
        BY <1>9
      <3>2. files[h].head \notin dangling => IsFile(files[h].head)
        BY <3>1 DEF SlotsInv, HandlesApart
      <3>3. \A s \in files[h].slots \ dangling :
               nodes[s] = FileDataBlock /\ (IsFile(id) => s \notin nodes[id].slots)
        BY <1>4, <3>1 DEF SlotsInv, HandlesApart, Files
      <3>4. files[h].head \notin R \ dangling
        BY <1>5, <3>1, <3>2, Kinds DEF IsFile
      <3>5. \A s \in files[h].slots \intersect R : s \in dangling
        BY <1>5, <3>3, Kinds DEF IsFile
      <3> QED
        BY <3>4, <3>5
    <2>2. ASSUME NEW f \in Files \ R PROVE nodes[f].slots \intersect R \subseteq dangling
      <3>1. \A s \in nodes[f].slots \ dangling :
               nodes[s] = FileDataBlock /\ (IsFile(id) => s \notin nodes[id].slots)
        BY <1>4, <1>6 DEF SlotsInv, DataApart, Files
      <3> QED
        BY <1>5, <3>1, Kinds DEF IsFile
    <2>3. \A s \in Slots \ R : ~IsDirectory(s) => nodes'[s] = nodes[s]
      BY <1>8
    <2>4. \A s \in R : nodes'[s] = Noise
      BY <1>6, <1>8
    <2>5. DOMAIN files' \subseteq DOMAIN files
      BY <1>9
    <2> QED
      BY <1>3, <1>6, <1>7, <1>9, <2>1, <2>2, <2>3, <2>4, <2>5, FreedAllIs, WipedSafe
  <1> QED
    BY <1>7, <1>10, <1>11 DEF SlotsInv, SlotsSafe

(* Under MayAsk, a rename replaces nothing that has a handle, unless it was   *)
(* freed before.                                                             *)
LEMMA ReplacedIs ==
    ASSUME SlotsInv, NoneOverOpen, NEW d, NEW e \in Slots, IsDirectory(e), NEW name, NEW newname,
           MayAsk(d, name, e, newname), NEW R, R = Replaced(e, newname)
    PROVE  /\ R \in SUBSET (Slots \ {Root})
           /\ e \in R => e \in dangling
           /\ Listing(d)[name] \in R => Listing(d)[name] \in dangling
           /\ \A s \in R \ dangling : /\ nodes[s] # Noise /\ nodes[s] # FileDataBlock
                                      /\ \A h \in DOMAIN files : files[h].head # s
  <1> SUFFICES ASSUME NEW s \in R
               PROVE  /\ s \in Slots /\ s # Root
                      /\ s \notin dangling =>
                            /\ s # e /\ s # Listing(d)[name]
                            /\ nodes[s] # Noise /\ nodes[s] # FileDataBlock
                            /\ \A h \in DOMAIN files : files[h].head # s
    OBVIOUS
  <1>1. newname \in DOMAIN Listing(e) /\ s = Listing(e)[newname] /\ Leads(e, newname, s)
    BY DEF Leads, Replaced
  <1>2. s \in Slots /\ newname \in Names
    BY <1>1, LeadsTyped DEF SlotsInv
  <1>3. s # Root /\ (s \in dangling \/ IsFile(s) \/ IsDirectory(s))
    BY <1>1, <1>2 DEF SlotsInv, EntriesApart
  <1>4. KindOfTarget(s) # "over open"
    BY <1>1 DEF MayAsk, NoneOverOpen
  <1>5. ASSUME s \notin dangling, NEW h \in DOMAIN files, files[h].head = s PROVE FALSE
    <2>1. IsFile(s) /\ IsOpen(s)
      BY <1>5 DEF SlotsInv, HandlesApart, IsOpen
    <2>2. ~IsDirectory(s)
      BY <2>1 DEF IsFile, IsDirectory
    <2> QED
      BY <1>4, <2>1, <2>2 DEF KindOfTarget
  <1>6. s \notin dangling => nodes[s] # Noise /\ nodes[s] # FileDataBlock
    BY <1>3, Kinds DEF IsFile, IsDirectory
  <1>7. s \notin dangling => s # e /\ s # Listing(d)[name]
    BY <1>1 DEF MayAsk, KnownBeneath
  <1> QED
    BY <1>2, <1>3, <1>5, <1>6, <1>7

(* The destination is written last, also if it was itself replaced.          *)
LEMMA RenamedNodes ==
    ASSUME TypeOK, NEW d \in Slots, IsDirectory(d), NEW e \in Slots, IsDirectory(e),
           NEW name, NEW newname, NEW id, id = Listing(d)[name], NEW R, R = Replaced(e, newname),
           Renamed(d, name, e, newname)
    PROVE  nodes' = Wiped(Moved(d, name, e, newname, id), R \ {e})
  <1> DEFINE cut == Tree!Without(Listing(d), name)
  <1>1. PICK left : left = SourceWritten(d, name)
    OBVIOUS
  <1>2. PICK put : put = Tree!With(left[e].entries, newname, id)
    OBVIOUS
  <1>3. left = [nodes EXCEPT ![d].entries = cut]
    BY <1>1 DEF SourceWritten, Listing
  <1>4. DOMAIN left = Slots /\ left[d] = Directory(cut) /\ \A s \in Slots \ {d} : left[s] = nodes[s]
    <2> HIDE DEF cut
    <2> QED
      BY <1>3, EntriesSet
  <1>5. left[e] = Directory(left[e].entries)
    <2>1. nodes[e] = Directory(Listing(e))
      BY NodeShape
    <2> HIDE DEF cut
    <2> QED
      BY <1>4, <2>1, Kinds
  <1>6. [left[e] EXCEPT !.entries = put] = Directory(put)
    BY <1>5 DEF Directory
  <1>7. PICK all : all = Moved(d, name, e, newname, id)
    OBVIOUS
  <1>8. all = [left EXCEPT ![e].entries = put]
    BY <1>1, <1>2, <1>7 DEF Moved
  <1>9. DOMAIN all = Slots /\ all[e] = Directory(put) /\ \A s \in Slots \ {e} : all[s] = left[s]
    BY <1>4, <1>6, <1>8
  <1>10. nodes' = [Wiped(left, R) EXCEPT ![e] = Directory(put)]
    BY <1>1, <1>2 DEF Renamed
  <1>11. nodes' = [s \in Slots |-> IF s \in R \ {e} THEN Noise ELSE all[s]]
    BY <1>9, <1>10 DEF Wiped
  <1> QED
    BY <1>7, <1>11 DEF Wiped

LEMMA RenamedSafe ==
    ASSUME SlotsInv, NoneOverOpen, NEW d \in Slots, IsDirectory(d), NEW e \in Slots, IsDirectory(e),
           NEW name \in DOMAIN Listing(d), NEW newname \in Names,
           MayAsk(d, name, e, newname), Renamed(d, name, e, newname),
           nextIno' = nextIno, files' = files, lost' \in BOOLEAN, lost => lost'
    PROVE  SlotsInv'
  <1>1. PICK id : id = Listing(d)[name]
    OBVIOUS
  <1>2. PICK R : R = Replaced(e, newname)
    OBVIOUS
  <1>3. /\ nodes' = Wiped(Moved(d, name, e, newname, id), R \ {e})
        /\ free' = FreedAll(R) /\ failed' = FALSE /\ dangling' = dangling
        /\ inodes' = Restrict(inodes, {ino \in DOMAIN inodes : inodes[ino] \notin R})
        /\ <<d, name>> # <<e, newname>>
    <2>1. nodes' = Wiped(Moved(d, name, e, newname, id), R \ {e})
      BY <1>1, <1>2, RenamedNodes DEF SlotsInv
    <2>2. <<d, name>> # <<e, newname>>
      BY DEF MayAsk
    <2> QED
      BY <1>2, <2>1, <2>2 DEF Renamed, ReplacedFreed
  <1>4. id \in Slots /\ name \in Names
    <2>1. Leads(d, name, id)
      BY <1>1 DEF Leads
    <2> QED
      BY <2>1, LeadsTyped DEF SlotsInv
  <1>5. /\ R \in SUBSET Slots /\ (e \in R => e \in dangling) /\ (id \in R => id \in dangling)
        /\ \A s \in R \ dangling : /\ nodes[s] # Noise /\ nodes[s] # FileDataBlock
                                   /\ \A h \in DOMAIN files : files[h].head # s
    BY <1>1, <1>2, ReplacedIs
  <1>6. EntriesApart' /\ SameKinds(Slots \ (R \ {e}))
    BY <1>1, <1>2, <1>3, <1>5, MovedEntries
  <1>7. /\ DOMAIN nodes' = Slots /\ \A s \in R \ {e} : nodes'[s] = Noise
        /\ \A s \in Slots \ {d, e} : s \notin R => nodes'[s] = nodes[s]
        /\ d # e /\ d \notin R => nodes'[d] = Directory(Tree!Without(Listing(d), name))
        /\ d # e => nodes'[e] = Directory(Tree!With(Listing(e), newname, id))
        /\ d = e => nodes'[e] = Directory(Tree!With(Tree!Without(Listing(d), name), newname, id))
    <2>1. PICK W : W = R \ {e}
      OBVIOUS
    <2>2. nodes' = Wiped(Moved(d, name, e, newname, id), W)
      BY <1>3, <2>1
    <2>3. /\ DOMAIN nodes' = Slots
          /\ \A s \in Slots : s \in W => nodes'[s] = Noise
          /\ \A s \in Slots \ {d, e} : s \notin W => nodes'[s] = nodes[s]
          /\ d # e /\ d \notin W => nodes'[d] = Directory(Tree!Without(Listing(d), name))
          /\ d # e /\ e \notin W => nodes'[e] = Directory(Tree!With(Listing(e), newname, id))
          /\ d = e /\ e \notin W =>
                nodes'[e] = Directory(Tree!With(Tree!Without(Listing(d), name), newname, id))
      BY <2>2, MovedEffect DEF SlotsInv
    <2> QED
      BY <1>5, <2>1, <2>3
  <1>9. TypeOK'
    <2>1. \A s \in Slots : nodes'[s] = Noise \/ IsNode(nodes'[s])
      BY <1>4, <1>7, EditedIsNode DEF SlotsInv, TypeOK
    <2>2. DOMAIN inodes' \subseteq DOMAIN inodes /\ \A i \in DOMAIN inodes' : inodes'[i] = inodes[i]
      BY <1>3 DEF Restrict
    <2>3. failed' \in BOOLEAN /\ dangling' \subseteq Slots
      BY <1>3 DEF SlotsInv, TypeOK
    <2> QED
      BY <1>3, <1>5, <1>7, <2>1, <2>2, <2>3, WipedTyped
  <1>10. SlotsSafe'
    <2>1. \A h \in DOMAIN files : /\ files[h].head \notin R \ dangling
                                  /\ files[h].slots \intersect R \subseteq dangling
      BY <1>5 DEF SlotsInv, HandlesApart
    <2>2. \A f \in Files : nodes[f].slots \intersect R \subseteq dangling
      BY <1>5 DEF SlotsInv, DataApart
    <2>3. \A s \in Slots \ (R \ {e}) : ~IsDirectory(s) => nodes'[s] = nodes[s]
      BY <1>7
    <2>4. \A s \in Slots \ (R \union dangling') : free'[s] > 0 => free[s] > 0
      BY <1>3, FreedAllIs
    <2>5. R \ {e} \in SUBSET Slots
      BY <1>5
    <2>6. /\ \A s \in Slots \ ((R \ {e}) \union dangling') : free'[s] > 0 => free[s] > 0
          /\ \A h \in DOMAIN files : /\ files[h].head \notin (R \ {e}) \ dangling
                                     /\ files[h].slots \intersect (R \ {e}) \subseteq dangling
          /\ \A f \in Files \ (R \ {e}) : nodes[f].slots \intersect (R \ {e}) \subseteq dangling
      BY <1>3, <1>5, <2>1, <2>2, <2>4
    <2> QED
      BY <1>3, <1>6, <1>7, <2>3, <2>5, <2>6, WipedSafe
  <1>11. dangling' # {} => lost'
    BY <1>3 DEF SlotsInv
  <1> QED
    BY <1>6, <1>9, <1>10, <1>11 DEF SlotsInv, SlotsSafe

(* The entry of the source is gone, with R what was to be replaced; or, if    *)
(* what is moved cannot be read, with nothing.                               *)
LEMMA SourceGoneSafe ==
    ASSUME SlotsInv, NEW d \in Slots, IsDirectory(d), NEW name \in DOMAIN Listing(d),
           NEW R \in SUBSET (Slots \ {Root}),
           nodes' = Wiped(SourceWritten(d, name), R), free' = FreedAll(R),
           dangling' = dangling \union R, nextIno' = nextIno, files' = files,
           DOMAIN inodes' \subseteq DOMAIN inodes, \A i \in DOMAIN inodes' : inodes'[i] = inodes[i],
           failed' \in BOOLEAN, lost' \in BOOLEAN, lost'
    PROVE  SlotsInv'
  <1>1. /\ DOMAIN nodes' = Slots /\ \A s \in Slots : s \in R => nodes'[s] = Noise
        /\ d \notin R => nodes'[d] = Directory(Tree!Without(Listing(d), name))
        /\ \A s \in Slots \ {d} : s \notin R => nodes'[s] = nodes[s]
    BY CutEffect DEF SlotsInv
  <1>2. name \in Names /\ Listing(d)[name] \in Slots
    BY NodeShape DEF SlotsInv
  <1>3. \A s \in R : nodes'[s] = Noise /\ s \in dangling'
    BY <1>1
  <1>4. TypeOK'
    <2>1. \A s \in Slots \ R : IsNode(nodes'[s])
      BY <1>1, <1>2, EditedIsNode DEF SlotsInv, TypeOK
    <2>2. dangling \subseteq dangling' /\ dangling' \subseteq Slots
      BY DEF SlotsInv, TypeOK
    <2> QED
      BY <1>1, <1>3, <2>1, <2>2, WipedTyped
  <1>5. SlotsSafe'
    <2>1. SameKinds(Slots \ R)
      BY CutKinds DEF SlotsInv
    <2>2. \A s \in Slots \ R : ~IsDirectory(s) => nodes'[s] = nodes[s]
      BY <1>1
    <2> QED
      BY <1>3, <2>1, <2>2, FreedAllIs, WipedSafe
  <1>6. EntriesApart'
    BY DanglingEntries
  <1> QED
    BY <1>4, <1>5, <1>6 DEF SlotsInv, SlotsSafe

LEMMA NotRenamedSafe ==
    ASSUME SlotsInv, NoneOverOpen, NEW d \in Slots, IsDirectory(d), NEW e \in Slots, IsDirectory(e),
           NEW name \in DOMAIN Listing(d), NEW newname,
           MayAsk(d, name, e, newname), NotRenamed(d, name, e, newname),
           nextIno' = nextIno, files' = files, lost' \in BOOLEAN, lost'
    PROVE  SlotsInv'
  <1>1. PICK R : R = Replaced(e, newname)
    OBVIOUS
  <1>2. R \in SUBSET (Slots \ {Root})
    BY <1>1, ReplacedIs
  <1>3. /\ nodes' = Wiped(SourceWritten(d, name), R) /\ free' = FreedAll(R)
        /\ dangling' = dangling \union R /\ failed' = TRUE
        /\ inodes' = Restrict(inodes, {ino \in DOMAIN inodes : inodes[ino] \notin R})
    BY <1>1 DEF NotRenamed, ReplacedFreed
  <1>4. DOMAIN inodes' \subseteq DOMAIN inodes /\ \A i \in DOMAIN inodes' : inodes'[i] = inodes[i]
    BY <1>3 DEF Restrict
  <1> QED
    BY <1>2, <1>3, <1>4, SourceGoneSafe

LEMMA NotReadSafe ==
    ASSUME SlotsInv, NEW d \in Slots, IsDirectory(d), NEW name \in DOMAIN Listing(d),
           NotRead(d, name), nextIno' = nextIno, files' = files, lost' \in BOOLEAN, lost'
    PROVE  SlotsInv'
  <1>1. PICK R : R = {}
    OBVIOUS
  <1>2. nodes' = Wiped(SourceWritten(d, name), R)
    BY <1>1, NothingWiped DEF NotRead, SlotsInv
  <1>3. free' = FreedAll(R)
    BY <1>1 DEF FreedAll, NotRead, SlotsInv, TypeOK
  <1>4. dangling' = dangling \union R /\ R \in SUBSET (Slots \ {Root})
    BY <1>1 DEF NotRead
  <1>5. inodes' = inodes /\ failed' = TRUE
    BY DEF NotRead
  <1> QED
    BY <1>2, <1>3, <1>4, <1>5, SourceGoneSafe

LEMMA SameNodesEntries ==
    ASSUME EntriesApart, TreeKept, dangling' = dangling
    PROVE  EntriesApart'
  <1>1. \A x, m, s : Leads(x, m, s)' <=> Leads(x, m, s)
    BY LeadsKept
  <1>2. \A s \in Slots : (IsFile(s)' <=> IsFile(s)) /\ (IsDirectory(s)' <=> IsDirectory(s))
    BY DEF TreeKept
  <1> QED
    BY <1>1, <1>2, SlotsAssumption DEF EntriesApart

(* The nodes in slots that a rename freed become what they may, but no       *)
(* directory changes there.                                                  *)
LEMMA DanglingWritten ==
    ASSUME EntriesApart, dangling' = dangling, SameKinds(Slots \ dangling),
           \A s \in Slots : IsDirectory(s)' => nodes'[s] = nodes[s]
    PROVE  EntriesApart'
  <1>1. \A x, m, s : Leads(x, m, s)' => Leads(x, m, s)
    BY DEF Leads, IsDirectory, Listing
  <1>2. Root \notin dangling
    BY DEF EntriesApart
  <1> QED
    BY <1>1, <1>2, FewerEntries

NodesKept == DOMAIN nodes' = Slots /\ \A s \in Slots : nodes'[s] = nodes[s]

LEMMA SameNodesKept ==
    ASSUME NodesKept
    PROVE  TreeKept /\ Files' = Files
  BY DEF NodesKept, TreeKept, IsDirectory, IsFile, Files

(* A request that leaves slots and handles as they are. *)
LEMMA StillSafe ==
    ASSUME SlotsInv, NodesKept, UNCHANGED <<free, files>>,
           DOMAIN inodes' \subseteq 1..MaxInodes, Range(inodes)' \subseteq Slots,
           nextIno' \in 2..(MaxInodes + 1), failed' \in BOOLEAN, lost' = lost, dangling' = dangling
    PROVE  SlotsInv'
  <1>1. EntriesApart' /\ Files' = Files
    BY SameNodesEntries, SameNodesKept DEF SlotsInv
  <1>2. FreeIsNoise'
    BY DEF SlotsInv, FreeIsNoise, NodesKept
  <1>3. DataApart'
    <2>1. \A f \in Files : nodes[f].slots \subseteq Slots /\ f \in Slots
      BY NodeShape DEF SlotsInv, Files
    <2> QED
      BY <1>1, <2>1 DEF SlotsInv, DataApart, NodesKept
  <1>4. HandlesApart'
    <2>1. \A h \in DOMAIN files : files[h].head \in Slots /\ files[h].slots \subseteq Slots
      BY HandleTyped DEF SlotsInv
    <2>2. Files \subseteq Slots
      BY DEF Files
    <2> QED
      BY <1>1, <2>1, <2>2 DEF SlotsInv, HandlesApart, NodesKept, IsFile
  <1>5. TypeOK'
    BY DEF SlotsInv, TypeOK, NodesKept
  <1> QED
    BY <1>1, <1>2, <1>3, <1>4, <1>5 DEF SlotsInv

(* A request that was refused. *)
LEMMA NothingSafe ==
    ASSUME SlotsInv, NodesKept, failed' \in BOOLEAN, lost' = lost, dangling' = dangling,
           UNCHANGED <<free, inodes, nextIno, files>>
    PROVE  SlotsInv'
  <1>1. /\ DOMAIN inodes' \subseteq 1..MaxInodes /\ Range(inodes)' \subseteq Slots
        /\ nextIno' \in 2..(MaxInodes + 1)
    BY DEF SlotsInv, TypeOK
  <1> QED
    BY <1>1, StillSafe

LEMMA NotAddedIs ==
    ASSUME TypeOK, FreeIsNoise, NEW d, NotAdded(d)
    PROVE  /\ failed' = TRUE /\ UNCHANGED <<free, inodes, nextIno, files>>
           /\ NodesKept \/ /\ HasSpace /\ NextFree \in dangling
                           /\ nodes' = Wiped(nodes, {NextFree})
  <1>1. CASE Refused
    BY <1>1 DEF Refused, NodesKept, TypeOK
  <1>2. CASE HasSpace /\ nodes' = Wiped(nodes, {NextFree}) /\ NextFree \in dangling
    BY <1>2 DEF NotAdded, Refused
  <1>3. CASE HasSpace /\ nodes' = Wiped(nodes, {NextFree}) /\ NextFree \notin dangling
    <2>1. nodes[NextFree] = Noise
      BY <1>3, NextFreeIs
    <2>2. NodesKept
      BY <1>3, <2>1 DEF Wiped, NodesKept
    <2> QED
      BY <1>3, <2>2 DEF NotAdded, Refused
  <1> QED
    BY <1>1, <1>2, <1>3 DEF NotAdded

LEMMA NotAddedSafe ==
    ASSUME SlotsInv, NEW d, NotAdded(d), lost' = lost, dangling' = dangling
    PROVE  SlotsInv'
  <1>1. failed' = TRUE /\ UNCHANGED <<free, inodes, nextIno, files>>
    BY NotAddedIs DEF SlotsInv
  <1>2. CASE NodesKept
    BY <1>1, <1>2, NothingSafe
  <1>3. CASE HasSpace /\ NextFree \in dangling /\ nodes' = Wiped(nodes, {NextFree})
    <2>1. PICK R : R = {NextFree}
      OBVIOUS
    <2>2. R \in SUBSET Slots /\ R \subseteq dangling
      BY <1>3, <2>1 DEF SlotsInv, TypeOK
    <2>3. DOMAIN nodes' = Slots /\ \A s \in Slots : nodes'[s] = IF s \in R THEN Noise ELSE nodes[s]
      BY <1>3, <2>1 DEF Wiped
    <2>4. TypeOK'
      BY <1>1, <2>3, IsNodes DEF SlotsInv, TypeOK
    <2>5. \A s \in R : ~IsDirectory(s)' /\ nodes'[s] = Noise
      BY <2>2, <2>3, Kinds DEF IsDirectory
    <2>6. SameKinds(Slots \ R) /\ SameKinds(Slots \ dangling)
      BY <2>2, <2>3 DEF SameKinds, IsFile, IsDirectory
    <2>7. EntriesApart'
      BY <2>3, <2>5, <2>6, DanglingWritten DEF SlotsInv
    <2>8. SlotsSafe'
      BY <1>1, <2>2, <2>3, <2>5, <2>6, WipedSafe
    <2> QED
      BY <2>4, <2>7, <2>8 DEF SlotsInv, SlotsSafe
  <1> QED
    BY <1>2, <1>3, NotAddedIs DEF SlotsInv

LEMMA OpenSafe ==
    ASSUME SlotsInv, NEW h \in Handles, Open(h), lost' = lost, dangling' = dangling
    PROVE  SlotsInv'
  <1>1. PICK head \in Range(inodes) :
           /\ IsFile(head) /\ ~IsOpen(head)
           /\ files' = Tree!With(files, h, [head |-> head, slots |-> nodes[head].slots, dirty |-> FALSE])
    BY DEF Open
  <1>2. /\ h \notin DOMAIN files /\ failed' = FALSE
        /\ UNCHANGED <<nodes, free, inodes, nextIno>>
    BY DEF Open
  <1>3. head \in Files /\ head \in Slots /\ nodes[head].slots \subseteq Slots
    BY <1>1, NodeShape DEF SlotsInv, TypeOK, Files
  <1>4. /\ DOMAIN files' = DOMAIN files \union {h}
        /\ files'[h] = [head |-> head, slots |-> nodes[head].slots, dirty |-> FALSE]
        /\ \A k \in DOMAIN files : files'[k] = files[k]
    BY <1>1, <1>2 DEF Tree!With
  <1>5. EntriesApart'
    <2>1. NodesKept
      BY <1>2 DEF NodesKept, SlotsInv, TypeOK
    <2> QED
      BY <2>1, SameNodesEntries, SameNodesKept DEF SlotsInv
  <1>6. TypeOK'
    <2>1. /\ DOMAIN files' \subseteq Handles
          /\ \A k \in DOMAIN files' : files'[k] \in OpenFile
      <3>1. DOMAIN files' \subseteq Handles
        BY <1>4 DEF SlotsInv, TypeOK
      <3>2. files'[h] \in OpenFile
        BY <1>3, <1>4 DEF OpenFile
      <3> QED
        BY <1>4, <3>1, <3>2 DEF SlotsInv, TypeOK
    <2> QED
      BY <1>2, <2>1 DEF SlotsInv, TypeOK
  <1>7. FreeIsNoise' /\ DataApart' /\ Files' = Files
    BY <1>2 DEF SlotsInv, FreeIsNoise, DataApart, Files, IsFile
  <1>8. \A k \in DOMAIN files : /\ files[k].head # head
                                /\ files[k].slots \intersect nodes[head].slots \subseteq dangling
    BY <1>1, <1>3 DEF IsOpen, SlotsInv, HandlesApart
  <1>9. \A s \in nodes[head].slots \ dangling :
           nodes[s] = FileDataBlock /\ \A g \in Files \ {head} : s \notin nodes[g].slots
    BY <1>3 DEF SlotsInv, DataApart
  <1>10. HandlesApart'
    <2> SUFFICES ASSUME NEW k \in DOMAIN files'
                 PROVE  /\ files'[k].head \notin dangling =>
                              /\ IsFile(files[k].head)'
                              /\ \A j \in DOMAIN files' \ {k} : files'[j].head # files'[k].head
                        /\ \A s \in files'[k].slots \ dangling :
                              /\ nodes'[s] = FileDataBlock
                              /\ \A g \in Files' \ {files'[k].head} : s \notin nodes'[g].slots
                              /\ \A j \in DOMAIN files' \ {k} : s \notin files'[j].slots
      BY DEF HandlesApart
    <2>1. CASE k = h
      <3>1. files'[k].head = head /\ files'[k].slots = nodes[head].slots
        BY <1>4, <2>1
      <3>2. IsFile(files[k].head)'
        BY <1>1, <1>2, <3>1 DEF IsFile
      <3> QED
        BY <1>2, <1>4, <1>7, <1>8, <1>9, <2>1, <3>1, <3>2
    <2>2. CASE k # h
      <3>1. k \in DOMAIN files /\ files'[k] = files[k]
        BY <1>4, <2>2
      <3>2. files[k].head \notin dangling => IsFile(files[k].head)'
        BY <1>2, <3>1 DEF SlotsInv, HandlesApart, IsFile
      <3>3. files'[h].head = head /\ files'[h].slots = nodes[head].slots
        BY <1>4
      <3> QED
        BY <1>2, <1>4, <1>7, <1>8, <3>1, <3>2, <3>3 DEF SlotsInv, HandlesApart
    <2> QED
      BY <2>1, <2>2
  <1> QED
    BY <1>5, <1>6, <1>7, <1>10 DEF SlotsInv

LEMMA FlushedSafe ==
    ASSUME SlotsInv, NEW hs \in SUBSET DOMAIN files, nodes' = Flushed(hs),
           DOMAIN files' \subseteq DOMAIN files,
           \A h \in DOMAIN files' : /\ files'[h].head = files[h].head
                                    /\ files'[h].slots = files[h].slots /\ files'[h] \in OpenFile,
           free' \in [Slots -> Nat], \A s \in Slots \ dangling : free'[s] <= 1,
           \A s \in Slots : free'[s] > 0 => free[s] > 0,
           DOMAIN inodes' \subseteq 1..MaxInodes, Range(inodes)' \subseteq Slots,
           nextIno' \in 2..(MaxInodes + 1), failed' \in BOOLEAN, lost' = lost, dangling' = dangling
    PROVE  SlotsInv' /\ (dangling = {} => TreeKept /\ Files' = Files)
  <1>1. /\ DOMAIN nodes' = Slots
        /\ \A s \in Slots \ dangling : ~IsFile(s) => nodes'[s] = nodes[s]
        /\ \A s \in Slots : nodes'[s] = nodes[s]
             \/ \E h \in hs : files[h].head = s /\ nodes'[s] = FileBlock(files[h].slots)
    BY FlushedEffect DEF SlotsInv
  <1>2. \A s \in Slots : /\ IsFile(s) => IsFile(s)'
                         /\ IsDirectory(s)' => nodes'[s] = nodes[s]
                         /\ s \notin dangling => /\ IsFile(s)' <=> IsFile(s)
                                                 /\ IsDirectory(s)' <=> IsDirectory(s)
    <2> TAKE s \in Slots
    <2>1. CASE nodes'[s] = nodes[s]
      BY <2>1 DEF IsFile, IsDirectory
    <2>2. CASE nodes'[s] # nodes[s]
      <3>1. IsFile(s)' /\ ~IsDirectory(s)'
        BY <1>1, <2>2, Kinds DEF IsFile, IsDirectory
      <3>2. s \notin dangling => IsFile(s) /\ ~IsDirectory(s)
        BY <1>1, <2>2 DEF IsFile, IsDirectory
      <3> QED
        BY <3>1, <3>2
    <2> QED
      BY <2>1, <2>2
  <1>3. dangling = {} => TreeKept /\ Files' = Files
    <2>1. \A s \in Slots \ dangling : IsDirectory(s) => ~IsFile(s)
      BY DEF IsDirectory, IsFile
    <2> QED
      BY <1>1, <1>2, <2>1 DEF TreeKept, Files
  <1>4. \A h \in DOMAIN files : files[h].slots \subseteq Slots
    BY HandleTyped DEF SlotsInv
  <1>5. \A f \in Files : f \in Slots /\ nodes[f].slots \subseteq Slots
    BY NodeShape DEF SlotsInv, Files
  <1>6. \A f \in Files' :
           \/ f \in Files /\ nodes'[f].slots = nodes[f].slots
           \/ \E h \in DOMAIN files : files[h].head = f /\ nodes'[f].slots = files[h].slots
    <2> TAKE f \in Files'
    <2>1. f \in Slots /\ IsFile(f)'
      BY DEF Files
    <2> QED
      BY <1>1, <2>1, Kinds DEF Files, IsFile
  <1>7. \A s \in Slots \ dangling : nodes[s] = FileDataBlock => nodes'[s] = FileDataBlock
    BY <1>1, Kinds DEF IsFile
  <1>8. EntriesApart'
    BY <1>2, DanglingWritten DEF SlotsInv, SameKinds
  <1>9. FreeIsNoise'
    <2>1. \A s \in Slots \ dangling : nodes[s] = Noise => nodes'[s] = Noise
      BY <1>1, Kinds DEF IsFile
    <2> QED
      BY <2>1 DEF SlotsInv, FreeIsNoise
  <1>10. \A h \in DOMAIN files : \A s \in files[h].slots \ dangling :
            /\ s \in Slots /\ nodes'[s] = FileDataBlock
            /\ \A g \in Files' \ {files[h].head} : s \notin nodes'[g].slots
            /\ \A k \in DOMAIN files \ {h} : s \notin files[k].slots
    <2> TAKE h \in DOMAIN files
    <2> TAKE s \in files[h].slots \ dangling
    <2>1. /\ s \in Slots \ dangling /\ nodes[s] = FileDataBlock
          /\ \A g \in Files \ {files[h].head} : s \notin nodes[g].slots
          /\ \A k \in DOMAIN files \ {h} : s \notin files[k].slots
      BY <1>4 DEF SlotsInv, HandlesApart
    <2>2. \A g \in Files' \ {files[h].head} : s \notin nodes'[g].slots
      BY <1>6, <2>1
    <2> QED
      BY <1>7, <2>1, <2>2
  <1>11. DataApart'
    <2> SUFFICES ASSUME NEW f \in Files', NEW s \in nodes'[f].slots \ dangling
                 PROVE  /\ nodes'[s] = FileDataBlock
                        /\ \A g \in Files' \ {f} : s \notin nodes'[g].slots
      BY DEF DataApart
    <2>1. CASE f \in Files /\ s \in nodes[f].slots
      <3>1. s \in Slots /\ nodes[s] = FileDataBlock /\ \A g \in Files \ {f} : s \notin nodes[g].slots
        BY <1>5, <2>1 DEF SlotsInv, DataApart
      <3>2. \A h \in DOMAIN files : files[h].head # f => s \notin files[h].slots
        BY <2>1 DEF SlotsInv, HandlesApart
      <3> QED
        BY <1>6, <1>7, <3>1, <3>2
    <2>2. CASE \E h \in DOMAIN files : files[h].head = f /\ s \in files[h].slots
      BY <1>10, <2>2
    <2> QED
      BY <1>6, <2>1, <2>2
  <1>12. HandlesApart'
    <2> SUFFICES ASSUME NEW h \in DOMAIN files'
                 PROVE  /\ files'[h].head \notin dangling =>
                              /\ IsFile(files[h].head)'
                              /\ \A k \in DOMAIN files' \ {h} : files'[k].head # files'[h].head
                        /\ \A s \in files'[h].slots \ dangling :
                              /\ nodes'[s] = FileDataBlock
                              /\ \A g \in Files' \ {files'[h].head} : s \notin nodes'[g].slots
                              /\ \A k \in DOMAIN files' \ {h} : s \notin files'[k].slots
      BY DEF HandlesApart
    <2>1. /\ h \in DOMAIN files /\ files'[h].head = files[h].head /\ files'[h].slots = files[h].slots
          /\ files[h].head \in Slots
      BY HandleTyped DEF SlotsInv
    <2>2. files[h].head \notin dangling => IsFile(files[h].head)'
      <3>1. PICK s : s = files[h].head
        OBVIOUS
      <3>2. s \notin dangling => IsFile(s)'
        BY <1>2, <2>1, <3>1 DEF SlotsInv, HandlesApart
      <3> QED
        BY <2>1, <3>1, <3>2 DEF IsFile
    <2>3. files[h].head \notin dangling => \A k \in DOMAIN files \ {h} : files[k].head # files[h].head
      BY <2>1 DEF SlotsInv, HandlesApart
    <2> QED
      BY <1>10, <2>1, <2>2, <2>3
  <1>13. TypeOK'
    <2>1. \A s \in Slots : IsNode(nodes'[s])
      <3> TAKE s \in Slots
      <3>1. CASE nodes'[s] = nodes[s]
        BY <3>1 DEF SlotsInv, TypeOK
      <3>2. CASE nodes'[s] # nodes[s]
        BY <1>1, <1>4, <3>2, IsNodes
      <3> QED
        BY <3>1, <3>2
    <2>2. /\ DOMAIN files' \subseteq Handles
          /\ \A h \in DOMAIN files' : files'[h] \in OpenFile
      BY DEF SlotsInv, TypeOK
    <2>3. lost' \in BOOLEAN /\ dangling' \subseteq Slots
      BY DEF SlotsInv, TypeOK
    <2> QED
      BY <1>1, <2>1, <2>2, <2>3 DEF TypeOK
  <1> QED
    BY <1>3, <1>8, <1>9, <1>11, <1>12, <1>13 DEF SlotsInv

LEMMA RemountFree ==
    ASSUME TypeOK, NEW F, F = [s \in Slots |-> Min({free[s], 1})]
    PROVE  F \in [Slots -> Nat] /\ \A s \in Slots : F[s] <= 1 /\ (F[s] > 0 => free[s] > 0)
  <1> SUFFICES ASSUME NEW s \in Slots
               PROVE  /\ Min({free[s], 1}) \in Nat /\ Min({free[s], 1}) <= 1
                      /\ Min({free[s], 1}) > 0 => free[s] > 0
    OBVIOUS
  <1>1. {free[s], 1} \in SUBSET Nat /\ {free[s], 1} # {}
    BY DEF TypeOK
  <1>2. Min({free[s], 1}) \in {free[s], 1} /\ \A y \in {free[s], 1} : Min({free[s], 1}) <= y
    BY <1>1, LeastExists
  <1> QED
    BY <1>1, <1>2

(* The handle after a write-through to the slot new. *)
LEMMA WrittenHandle ==
    ASSUME TypeOK, NEW h \in DOMAIN files, NEW new \in Slots,
           files' = [files EXCEPT ![h].slots = @ \union {new}, ![h].dirty = TRUE]
    PROVE  /\ DOMAIN files' = DOMAIN files /\ \A k \in DOMAIN files \ {h} : files'[k] = files[k]
           /\ files'[h] \in OpenFile
           /\ files'[h].head = files[h].head /\ files'[h].slots = files[h].slots \union {new}
  <1>1. files[h] \in OpenFile
    BY DEF TypeOK
  <1>2. files'[h] = [files[h] EXCEPT !.slots = @ \union {new}, !.dirty = TRUE]
    OBVIOUS
  <1>3. /\ files'[h] \in OpenFile
        /\ files'[h].head = files[h].head /\ files'[h].slots = files[h].slots \union {new}
    BY <1>1, <1>2 DEF OpenFile
  <1> QED
    BY <1>3

LEMMA FlushedHandle ==
    ASSUME TypeOK, NEW h \in DOMAIN files, files' = [files EXCEPT ![h].dirty = FALSE]
    PROVE  /\ DOMAIN files' = DOMAIN files
           /\ \A k \in DOMAIN files : /\ files'[k] \in OpenFile /\ files'[k].head = files[k].head
                                      /\ files'[k].slots = files[k].slots
  <1>1. \A k \in DOMAIN files : files[k] \in OpenFile
    BY DEF TypeOK
  <1>2. files'[h] = [files[h] EXCEPT !.dirty = FALSE]
    OBVIOUS
  <1>3. files'[h] \in OpenFile /\ files'[h].head = files[h].head /\ files'[h].slots = files[h].slots
    BY <1>1, <1>2 DEF OpenFile
  <1> QED
    BY <1>1, <1>3

LEMMA WriteThroughSafe ==
    ASSUME SlotsInv, HasSpace, NEW h \in DOMAIN files, WriteThrough(h),
           lost' = lost, dangling' = dangling
    PROVE  SlotsInv' /\ (dangling = {} => TreeKept /\ Files' = Files)
  <1>1. PICK new : new = NextFree
    OBVIOUS
  <1>2. /\ new \in Slots /\ free[new] \in Nat \ {0}
        /\ new \notin dangling => /\ free[new] = 1 /\ nodes[new] = Noise
                                  /\ ~IsFile(new) /\ ~IsDirectory(new)
    BY <1>1, NextFreeIs DEF SlotsInv
  <1>3. /\ nodes' = [nodes EXCEPT ![new] = FileDataBlock]
        /\ free' = [free EXCEPT ![new] = free[new] - 1]
        /\ files' = [files EXCEPT ![h].slots = @ \union {new}, ![h].dirty = TRUE]
        /\ failed' = FALSE /\ UNCHANGED <<inodes, nextIno>>
    BY <1>1 DEF WriteThrough, Taken, Refused
  <1>4. /\ DOMAIN files' = DOMAIN files /\ \A k \in DOMAIN files \ {h} : files'[k] = files[k]
        /\ files'[h] \in OpenFile
        /\ files'[h].head = files[h].head /\ files'[h].slots = files[h].slots \union {new}
    BY <1>2, <1>3, WrittenHandle DEF SlotsInv
  <1>5. DOMAIN nodes' = Slots /\ nodes'[new] = FileDataBlock /\ \A s \in Slots \ {new} : nodes'[s] = nodes[s]
    BY <1>2, <1>3 DEF SlotsInv, TypeOK
  <1>6. ~IsFile(new)' /\ ~IsDirectory(new)'
    BY <1>5, Kinds DEF IsFile, IsDirectory
  <1>7. dangling = {} => TreeKept /\ Files' = Files
    BY <1>2, <1>5, <1>6 DEF TreeKept, Files, IsFile, IsDirectory
  <1>8. EntriesApart'
    <2>1. SameKinds(Slots \ dangling)
      BY <1>2, <1>5, <1>6 DEF SameKinds, IsFile, IsDirectory
    <2> QED
      BY <1>5, <1>6, <2>1, DanglingWritten DEF SlotsInv
  <1>9. FreeIsNoise'
    <2> SUFFICES ASSUME NEW s \in Slots \ dangling, free'[s] > 0 PROVE nodes'[s] = Noise
      BY DEF FreeIsNoise
    <2>1. s # new /\ free[s] > 0
      BY <1>2, <1>3 DEF SlotsInv, TypeOK
    <2> QED
      BY <1>5, <2>1 DEF SlotsInv, FreeIsNoise
  <1>10. TypeOK'
    <2>1. \A s \in Slots : IsNode(nodes'[s])
      BY <1>5, IsNodes DEF SlotsInv, TypeOK
    <2>2. free' \in [Slots -> Nat] /\ \A s \in Slots \ dangling : free'[s] <= 1
      BY <1>2, <1>3 DEF SlotsInv, TypeOK
    <2> QED
      BY <1>3, <1>4, <1>5, <2>1, <2>2 DEF SlotsInv, TypeOK
  <1>11. \A s \in Slots \ dangling : nodes[s] = FileDataBlock => nodes'[s] = FileDataBlock /\ s # new
    BY <1>2, <1>5, Kinds
  <1>12. \A f \in Files' : /\ f \in Files /\ nodes'[f] = nodes[f] /\ nodes[f].slots \subseteq Slots
                           /\ new \in nodes[f].slots => new \in dangling
    <2> TAKE f \in Files'
    <2>1. f \in Slots /\ f # new
      BY <1>6 DEF Files
    <2>2. f \in Files /\ nodes'[f] = nodes[f]
      BY <1>5, <2>1 DEF Files, IsFile
    <2>3. nodes[f].slots \subseteq Slots
      BY <2>1, <2>2, NodeShape DEF SlotsInv, Files
    <2> QED
      BY <1>2, <2>2, <2>3, Kinds DEF SlotsInv, DataApart
  <1>13. DataApart'
    <2> SUFFICES ASSUME NEW f \in Files', NEW s \in nodes'[f].slots \ dangling
                 PROVE  /\ nodes'[s] = FileDataBlock
                        /\ \A g \in Files' \ {f} : s \notin nodes'[g].slots
      BY DEF DataApart
    <2>1. f \in Files /\ s \in nodes[f].slots /\ s \in Slots
      BY <1>12
    <2> QED
      BY <1>11, <1>12, <2>1 DEF SlotsInv, DataApart
  <1>14. \A k \in DOMAIN files : /\ files[k].slots \subseteq Slots /\ files[k].head \in Slots
                                 /\ new \in files[k].slots => new \in dangling
                                 /\ files[k].head \notin dangling => files[k].head \in Files'
    <2> TAKE k \in DOMAIN files
    <2>1. files[k].slots \subseteq Slots /\ files[k].head \in Slots
      BY HandleTyped DEF SlotsInv
    <2>2. new \in files[k].slots => new \in dangling
      BY <1>2, Kinds DEF SlotsInv, HandlesApart
    <2>3. files[k].head \notin dangling => IsFile(files[k].head) /\ files[k].head # new
      BY <1>2 DEF SlotsInv, HandlesApart
    <2> QED
      BY <1>5, <2>1, <2>2, <2>3 DEF Files, IsFile
  <1>15. HandlesApart'
    <2> SUFFICES ASSUME NEW k \in DOMAIN files
                 PROVE  /\ files'[k].head \notin dangling =>
                              /\ IsFile(files[k].head)'
                              /\ \A j \in DOMAIN files \ {k} : files'[j].head # files'[k].head
                        /\ \A s \in files'[k].slots \ dangling :
                              /\ nodes'[s] = FileDataBlock
                              /\ \A g \in Files' \ {files'[k].head} : s \notin nodes'[g].slots
                              /\ \A j \in DOMAIN files \ {k} : s \notin files'[j].slots
      BY <1>4 DEF HandlesApart
    <2>1. files'[k].head = files[k].head
      BY <1>4
    <2>2. files'[k].head \notin dangling => IsFile(files[k].head)'
      <3>1. files'[k].head \notin dangling => files'[k].head \in Files'
        BY <1>14, <2>1
      <3> QED
        BY <3>1 DEF Files, IsFile
    <2>3. files'[k].head \notin dangling => \A j \in DOMAIN files \ {k} : files'[j].head # files'[k].head
      BY <1>4 DEF SlotsInv, HandlesApart
    <2>4. ASSUME NEW s \in files[k].slots \ dangling
          PROVE  /\ nodes'[s] = FileDataBlock
                 /\ \A g \in Files' \ {files'[k].head} : s \notin nodes'[g].slots
                 /\ \A j \in DOMAIN files \ {k} : s \notin files'[j].slots
      <3>1. /\ s \in Slots \ dangling /\ nodes[s] = FileDataBlock
            /\ \A g \in Files \ {files[k].head} : s \notin nodes[g].slots
            /\ \A j \in DOMAIN files \ {k} : s \notin files[j].slots
        BY <1>14 DEF SlotsInv, HandlesApart
      <3> QED
        BY <1>4, <1>11, <1>12, <2>1, <3>1
    <2>5. CASE k # h
      BY <1>4, <2>2, <2>3, <2>4, <2>5
    <2>6. CASE k = h
      <3>1. new \notin dangling =>
               /\ nodes'[new] = FileDataBlock
               /\ \A g \in Files' : new \notin nodes'[g].slots
               /\ \A j \in DOMAIN files \ {k} : new \notin files'[j].slots
        BY <1>4, <1>5, <1>12, <1>14, <2>6
      <3> QED
        BY <1>4, <2>2, <2>3, <2>4, <2>6, <3>1
    <2> QED
      BY <2>5, <2>6
  <1> QED
    BY <1>7, <1>8, <1>9, <1>10, <1>13, <1>15 DEF SlotsInv

-----------------------------------------------------------------------------
(* Every request.                                                            *)

LEMMA ParentIs ==
    ASSUME TypeOK, NEW d \in Parents
    PROVE  d \in Slots /\ IsDirectory(d)
  BY DEF TypeOK, Parents

LEMMA RefusedIs ==
    ASSUME TypeOK, Refused
    PROVE  NodesKept /\ failed' = TRUE /\ UNCHANGED <<free, inodes, nextIno, files>>
  BY DEF Refused, NodesKept, TypeOK

LEMMA LookupSafe ==
    ASSUME SlotsInv, NEW d \in Slots, IsDirectory(d), NEW name, Lookup(d, name),
           lost' = lost, dangling' = dangling
    PROVE  SlotsInv' /\ NodesKept
  <1>1. PICK slot : slot = Listing(d)[name]
    OBVIOUS
  <1>2. CASE InodeGiven(slot) /\ failed' = FALSE /\ UNCHANGED <<nodes, free, files>>
    <2>1. slot \in Slots
      BY <1>1, NodeShape DEF Lookup, SlotsInv
    <2>2. /\ DOMAIN inodes' \subseteq 1..MaxInodes /\ Range(inodes)' \subseteq Slots
          /\ nextIno' \in 2..(MaxInodes + 1)
      BY <1>2, <2>1, InodeGivenTyped DEF SlotsInv
    <2>3. NodesKept
      BY <1>2 DEF NodesKept, SlotsInv, TypeOK
    <2> QED
      BY <1>2, <2>2, <2>3, StillSafe
  <1>3. CASE Refused
    BY <1>3, RefusedIs, NothingSafe DEF SlotsInv
  <1> QED
    BY <1>1, <1>2, <1>3 DEF Lookup

(* mkdir and create: what they add, or nothing. *)
LEMMA MadeIs ==
    ASSUME NEW d, NEW name, Mkdir(d, name) \/ Create(d, name)
    PROVE  \/ NotAdded(d)
           \/ \E node \in NewNodes :
                 /\ Added(d, name, node)
                 /\ \/ node = Directory(<<>>) /\ files' = files
                    \/ node = FileBlock({}) /\ \E h \in Handles \ DOMAIN files : Fresh(h, NextFree)
  BY DEF Mkdir, Create, NewNodes, Fresh

LEMMA MadeSafe ==
    ASSUME SlotsInv, NEW d \in Slots, IsDirectory(d), NEW name \in Names,
           Mkdir(d, name) \/ Create(d, name), lost' = lost, dangling' = dangling
    PROVE  SlotsInv'
  <1>1. CASE NotAdded(d)
    BY <1>1, NotAddedSafe
  <1>2. CASE \E node \in NewNodes :
                /\ Added(d, name, node)
                /\ \/ node = Directory(<<>>) /\ files' = files
                   \/ node = FileBlock({}) /\ \E h \in Handles \ DOMAIN files : Fresh(h, NextFree)
    <2>1. PICK new : new = NextFree
      OBVIOUS
    <2>2. PICK node \in NewNodes :
             /\ Added(d, name, node)
             /\ \/ files' = files
                \/ node = FileBlock({}) /\ \E h \in Handles \ DOMAIN files : Fresh(h, new)
      BY <1>2, <2>1
    <2>3. EntriesApart'
      BY <2>2, AddedEntries
    <2>4. TypeOK' /\ SlotsSafe'
      BY <2>1, <2>2, AddedSafe
    <2> QED
      BY <2>3, <2>4 DEF SlotsInv, SlotsSafe
  <1> QED
    BY <1>1, <1>2, MadeIs

(* flush, release, and unmount with the next mount. *)
LEMMA FlushesSafe ==
    ASSUME SlotsInv, lost' = lost, dangling' = dangling,
           (\E h \in DOMAIN files : Flush(h) \/ Release(h)) \/ Remount
    PROVE  SlotsInv' /\ (dangling = {} => TreeKept /\ Files' = Files)
  <1>1. /\ free \in [Slots -> Nat] /\ \A s \in Slots \ dangling : free[s] <= 1
        /\ DOMAIN inodes \subseteq 1..MaxInodes /\ Range(inodes) \subseteq Slots
        /\ nextIno \in 2..(MaxInodes + 1) /\ \A h \in DOMAIN files : files[h] \in OpenFile
    BY DEF SlotsInv, TypeOK
  <1>2. ASSUME NEW h \in DOMAIN files, Flush(h) \/ Release(h)
        PROVE  SlotsInv' /\ (dangling = {} => TreeKept /\ Files' = Files)
    <2>1. /\ nodes' = Flushed({h}) /\ failed' = FALSE /\ UNCHANGED <<free, inodes, nextIno>>
          /\ {h} \in SUBSET DOMAIN files
      BY <1>2 DEF Flush, Release
    <2>2. /\ DOMAIN files' \subseteq DOMAIN files
          /\ \A k \in DOMAIN files' : /\ files'[k].head = files[k].head
                                      /\ files'[k].slots = files[k].slots /\ files'[k] \in OpenFile
      <3>1. CASE Flush(h)
        BY <3>1, FlushedHandle DEF SlotsInv, Flush
      <3>2. CASE Release(h)
        BY <1>1, <3>2 DEF Release, Restrict
      <3> QED
        BY <1>2, <3>1, <3>2
    <2> QED
      BY <1>1, <2>1, <2>2, FlushedSafe
  <1>3. CASE Remount
    <2>1. /\ nodes' = Flushed(DOMAIN files) /\ failed' = FALSE /\ files' = <<>>
          /\ inodes' = [ino \in {RootIno} |-> Root] /\ nextIno' = RootIno + 1
      BY <1>3 DEF Remount
    <2>2. free' \in [Slots -> Nat] /\ \A s \in Slots : free'[s] <= 1 /\ (free'[s] > 0 => free[s] > 0)
      BY <1>3, RemountFree DEF SlotsInv, Remount
    <2>3. DOMAIN <<>> = {}
      OBVIOUS
    <2>4. /\ DOMAIN inodes' \subseteq 1..MaxInodes /\ Range(inodes)' \subseteq Slots
          /\ nextIno' \in 2..(MaxInodes + 1)
      BY <2>1, SlotsAssumption, BoundsAssumption DEF RootIno, Range
    <2>5. /\ DOMAIN files' \subseteq DOMAIN files
          /\ \A k \in DOMAIN files' : /\ files'[k].head = files[k].head
                                      /\ files'[k].slots = files[k].slots /\ files'[k] \in OpenFile
      BY <2>1, <2>3
    <2> QED
      BY <2>1, <2>2, <2>4, <2>5, FlushedSafe
  <1> QED
    BY <1>2, <1>3

LEMMA RenameIs ==
    ASSUME NEW d, NEW e, NEW name, NEW newname, Rename(d, name, e, newname)
    PROVE  /\ name \in DOMAIN Listing(d) /\ MayAsk(d, name, e, newname)
           /\ nextIno' = nextIno /\ files' = files /\ (lost => lost')
           /\ \/ Renamed(d, name, e, newname)
              \/ (NotRenamed(d, name, e, newname) \/ NotRead(d, name)) /\ lost'
  <1>1. (NotRenamed(d, name, e, newname) \/ NotRead(d, name)) => failed'
    BY DEF NotRenamed, NotRead
  <1>2. (lost => lost') /\ (failed' => lost')
    BY DEF Rename
  <1> QED
    BY <1>1, <1>2 DEF Rename

LEMMA RenameSafe ==
    ASSUME SlotsInv, NoneOverOpen, NEW d \in Slots, IsDirectory(d), NEW e \in Slots, IsDirectory(e),
           NEW name, NEW newname \in Names, Rename(d, name, e, newname)
    PROVE  SlotsInv'
  <1>1. lost' \in BOOLEAN
    BY DEF Rename, SlotsInv, TypeOK
  <1> QED
    BY <1>1, RenameIs, RenamedSafe, NotRenamedSafe, NotReadSafe

LEMMA SlotsStep ==
    ASSUME NoneOverOpen, SlotsInv, [Next]_vars
    PROVE  SlotsInv'
  <1>1. CASE UNCHANGED vars
    <2>1. /\ NodesKept /\ failed' \in BOOLEAN /\ lost' = lost /\ dangling' = dangling
          /\ UNCHANGED <<free, inodes, nextIno, files>>
      BY <1>1 DEF vars, NodesKept, SlotsInv, TypeOK
    <2> QED
      BY <2>1, NothingSafe
  <1>2. ASSUME Refused, lost' = lost, dangling' = dangling
        PROVE  SlotsInv'
    BY <1>2, RefusedIs, NothingSafe DEF SlotsInv
  <1>3. ASSUME NEW d \in Parents, NEW name \in Names, lost' = lost, dangling' = dangling,
               \/ Lookup(d, name) \/ Mkdir(d, name) \/ Create(d, name)
               \/ Rmdir(d, name) \/ Unlink(d, name)
        PROVE  SlotsInv'
    <2>1. d \in Slots /\ IsDirectory(d)
      BY ParentIs DEF SlotsInv
    <2>2. CASE Lookup(d, name)
      BY <1>3, <2>1, <2>2, LookupSafe
    <2>3. CASE Mkdir(d, name) \/ Create(d, name)
      BY <1>3, <2>1, <2>3, MadeSafe
    <2>4. CASE Rmdir(d, name)
      <3>1. CASE failed'
        BY <1>2, <1>3, <2>4, <3>1 DEF Rmdir
      <3>2. CASE ~failed'
        BY <1>3, <2>1, <2>4, <3>2, RmdirSafe
      <3> QED
        BY <3>1, <3>2
    <2>5. CASE Unlink(d, name)
      BY <1>3, <2>1, <2>5, UnlinkSafe
    <2> QED
      BY <1>3, <2>2, <2>3, <2>4, <2>5
  <1>4. ASSUME NEW h \in Handles, Open(h), lost' = lost, dangling' = dangling
        PROVE  SlotsInv'
    BY <1>4, OpenSafe
  <1>5. ASSUME NEW h \in DOMAIN files, WriteThrough(h), lost' = lost, dangling' = dangling
        PROVE  SlotsInv'
    <2>1. CASE HasSpace
      BY <1>5, <2>1, WriteThroughSafe
    <2>2. CASE ~HasSpace
      BY <1>2, <1>5, <2>2 DEF WriteThrough
    <2> QED
      BY <2>1, <2>2
  <1>6. ASSUME (\E h \in DOMAIN files : Flush(h) \/ Release(h)) \/ Remount,
               lost' = lost, dangling' = dangling
        PROVE  SlotsInv'
    BY <1>6, FlushesSafe
  <1>7. ASSUME NEW d \in Parents, NEW e \in Parents, NEW name \in Names, NEW newname \in Names,
               Rename(d, name, e, newname)
        PROVE  SlotsInv'
    <2>1. d \in Slots /\ IsDirectory(d) /\ e \in Slots /\ IsDirectory(e)
      BY ParentIs DEF SlotsInv
    <2> QED
      BY <1>7, <2>1, RenameSafe
  <1> QED
    BY <1>1, <1>3, <1>4, <1>5, <1>6, <1>7 DEF Next

LEMMA SlotsInit ==
    ASSUME Init
    PROVE  SlotsInv
  <1>1. DOMAIN <<>> = {}
    OBVIOUS
  <1>2. /\ DOMAIN nodes = Slots /\ nodes[Root] = Directory(<<>>)
        /\ \A s \in Slots \ {Root} : nodes[s] = Noise
    BY SlotsAssumption DEF Init
  <1>3. TypeOK
    <2>1. \A s \in Slots : IsNode(nodes[s])
      BY <1>1, <1>2, IsNodes
    <2>2. free \in [Slots -> Nat] /\ \A s \in Slots \ dangling : free[s] <= 1
      BY DEF Init
    <2>3. /\ DOMAIN inodes \subseteq 1..MaxInodes /\ Range(inodes) \subseteq Slots
          /\ nextIno \in 2..(MaxInodes + 1)
      BY SlotsAssumption, BoundsAssumption DEF Init, RootIno, Range
    <2> QED
      BY <1>1, <1>2, <2>1, <2>2, <2>3 DEF Init, TypeOK
  <1>4. FreeIsNoise
    BY <1>2, SlotsAssumption DEF Init, FreeIsNoise
  <1>5. IsDirectory(Root) /\ Listing(Root) = <<>> /\ ~IsFile(Root)
    BY <1>2, Kinds DEF IsDirectory, IsFile, Listing
  <1>6. \A s \in Slots \ {Root} : ~IsDirectory(s) /\ ~IsFile(s)
    BY <1>2, Kinds DEF IsDirectory, IsFile
  <1>7. EntriesApart
    BY <1>1, <1>5, <1>6 DEF EntriesApart, Leads, Init
  <1>8. DataApart
    BY <1>5, <1>6 DEF DataApart, Files
  <1>9. HandlesApart
    BY <1>1 DEF Init, HandlesApart
  <1> QED
    BY <1>3, <1>4, <1>7, <1>8, <1>9 DEF SlotsInv, Init

LEMMA SlotsAlways ==
    ASSUME NoneOverOpen
    PROVE  Spec => []SlotsInv
  <1>1. Init => SlotsInv
    BY SlotsInit
  <1>2. SlotsInv /\ [Next]_vars => SlotsInv'
    BY SlotsStep
  <1> QED
    BY <1>1, <1>2, PTL DEF Spec

-----------------------------------------------------------------------------
(* What handles and inode numbers lead to.                                   *)

LEMMA NamedIs ==
    ASSUME NEW s
    PROVE  /\ Named(s) <=> s = Root \/ \E d \in Slots, n \in Names : Leads(d, n, s)
           /\ Named(s)' <=> s = Root \/ \E d \in Slots, n \in Names : Leads(d, n, s)'
  <1>1. /\ DOMAIN Dirs = {t \in Slots : IsDirectory(t)}
        /\ DOMAIN Dirs' = {t \in Slots : IsDirectory(t)'}
    BY DEF Dirs
  <1>2. /\ Entries(s) = {e \in {t \in Slots : IsDirectory(t)} \X Names :
                            e[2] \in DOMAIN Listing(e[1]) /\ Listing(e[1])[e[2]] = s}
        /\ Entries(s)' = {e \in {t \in Slots : IsDirectory(t)'} \X Names :
                            e[2] \in DOMAIN Listing(e[1])' /\ Listing(e[1])'[e[2]] = s}
    BY <1>1 DEF Entries
  <1>3. Entries(s) # {} <=> \E d \in Slots, n \in Names : Leads(d, n, s)
    <2>1. ASSUME NEW d \in Slots, NEW n \in Names, Leads(d, n, s) PROVE <<d, n>> \in Entries(s)
      BY <1>2, <2>1 DEF Leads
    <2>2. ASSUME NEW e \in Entries(s) PROVE \E d \in Slots, n \in Names : Leads(d, n, s)
      BY <1>2 DEF Leads
    <2> QED
      BY <2>1, <2>2
  <1>4. Entries(s)' # {} <=> \E d \in Slots, n \in Names : Leads(d, n, s)'
    <2>1. ASSUME NEW d \in Slots, NEW n \in Names, Leads(d, n, s)' PROVE <<d, n>> \in Entries(s)'
      BY <1>2, <2>1 DEF Leads
    <2>2. ASSUME NEW e \in Entries(s)' PROVE \E d \in Slots, n \in Names : Leads(d, n, s)'
      BY <1>2 DEF Leads
    <2> QED
      BY <2>1, <2>2
  <1> QED
    BY <1>3, <1>4 DEF Named

(* It is enough that the handles and the inode numbers there are have names. *)
LEMMA KnownBy ==
    ASSUME SlotsInv',
           ~lost' => /\ \A h \in DOMAIN files' : Named(files[h].head)'
                     /\ \A i \in DOMAIN inodes' : Named(inodes[i])'
    PROVE  KnownInv'
  BY DEF KnownInv, HandlesOnFiles, InodesNamed, SlotsInv, HandlesApart

(* Requests that keep the tree. *)
LEMMA KnownKept ==
    ASSUME SlotsInv', KnownInv, lost' = lost, TreeKept,
           \A h \in DOMAIN files' : \/ h \in DOMAIN files /\ files'[h].head = files[h].head
                                    \/ files'[h].head \in Range(inodes),
           \A i \in DOMAIN inodes' : (i \in DOMAIN inodes /\ inodes'[i] = inodes[i]) \/ Named(inodes'[i])
    PROVE  KnownInv'
  <1>1. \A s : Named(s) => Named(s)'
    <2> TAKE s
    <2>1. \A x, m : Leads(x, m, s)' <=> Leads(x, m, s)
      BY LeadsKept
    <2> QED
      BY <2>1, NamedIs
  <1>2. ASSUME ~lost', NEW h \in DOMAIN files' PROVE Named(files[h].head)'
    <2>1. Named(files'[h].head)
      BY <1>2 DEF KnownInv, HandlesOnFiles, InodesNamed, Range
    <2>2. PICK s : s = files'[h].head
      OBVIOUS
    <2>3. Named(s)'
      BY <1>1, <2>1, <2>2
    <2> QED
      BY <2>2, <2>3
  <1>3. ASSUME ~lost', NEW i \in DOMAIN inodes' PROVE Named(inodes[i])'
    <2>1. Named(inodes'[i])
      BY <1>3 DEF KnownInv, InodesNamed
    <2>2. PICK s : s = inodes'[i]
      OBVIOUS
    <2>3. Named(s)'
      BY <1>1, <2>1, <2>2
    <2> QED
      BY <2>2, <2>3
  <1> QED
    BY <1>2, <1>3, KnownBy

LEMMA LookupKnown ==
    ASSUME SlotsInv, SlotsInv', KnownInv, NEW d \in Slots, IsDirectory(d), NEW name \in Names,
           Lookup(d, name), lost' = lost, dangling' = dangling
    PROVE  KnownInv'
  <1>1. PICK slot : slot = Listing(d)[name]
    OBVIOUS
  <1>2. TreeKept
    BY LookupSafe, SameNodesKept
  <1>3. CASE InodeGiven(slot) /\ UNCHANGED <<nodes, free, files>>
    <2>1. Leads(d, name, slot)
      BY <1>1 DEF Lookup, Leads
    <2>2. slot \in Slots /\ Named(slot)
      BY <2>1, LeadsTyped, NamedIs DEF SlotsInv
    <2>3. \A i \in DOMAIN inodes' : (i \in DOMAIN inodes /\ inodes'[i] = inodes[i]) \/ Named(inodes'[i])
      BY <1>3, <2>2, InodeGivenTyped DEF SlotsInv
    <2> QED
      BY <1>2, <1>3, <2>3, KnownKept
  <1>4. CASE Refused
    BY <1>2, <1>4, KnownKept DEF Refused
  <1> QED
    BY <1>1, <1>3, <1>4 DEF Lookup

LEMMA AddedKnown ==
    ASSUME SlotsInv, SlotsInv', KnownInv, NEW d \in Slots, IsDirectory(d), NEW name \in Names,
           NEW node \in NewNodes, Added(d, name, node), NEW new, new = NextFree, new \notin dangling,
           lost' = lost, files' = files \/ \E h \in Handles \ DOMAIN files : Fresh(h, new)
    PROVE  KnownInv'
  <1>1. new \in Slots /\ ~IsDirectory(new)
    BY AddedEffect, NextFreeIs DEF SlotsInv
  <1>2. \A s : Named(s) \/ s = new => Named(s)'
    <2>1. \A x, m, s : Leads(x, m, s)' <=> (Leads(x, m, s) /\ x # new) \/ (x = d /\ m = name /\ s = new)
      BY LeadsAdded
    <2>2. \A x, m, s : Leads(x, m, s) => x # new
      BY <1>1 DEF Leads
    <2> QED
      BY <2>1, <2>2, NamedIs
  <1>3. ASSUME ~lost', NEW h \in DOMAIN files' PROVE Named(files[h].head)'
    <2>1. (h \in DOMAIN files /\ files'[h].head = files[h].head) \/ files'[h].head = new
      <3>1. CASE files' = files
        BY <3>1
      <3>2. ASSUME NEW k \in Handles, Fresh(k, new)
            PROVE  \/ h \in DOMAIN files /\ files'[h] = files[h]
                   \/ files'[h] = [head |-> new, slots |-> {}, dirty |-> FALSE]
        BY <3>2 DEF Fresh, Tree!With
      <3> QED
        BY <3>1, <3>2
    <2>2. PICK s : s = files'[h].head
      OBVIOUS
    <2>3. Named(s)'
      BY <1>2, <1>3, <2>1, <2>2 DEF KnownInv, HandlesOnFiles
    <2> QED
      BY <2>2, <2>3
  <1>4. ASSUME ~lost', NEW i \in DOMAIN inodes' PROVE Named(inodes[i])'
    <2>1. (i \in DOMAIN inodes /\ inodes'[i] = inodes[i]) \/ inodes'[i] = new
      BY <1>1, InodeGivenTyped DEF Added, SlotsInv
    <2>2. PICK s : s = inodes'[i]
      OBVIOUS
    <2>3. Named(s)'
      BY <1>2, <1>4, <2>1, <2>2 DEF KnownInv, InodesNamed
    <2> QED
      BY <2>2, <2>3
  <1> QED
    BY <1>3, <1>4, KnownBy

LEMMA MadeKnown ==
    ASSUME SlotsInv, SlotsInv', KnownInv, NEW d \in Slots, IsDirectory(d), NEW name \in Names,
           Mkdir(d, name) \/ Create(d, name), lost' = lost, dangling = {}
    PROVE  KnownInv'
  <1>1. CASE NotAdded(d)
    <2>1. NodesKept /\ UNCHANGED <<free, inodes, nextIno, files>>
      BY <1>1, NotAddedIs DEF SlotsInv
    <2> QED
      BY <2>1, KnownKept, SameNodesKept
  <1>2. CASE \E node \in NewNodes :
                /\ Added(d, name, node)
                /\ \/ node = Directory(<<>>) /\ files' = files
                   \/ node = FileBlock({}) /\ \E h \in Handles \ DOMAIN files : Fresh(h, NextFree)
    <2>1. PICK new : new = NextFree
      OBVIOUS
    <2>2. PICK node \in NewNodes :
             /\ Added(d, name, node)
             /\ files' = files \/ \E h \in Handles \ DOMAIN files : Fresh(h, new)
      BY <1>2, <2>1
    <2> QED
      BY <2>1, <2>2, AddedKnown
  <1> QED
    BY <1>1, <1>2, MadeIs

(* What rmdir and unlink do to the entries. *)
LEMMA RmdirCuts ==
    ASSUME SlotsInv, NEW d \in Slots, IsDirectory(d), NEW name, NEW id, id = Listing(d)[name],
           Rmdir(d, name), ~Refused
    PROVE  /\ name \in DOMAIN Listing(d) /\ IsDirectory(id) /\ Listing(id) = <<>>
           /\ inodes' = InodeRemoved(id) /\ files' = files /\ failed' = FALSE
           /\ nodes' = Wiped(SourceWritten(d, name), {id}) /\ d # id
           /\ \A x, m, s : Leads(x, m, s)' <=> Leads(x, m, s) /\ ~(x = d /\ m = name)
  <1>1. /\ name \in DOMAIN Listing(d) /\ IsDirectory(id) /\ Listing(id) = <<>>
        /\ nodes' = Wiped(SourceWritten(d, name), {id})
        /\ inodes' = InodeRemoved(id) /\ files' = files /\ failed' = FALSE
    BY DEF Rmdir, MayRemove, DirectoryGone, SourceWritten
  <1>2. d # id
    <2>1. DOMAIN <<>> = {}
      OBVIOUS
    <2> QED
      BY <1>1, <2>1
  <1>3. \A x, m, s : Leads(x, m, s)' <=> Leads(x, m, s) /\ ~(x = d /\ m = name)
    <2>1. \A x, m, s : Leads(x, m, s) => x \notin {id}
      <3>1. DOMAIN <<>> = {}
        OBVIOUS
      <3> QED
        BY <1>1, <3>1 DEF Leads
    <2> QED
      BY <1>1, <2>1, LeadsCut DEF SlotsInv
  <1> QED
    BY <1>1, <1>2, <1>3

LEMMA UnlinkCuts ==
    ASSUME SlotsInv, NEW d \in Slots, IsDirectory(d), NEW name, NEW id, id = Listing(d)[name],
           Unlink(d, name), dangling = {}
    PROVE  /\ name \in DOMAIN Listing(d) /\ IsFile(id)
           /\ inodes' = InodeRemoved(id) /\ files' = Evicted(id) /\ failed' = FALSE
           /\ nodes' = Wiped(SourceWritten(d, name), SlotsOfFile(id)) /\ id \in SlotsOfFile(id)
           /\ \A s \in SlotsOfFile(id) : ~IsDirectory(s) /\ (s # id => ~IsFile(s))
           /\ \A x, m, s : Leads(x, m, s)' <=> Leads(x, m, s) /\ ~(x = d /\ m = name)
  <1>1. /\ name \in DOMAIN Listing(d) /\ ~IsDirectory(id)
        /\ nodes' = Wiped(SourceWritten(d, name), SlotsOfFile(id))
        /\ inodes' = InodeRemoved(id) /\ files' = Evicted(id) /\ failed' = FALSE
    BY DEF Unlink, SourceWritten
  <1>2. id \in Slots /\ IsFile(id)
    <2>1. Leads(d, name, id)
      BY <1>1 DEF Leads
    <2> QED
      BY <1>1, <2>1, LeadsTyped DEF SlotsInv, EntriesApart
  <1>3. /\ id \in SlotsOfFile(id)
        /\ \A s \in SlotsOfFile(id) : ~IsDirectory(s) /\ (s # id => ~IsFile(s))
    BY <1>1, <1>2, DataIs, Kinds DEF IsFile, IsDirectory
  <1>4. \A x, m, s : Leads(x, m, s)' <=> Leads(x, m, s) /\ ~(x = d /\ m = name)
    <2>1. \A x, m, s : Leads(x, m, s) => x \notin SlotsOfFile(id)
      BY <1>3 DEF Leads
    <2> QED
      BY <1>1, <2>1, LeadsCut DEF SlotsInv
  <1> QED
    BY <1>1, <1>2, <1>3, <1>4

(* rmdir and unlink: the slot that goes is that of no handle and no inode    *)
(* number any more.                                                          *)
LEMMA RemovedKnown ==
    ASSUME SlotsInv, SlotsInv', KnownInv, NEW d \in Slots, IsDirectory(d), NEW name,
           NEW id, id = Listing(d)[name],
           \A x, m, s : Leads(x, m, s)' <=> Leads(x, m, s) /\ ~(x = d /\ m = name),
           inodes' = InodeRemoved(id), lost' = lost,
           \A h \in DOMAIN files' : /\ h \in DOMAIN files /\ files'[h] = files[h]
                                    /\ files[h].head # id
    PROVE  KnownInv'
  <1>1. \A s : Named(s) /\ s # id => Named(s)'
    <2> SUFFICES ASSUME NEW s, Named(s), s # id, s # Root PROVE \E x \in Slots, m \in Names : Leads(x, m, s)'
      BY NamedIs
    <2>1. PICK x \in Slots, m \in Names : Leads(x, m, s)
      BY NamedIs
    <2>2. ~(x = d /\ m = name)
      BY <2>1 DEF Leads
    <2> QED
      BY <2>1, <2>2
  <1>2. ASSUME ~lost', NEW h \in DOMAIN files' PROVE Named(files[h].head)'
    <2>1. PICK s : s = files'[h].head
      OBVIOUS
    <2>2. Named(s)'
      BY <1>1, <1>2, <2>1 DEF KnownInv, HandlesOnFiles
    <2> QED
      BY <2>1, <2>2
  <1>3. ASSUME ~lost', NEW i \in DOMAIN inodes' PROVE Named(inodes[i])'
    <2>1. PICK s : s = inodes'[i]
      OBVIOUS
    <2>2. i \in DOMAIN inodes /\ s = inodes[i] /\ s # id
      BY <2>1 DEF InodeRemoved, Restrict
    <2>3. Named(s)'
      BY <1>1, <1>3, <2>2 DEF KnownInv, InodesNamed
    <2> QED
      BY <2>1, <2>3
  <1> QED
    BY <1>2, <1>3, KnownBy

LEMMA RenameKnown ==
    ASSUME SlotsInv, SlotsInv', NoneOverOpen, KnownInv,
           NEW d \in Slots, IsDirectory(d), NEW e \in Slots, IsDirectory(e),
           NEW name, NEW newname \in Names, Rename(d, name, e, newname), ~lost'
    PROVE  KnownInv'
  <1>1. PICK id : id = Listing(d)[name]
    OBVIOUS
  <1>2. PICK R : R = Replaced(e, newname)
    OBVIOUS
  <1>3. /\ name \in DOMAIN Listing(d) /\ MayAsk(d, name, e, newname) /\ files' = files
        /\ Renamed(d, name, e, newname) /\ ~lost /\ dangling = {}
        /\ \A old \in Replaced(e, newname) : KindOfTarget(old) # "over tree"
    BY RenameIs DEF Rename, SlotsInv
  <1>a. /\ e \in R => e \in dangling
        /\ \A s \in R \ dangling : \A h \in DOMAIN files : files[h].head # s
    <2>1. MayAsk(d, name, e, newname)
      BY <1>3
    <2> QED
      BY <1>2, <2>1, ReplacedIs
  <1>4. /\ nodes' = Wiped(Moved(d, name, e, newname, id), R)
        /\ inodes' = Restrict(inodes, {ino \in DOMAIN inodes : inodes[ino] \notin R})
        /\ <<d, name>> # <<e, newname>> /\ dangling' = dangling
    <2>1. nodes' = Wiped(Moved(d, name, e, newname, id), R)
      <3>1. R \ {e} = R
        BY <1>3, <1>a
      <3>2. Renamed(d, name, e, newname) /\ TypeOK
        BY <1>3 DEF SlotsInv
      <3>3. nodes' = Wiped(Moved(d, name, e, newname, id), R \ {e})
        BY <1>1, <1>2, <3>2, RenamedNodes
      <3> QED
        BY <3>1, <3>3
    <2>2. <<d, name>> # <<e, newname>>
      BY <1>3 DEF MayAsk
    <2> QED
      BY <1>2, <1>3, <2>1, <2>2 DEF Renamed, ReplacedFreed
  <1>5. /\ Leads(d, name, id) /\ name \in Names
        /\ \A s \in R : Leads(e, newname, s)
    <2>1. Leads(d, name, id)
      BY <1>1, <1>3 DEF Leads
    <2> QED
      BY <1>2, <2>1, LeadsTyped DEF SlotsInv, Leads, Replaced
  <1>6. id \notin R /\ \A x, m, s : Leads(x, m, s)' <=>
           /\ x \notin R
           /\ \/ x = e /\ m = newname /\ s = id
              \/ Leads(x, m, s) /\ <<x, m>> # <<d, name>> /\ <<x, m>> # <<e, newname>>
    <2>1. id \notin R
      BY <1>1, <1>2, <1>3, ReplacedIs
    <2>2. EntriesMoved(d, name, e, newname, id, R)
      BY <1>1, <1>2, <1>3, <1>4, <2>1, MovedEntries
    <2> QED
      BY <2>1, <2>2 DEF EntriesMoved
  <1>7. \A s \in R : \A m, t : ~Leads(s, m, t)
    <2> SUFFICES ASSUME NEW s \in R, NEW m, NEW t, Leads(s, m, t) PROVE FALSE
      OBVIOUS
    <2>1. IsDirectory(s) /\ ~IsFile(s) /\ m \in DOMAIN Listing(s)
      BY DEF Leads, IsDirectory, IsFile
    <2>2. Listing(s) = <<>>
      BY <1>2, <1>3, <2>1 DEF KindOfTarget, Replaced
    <2>3. DOMAIN <<>> = {}
      OBVIOUS
    <2> QED
      BY <2>1, <2>2, <2>3
  <1>8. \A h \in DOMAIN files : files[h].head \notin R
    BY <1>3, <1>a
  <1>9. \A s : Named(s) /\ s \notin R => Named(s)'
    <2> SUFFICES ASSUME NEW s, Named(s), s \notin R, s # Root
                 PROVE  \E x \in Slots, m \in Names : Leads(x, m, s)'
      BY NamedIs
    <2>1. PICK x \in Slots, m \in Names : Leads(x, m, s)
      BY NamedIs
    <2>2. x \notin R
      BY <1>7, <2>1
    <2>3. CASE <<x, m>> = <<d, name>>
      <3>1. s = id
        BY <1>1, <2>1, <2>3 DEF Leads
      <3>2. e \notin R
        BY <1>5, <1>7
      <3> QED
        BY <1>6, <3>1, <3>2
    <2>4. CASE <<x, m>> = <<e, newname>>
      BY <1>2, <2>1, <2>4 DEF Leads, Replaced
    <2>5. CASE <<x, m>> # <<d, name>> /\ <<x, m>> # <<e, newname>>
      BY <1>6, <2>1, <2>2, <2>5
    <2> QED
      BY <2>3, <2>4, <2>5
  <1>10. ASSUME NEW h \in DOMAIN files' PROVE Named(files[h].head)'
    <2>1. PICK s : s = files'[h].head
      OBVIOUS
    <2>2. Named(s)'
      BY <1>3, <1>8, <1>9, <2>1 DEF KnownInv, HandlesOnFiles
    <2> QED
      BY <2>1, <2>2
  <1>11. ASSUME NEW i \in DOMAIN inodes' PROVE Named(inodes[i])'
    <2>1. PICK s : s = inodes'[i]
      OBVIOUS
    <2>2. i \in DOMAIN inodes /\ s = inodes[i] /\ s \notin R
      BY <1>4, <2>1 DEF Restrict
    <2>3. Named(s)'
      BY <1>3, <1>9, <2>2 DEF KnownInv, InodesNamed
    <2> QED
      BY <2>1, <2>3
  <1> QED
    BY <1>10, <1>11, KnownBy

LEMMA KnownStep ==
    ASSUME NoneOverOpen, SlotsInv, KnownInv, [Next]_vars
    PROVE  KnownInv'
  <1> SUFFICES ASSUME ~lost' PROVE KnownInv'
    BY DEF KnownInv, HandlesOnFiles, InodesNamed
  <1>1. SlotsInv' /\ dangling = {}
    <2>1. ~lost
      BY RenameIs DEF Next, vars
    <2> QED
      BY <2>1, SlotsStep DEF SlotsInv
  <1>2. ASSUME NodesKept, UNCHANGED <<inodes, files, lost>>
        PROVE  KnownInv'
    BY <1>1, <1>2, KnownKept, SameNodesKept
  <1>3. CASE UNCHANGED vars
    BY <1>2, <1>3 DEF vars, NodesKept, SlotsInv, TypeOK
  <1>4. ASSUME NEW d \in Parents, NEW name \in Names, lost' = lost, dangling' = dangling,
               \/ Lookup(d, name) \/ Mkdir(d, name) \/ Create(d, name)
               \/ Rmdir(d, name) \/ Unlink(d, name)
        PROVE  KnownInv'
    <2>1. d \in Slots /\ IsDirectory(d)
      BY ParentIs DEF SlotsInv
    <2>2. CASE Lookup(d, name)
      BY <1>1, <1>4, <2>1, <2>2, LookupKnown
    <2>3. CASE Mkdir(d, name) \/ Create(d, name)
      BY <1>1, <1>4, <2>1, <2>3, MadeKnown
    <2>4. CASE Refused
      BY <1>2, <1>4, <2>4, RefusedIs DEF SlotsInv
    <2>5. CASE Rmdir(d, name) /\ ~Refused
      <3>1. PICK id : id = Listing(d)[name]
        OBVIOUS
      <3>2. /\ name \in DOMAIN Listing(d) /\ IsDirectory(id) /\ inodes' = InodeRemoved(id) /\ files' = files
            /\ \A x, m, s : Leads(x, m, s)' <=> Leads(x, m, s) /\ ~(x = d /\ m = name)
        BY <2>1, <2>5, <3>1, RmdirCuts
      <3>3. \A h \in DOMAIN files : files[h].head # id
        BY <1>1, <3>2 DEF SlotsInv, HandlesApart, IsFile, IsDirectory
      <3> QED
        BY <1>1, <1>4, <2>1, <3>1, <3>2, <3>3, RemovedKnown
    <2>6. CASE Unlink(d, name)
      <3>1. PICK id : id = Listing(d)[name]
        OBVIOUS
      <3>2. /\ inodes' = InodeRemoved(id) /\ files' = Evicted(id)
            /\ \A x, m, s : Leads(x, m, s)' <=> Leads(x, m, s) /\ ~(x = d /\ m = name)
        BY <1>1, <2>1, <2>6, <3>1, UnlinkCuts
      <3>3. \A h \in DOMAIN files' : h \in DOMAIN files /\ files'[h] = files[h] /\ files[h].head # id
        BY <3>2 DEF Evicted, Restrict
      <3> QED
        BY <1>1, <1>4, <2>1, <3>1, <3>2, <3>3, RemovedKnown
    <2> QED
      BY <1>4, <2>2, <2>3, <2>4, <2>5, <2>6
  <1>5. ASSUME NEW h \in Handles, Open(h), lost' = lost, dangling' = dangling
        PROVE  KnownInv'
    <2>1. NodesKept /\ inodes' = inodes
      BY <1>5 DEF Open, NodesKept, SlotsInv, TypeOK
    <2>2. \A k \in DOMAIN files' : \/ k \in DOMAIN files /\ files'[k].head = files[k].head
                                   \/ files'[k].head \in Range(inodes)
      <3>1. PICK head \in Range(inodes) :
               files' = Tree!With(files, h, [head |-> head, slots |-> nodes[head].slots, dirty |-> FALSE])
        BY <1>5 DEF Open
      <3>2. \A k \in DOMAIN files' :
               \/ k \in DOMAIN files /\ files'[k] = files[k]
               \/ files'[k] = [head |-> head, slots |-> nodes[head].slots, dirty |-> FALSE]
        BY <3>1 DEF Tree!With
      <3> QED
        BY <3>2
    <2> QED
      BY <1>1, <1>5, <2>1, <2>2, KnownKept, SameNodesKept
  <1>6. ASSUME NEW h \in DOMAIN files, WriteThrough(h), lost' = lost, dangling' = dangling
        PROVE  KnownInv'
    <2>1. CASE HasSpace
      <3>1. TreeKept
        BY <1>1, <1>6, <2>1, WriteThroughSafe
      <3>2. inodes' = inodes /\ \A k \in DOMAIN files' : k \in DOMAIN files /\ files'[k].head = files[k].head
        <4>1. NextFree \in Slots
          BY <2>1, NextFreeIs DEF SlotsInv
        <4>2. PICK new \in Slots : new = NextFree
          BY <4>1
        <4>3. inodes' = inodes /\ files' = [files EXCEPT ![h].slots = @ \union {new}, ![h].dirty = TRUE]
          BY <1>6, <2>1, <4>2 DEF WriteThrough
        <4> QED
          BY <4>3, WrittenHandle DEF SlotsInv
      <3> QED
        BY <1>1, <1>6, <3>1, <3>2, KnownKept
    <2>2. CASE ~HasSpace
      <3>1. Refused
        BY <1>6, <2>2 DEF WriteThrough
      <3> QED
        BY <1>2, <1>6, <3>1, RefusedIs DEF SlotsInv
    <2> QED
      BY <2>1, <2>2
  <1>7. ASSUME NEW h \in DOMAIN files, Flush(h) \/ Release(h), lost' = lost, dangling' = dangling
        PROVE  KnownInv'
    <2>1. TreeKept
      BY <1>1, <1>7, FlushesSafe
    <2>2. inodes' = inodes /\ \A k \in DOMAIN files' : k \in DOMAIN files /\ files'[k].head = files[k].head
      <3>1. CASE Flush(h)
        BY <3>1, FlushedHandle DEF SlotsInv, Flush
      <3>2. CASE Release(h)
        BY <3>2 DEF Release, Restrict
      <3> QED
        BY <1>7, <3>1, <3>2
    <2> QED
      BY <1>1, <1>7, <2>1, <2>2, KnownKept
  <1>8. ASSUME Remount, lost' = lost, dangling' = dangling
        PROVE  KnownInv'
    <2>1. TreeKept
      BY <1>1, <1>8, FlushesSafe
    <2>2. DOMAIN files' = {} /\ \A i \in DOMAIN inodes' : inodes'[i] = Root
      <3>1. DOMAIN <<>> = {}
        OBVIOUS
      <3> QED
        BY <1>8, <3>1 DEF Remount
    <2>3. Named(Root)
      BY DEF Named
    <2> QED
      BY <1>1, <1>8, <2>1, <2>2, <2>3, KnownKept
  <1>9. ASSUME NEW d \in Parents, NEW e \in Parents, NEW name \in Names, NEW newname \in Names,
               Rename(d, name, e, newname)
        PROVE  KnownInv'
    <2>1. d \in Slots /\ IsDirectory(d) /\ e \in Slots /\ IsDirectory(e)
      BY ParentIs DEF SlotsInv
    <2> QED
      BY <1>1, <1>9, <2>1, RenameKnown
  <1> QED
    BY <1>3, <1>4, <1>5, <1>6, <1>7, <1>8, <1>9 DEF Next

LEMMA KnownInit ==
    ASSUME Init
    PROVE  KnownInv
  <1>1. DOMAIN <<>> = {}
    OBVIOUS
  <1> QED
    BY <1>1 DEF Init, KnownInv, HandlesOnFiles, InodesNamed, Named

LEMMA KnownAlways ==
    ASSUME NoneOverOpen
    PROVE  Spec => [](SlotsInv /\ KnownInv)
  <1>1. Init => SlotsInv /\ KnownInv
    BY SlotsInit, KnownInit
  <1>2. SlotsInv /\ KnownInv /\ [Next]_vars => (SlotsInv /\ KnownInv)'
    BY SlotsStep, KnownStep
  <1> QED
    BY <1>1, <1>2, PTL DEF Spec

-----------------------------------------------------------------------------
(* The names, as NameTree has them.                                          *)

LEMMA DirsAre ==
    /\ DOMAIN Dirs = {t \in Slots : IsDirectory(t)} /\ \A s \in DOMAIN Dirs : Dirs[s] = Listing(s)
    /\ DOMAIN Dirs' = {t \in Slots : IsDirectory(t)'} /\ \A s \in DOMAIN Dirs' : Dirs'[s] = Listing(s)'
  BY DEF Dirs

LEMMA DirsBecome ==
    ASSUME NEW F, F = [x \in DOMAIN F |-> F[x]],
           \A t \in Slots : t \in DOMAIN F <=> IsDirectory(t)', DOMAIN F \subseteq Slots,
           \A t \in DOMAIN F : F[t] = Listing(t)'
    PROVE  Dirs' = F
  <1>1. DOMAIN F = {t \in Slots : IsDirectory(t)'}
    OBVIOUS
  <1>2. Dirs' = [t \in {t \in Slots : IsDirectory(t)'} |-> Listing(t)']
    BY DEF Dirs
  <1> QED
    BY <1>1, <1>2

LEMMA TreeKeptNames ==
    ASSUME TreeKept
    PROVE  Dirs' = Dirs /\ Files' = Files
  <1>1. Files' = Files
    BY DEF TreeKept, Files
  <1>2. Dirs = [x \in DOMAIN Dirs |-> Dirs[x]]
    BY DEF Dirs
  <1>3. \A t \in DOMAIN Dirs : t \in Slots /\ IsDirectory(t) /\ Dirs[t] = Listing(t)
    BY DirsAre
  <1>4. \A t \in Slots : t \in DOMAIN Dirs <=> IsDirectory(t)'
    BY DirsAre DEF TreeKept
  <1>5. \A t \in DOMAIN Dirs : Dirs[t] = Listing(t)'
    BY <1>3 DEF TreeKept, Listing
  <1> QED
    BY <1>1, <1>2, <1>3, <1>4, <1>5, DirsBecome

LEMMA AddedMaps ==
    ASSUME SlotsInv, NEW d \in Slots, IsDirectory(d), NEW name \in Names,
           NEW node \in NewNodes, Added(d, name, node), dangling = {}
    PROVE  Tree!Next
  <1>1. PICK new : new = NextFree
    OBVIOUS
  <1>2. new \in Slots /\ ~IsFile(new) /\ ~IsDirectory(new)
    BY <1>1, AddedEffect, NextFreeIs DEF SlotsInv
  <1>3. /\ name \notin DOMAIN Listing(d) /\ new # d
        /\ nodes'[new] = node
        /\ nodes'[d] = Directory(Tree!With(Listing(d), name, new))
        /\ \A s \in Slots \ {d, new} : nodes'[s] = nodes[s]
    BY <1>1, <1>2, AddedEffect
  <1>4. d \in DOMAIN Dirs /\ Dirs[d] = Listing(d) /\ new \notin DOMAIN Dirs /\ new \notin Files
    BY <1>2, DirsAre DEF Files
  <1>5. IsDirectory(d)' /\ ~IsFile(d)' /\ ~IsFile(d) /\ Listing(d)' = Tree!With(Listing(d), name, new)
    BY <1>3, Kinds DEF IsDirectory, IsFile, Listing
  <1>6. \A s \in Slots \ {d, new} : /\ IsFile(s)' <=> IsFile(s)
                                    /\ IsDirectory(s)' <=> IsDirectory(s)
                                    /\ Listing(s)' = Listing(s)
    BY <1>3 DEF IsDirectory, IsFile, Listing
  <1> DEFINE put == [Dirs EXCEPT ![d] = Tree!With(@, name, new)]
             all == Tree!With(put, new, <<>>)
  <1>7. /\ DOMAIN put = DOMAIN Dirs /\ put = [x \in DOMAIN put |-> put[x]]
        /\ put[d] = Listing(d)' /\ \A t \in DOMAIN put \ {d} : put[t] = Listing(t)
    <2>1. \A t \in DOMAIN Dirs : Dirs[t] = Listing(t)
      BY DirsAre
    <2>2. put[d] = Tree!With(Listing(d), name, new)
      BY <1>4
    <2> QED
      BY <1>4, <1>5, <2>1, <2>2
  <1>8. CASE node = FileBlock({})
    <2>1. IsFile(new)' /\ ~IsDirectory(new)'
      BY <1>3, <1>8, Kinds DEF IsFile, IsDirectory
    <2>2. Files' = Files \union {new}
      BY <1>2, <1>5, <1>6, <2>1 DEF Files
    <2>3. Dirs' = put
      <3>1. \A t \in Slots : t \in DOMAIN put <=> IsDirectory(t)'
        BY <1>2, <1>4, <1>5, <1>6, <1>7, <2>1, DirsAre
      <3>2. \A t \in DOMAIN put : t \in Slots /\ put[t] = Listing(t)'
        BY <1>2, <1>4, <1>6, <1>7, DirsAre
      <3> HIDE DEF put
      <3> QED
        BY <1>7, <3>1, <3>2, DirsBecome
    <2>4. Tree!MakeFile(d, name, new)
      BY <1>3, <1>4, <2>2, <2>3 DEF Tree!MakeFile
    <2> QED
      BY <1>2, <1>4, <2>4 DEF Tree!Next, Tree!Live
  <1>9. CASE node = Directory(<<>>)
    <2>1. ~IsFile(new)' /\ IsDirectory(new)' /\ Listing(new)' = <<>>
      BY <1>3, <1>9, Kinds DEF IsFile, IsDirectory, Listing
    <2>2. Files' = Files
      BY <1>2, <1>5, <1>6, <2>1 DEF Files
    <2>3. /\ DOMAIN all = DOMAIN put \union {new} /\ all = [x \in DOMAIN all |-> all[x]]
          /\ all[new] = <<>> /\ \A t \in DOMAIN put \ {new} : all[t] = put[t]
      <3> HIDE DEF put
      <3> QED
        BY DEF Tree!With
    <2>4. Dirs' = all
      <3>1. \A t \in Slots : t \in DOMAIN all <=> IsDirectory(t)'
        BY <1>2, <1>4, <1>5, <1>6, <1>7, <2>1, <2>3, DirsAre
      <3>2. \A t \in DOMAIN all : t \in Slots /\ all[t] = Listing(t)'
        BY <1>2, <1>4, <1>6, <1>7, <2>1, <2>3, DirsAre
      <3> HIDE DEF all
      <3> QED
        BY <2>3, <3>1, <3>2, DirsBecome
    <2>5. Tree!MakeDirectory(d, name, new)
      BY <1>3, <1>4, <2>2, <2>4 DEF Tree!MakeDirectory
    <2> QED
      BY <1>2, <1>4, <2>5 DEF Tree!Next, Tree!Live
  <1> QED
    BY <1>8, <1>9 DEF NewNodes

(* rmdir and unlink. *)
LEMMA CutMaps ==
    ASSUME SlotsInv, NEW d \in Slots, IsDirectory(d), NEW name \in DOMAIN Listing(d),
           NEW id, id = Listing(d)[name], IsDirectory(id) => Listing(id) = <<>>,
           NEW R, d \notin R, id \in R, \A s \in R \ {id} : ~IsFile(s) /\ ~IsDirectory(s),
           nodes' = Wiped(SourceWritten(d, name), R)
    PROVE  Tree!Next
  <1>1. /\ \A s \in Slots : s \in R => nodes'[s] = Noise
        /\ nodes'[d] = Directory(Tree!Without(Listing(d), name))
        /\ \A s \in Slots \ {d} : s \notin R => nodes'[s] = nodes[s]
    BY CutEffect DEF SlotsInv
  <1>2. d \in DOMAIN Dirs /\ Dirs[d] = Listing(d) /\ id # d
    BY DirsAre
  <1>3. IsDirectory(d)' /\ ~IsFile(d)' /\ ~IsFile(d) /\ Listing(d)' = Tree!Without(Listing(d), name)
    BY <1>1, Kinds DEF IsDirectory, IsFile, Listing
  <1>4. \A s \in Slots \cap R : ~IsFile(s)' /\ ~IsDirectory(s)'
    BY <1>1, Kinds DEF IsDirectory, IsFile
  <1>5. \A s \in Slots \ {d} : s \notin R => /\ IsFile(s)' <=> IsFile(s)
                                             /\ IsDirectory(s)' <=> IsDirectory(s)
                                             /\ Listing(s)' = Listing(s)
    BY <1>1 DEF IsDirectory, IsFile, Listing
  <1> DEFINE cut == [Dirs EXCEPT ![d] = Tree!Without(@, name)]
             all == Tree!Gone(cut, id)
  <1>6. /\ DOMAIN cut = DOMAIN Dirs
        /\ cut[d] = Listing(d)' /\ \A t \in DOMAIN cut \ {d} : cut[t] = Listing(t)
    <2>1. \A t \in DOMAIN Dirs : Dirs[t] = Listing(t)
      BY DirsAre
    <2>2. cut[d] = Tree!Without(Listing(d), name)
      BY <1>2
    <2> QED
      BY <1>2, <1>3, <2>1, <2>2
  <1>7. /\ DOMAIN all = DOMAIN cut \ {id} /\ all = [x \in DOMAIN all |-> all[x]]
        /\ \A t \in DOMAIN all : all[t] = cut[t]
    <2> HIDE DEF cut
    <2> QED
      BY DEF Tree!Gone, Restrict, Tree!Restrict
  <1>8. Files' = Files \ {id}
    BY <1>3, <1>4, <1>5 DEF Files
  <1>9. Dirs' = all
    <2>1. \A t \in Slots : t \in DOMAIN all <=> IsDirectory(t)'
      BY <1>2, <1>3, <1>4, <1>5, <1>6, <1>7, DirsAre
    <2>2. \A t \in DOMAIN all : t \in Slots /\ all[t] = Listing(t)'
      BY <1>2, <1>3, <1>5, <1>6, <1>7, DirsAre
    <2> HIDE DEF all
    <2> QED
      BY <1>7, <2>1, <2>2, DirsBecome
  <1>10. Tree!Remove(d, name)
    <2>1. id \in DOMAIN Dirs => Tree!IsEmpty(id)
      BY DirsAre DEF Tree!IsEmpty
    <2> QED
      BY <1>2, <1>8, <1>9, <2>1 DEF Tree!Remove
  <1> QED
    BY <1>2, <1>10 DEF Tree!Next

(* A rename in which nothing is lost. *)
LEMMA RenamedMaps ==
    ASSUME SlotsInv, NEW d \in Slots, IsDirectory(d), NEW e \in Slots, IsDirectory(e),
           NEW name, NEW newname \in Names, Rename(d, name, e, newname), ~lost'
    PROVE  Tree!Next
  <1>1. PICK id : id = Listing(d)[name]
    OBVIOUS
  <1>2. PICK R : R = Replaced(e, newname)
    OBVIOUS
  <1>3. /\ name \in DOMAIN Listing(d) /\ MayAsk(d, name, e, newname)
        /\ Renamed(d, name, e, newname) /\ dangling = {}
        /\ \A old \in Replaced(e, newname) : KindOfTarget(old) # "over tree"
    BY RenameIs DEF Rename, SlotsInv
  <1>a. e \notin R /\ <<d, name>> # <<e, newname>>
    BY <1>2, <1>3 DEF MayAsk, KnownBeneath, Replaced
  <1>4. nodes' = Wiped(Moved(d, name, e, newname, id), R) /\ <<d, name>> # <<e, newname>>
    <2>1. R \ {e} = R
      BY <1>a
    <2>2. Renamed(d, name, e, newname) /\ TypeOK
      BY <1>3 DEF SlotsInv
    <2>3. nodes' = Wiped(Moved(d, name, e, newname, id), R \ {e})
      BY <1>1, <1>2, <2>2, RenamedNodes
    <2> QED
      BY <1>a, <2>1, <2>3
  <1>5. id \in Slots /\ name \in Names /\ (IsFile(id) \/ IsDirectory(id))
    <2>1. Leads(d, name, id)
      BY <1>1, <1>3 DEF Leads
    <2> QED
      BY <1>3, <2>1, LeadsTyped DEF SlotsInv, EntriesApart
  <1>6. ASSUME NEW s \in R
        PROVE  /\ newname \in DOMAIN Listing(e) /\ s = Listing(e)[newname] /\ s \in Slots
               /\ (IsFile(s) /\ IsFile(id)) \/ (IsDirectory(s) /\ IsDirectory(id) /\ Listing(s) = <<>>)
    <2>1. newname \in DOMAIN Listing(e) /\ s = Listing(e)[newname] /\ Leads(e, newname, s)
      BY <1>2 DEF Replaced, Leads
    <2>2. s \in Slots /\ (IsFile(s) \/ IsDirectory(s))
      BY <1>3, <2>1, LeadsTyped DEF SlotsInv, EntriesApart
    <2>3. IsDirectory(s) <=> IsDirectory(id)
      <3>1. nodes[s] # Noise /\ nodes[id] # Noise
        BY <1>5, <2>2, Kinds DEF IsFile, IsDirectory
      <3> QED
        BY <1>1, <1>3, <2>1, <3>1 DEF MayAsk
    <2>4. IsDirectory(s) => Listing(s) = <<>>
      BY <1>2, <1>3 DEF KindOfTarget
    <2>5. (IsFile(s) => ~IsDirectory(s)) /\ (IsFile(id) => ~IsDirectory(id))
      BY DEF IsFile, IsDirectory
    <2> QED
      BY <1>5, <2>1, <2>2, <2>3, <2>4, <2>5
  <1>7. d \notin R /\ e \notin R
    <2>1. DOMAIN <<>> = {}
      OBVIOUS
    <2> QED
      BY <1>3, <1>6, <2>1 DEF IsFile, IsDirectory
  <1> DEFINE left == Tree!Without(Dirs[d], name)
             moved == IF d = e THEN [Dirs EXCEPT ![d] = Tree!With(left, newname, id)]
                      ELSE [Dirs EXCEPT ![d] = left, ![e] = Tree!With(@, newname, id)]
  <1>8. /\ d \in DOMAIN Dirs /\ Dirs[d] = Listing(d) /\ e \in DOMAIN Dirs /\ Dirs[e] = Listing(e)
        /\ left = Tree!Without(Listing(d), name)
    BY DirsAre
  <1>9. /\ \A s \in Slots : s \in R => nodes'[s] = Noise
        /\ \A s \in Slots \ {d, e} : s \notin R => nodes'[s] = nodes[s]
        /\ d # e => nodes'[d] = Directory(left) /\ nodes'[e] = Directory(Tree!With(Listing(e), newname, id))
        /\ d = e => nodes'[e] = Directory(Tree!With(left, newname, id))
    <2> HIDE DEF left
    <2> QED
      BY <1>4, <1>7, <1>8, MovedEffect DEF SlotsInv
  <1>10. /\ IsDirectory(d)' /\ IsDirectory(e)' /\ ~IsFile(d)' /\ ~IsFile(e)' /\ ~IsFile(d) /\ ~IsFile(e)
         /\ d # e => Listing(d)' = left /\ Listing(e)' = Tree!With(Listing(e), newname, id)
         /\ d = e => Listing(e)' = Tree!With(left, newname, id)
    <2> HIDE DEF left
    <2> QED
      BY <1>9, Kinds DEF IsDirectory, IsFile, Listing
  <1>11. \A s \in Slots \ {d, e} : s \notin R => /\ IsFile(s)' <=> IsFile(s)
                                                 /\ IsDirectory(s)' <=> IsDirectory(s)
                                                 /\ Listing(s)' = Listing(s)
    BY <1>9 DEF IsDirectory, IsFile, Listing
  <1>12. \A s \in R : s \in Slots /\ ~IsFile(s)' /\ ~IsDirectory(s)'
    BY <1>6, <1>9, Kinds DEF IsDirectory, IsFile
  <1>13. /\ DOMAIN moved = DOMAIN Dirs /\ moved = [x \in DOMAIN moved |-> moved[x]]
         /\ moved[d] = Listing(d)' /\ moved[e] = Listing(e)'
         /\ \A t \in DOMAIN moved \ {d, e} : moved[t] = Listing(t)
    <2>1. \A t \in DOMAIN Dirs : Dirs[t] = Listing(t)
      BY DirsAre
    <2> HIDE DEF left
    <2>2. CASE d = e
      BY <1>8, <1>10, <2>1, <2>2
    <2>3. CASE d # e
      BY <1>8, <1>10, <2>1, <2>3
    <2> QED
      BY <2>2, <2>3
  <1>14. Files' = Files \ R
    BY <1>7, <1>10, <1>11, <1>12 DEF Files
  <1>15. id \in DOMAIN Dirs => e \notin Tree!Beneath(id)
    BY <1>1, <1>3, DirsAre DEF MayAsk, KnownBeneath
  <1>16. CASE newname \notin DOMAIN Listing(e)
    <2>1. R = {}
      BY <1>2, <1>16 DEF Replaced
    <2>2. Files' = Files
      BY <1>14, <2>1
    <2>3. Dirs' = moved
      <3>1. \A t \in Slots : t \in DOMAIN moved <=> IsDirectory(t)'
        BY <1>8, <1>10, <1>11, <1>13, <2>1, DirsAre
      <3>2. \A t \in DOMAIN moved : t \in Slots /\ moved[t] = Listing(t)'
        BY <1>11, <1>13, <2>1, DirsAre
      <3> HIDE DEF moved
      <3> QED
        BY <1>13, <3>1, <3>2, DirsBecome
    <2>4. Tree!Move(d, name, e, newname)
      BY <1>1, <1>4, <1>8, <1>15, <1>16, <2>2, <2>3 DEF Tree!Move
    <2> QED
      BY <1>3, <1>8, <2>4 DEF Tree!Next
  <1>17. CASE newname \in DOMAIN Listing(e)
    <2>1. PICK old : old = Listing(e)[newname] /\ R = {old}
      BY <1>2, <1>17 DEF Replaced
    <2> DEFINE all == Tree!Gone(moved, old)
    <2>2. /\ DOMAIN all = DOMAIN moved \ {old} /\ all = [x \in DOMAIN all |-> all[x]]
          /\ \A t \in DOMAIN all : all[t] = moved[t]
      <3> HIDE DEF moved
      <3> QED
        BY DEF Tree!Gone, Restrict, Tree!Restrict
    <2>3. Dirs' = all
      <3>1. \A t \in Slots : t \in DOMAIN all <=> IsDirectory(t)'
        <4> HIDE DEF moved, all
        <4> QED
          BY <1>7, <1>8, <1>10, <1>11, <1>12, <1>13, <2>1, <2>2, DirsAre
      <3>2. \A t \in DOMAIN all : t \in Slots /\ all[t] = Listing(t)'
        <4> HIDE DEF moved, all
        <4> QED
          BY <1>11, <1>13, <2>1, <2>2, DirsAre
      <3> HIDE DEF all
      <3> QED
        BY <2>2, <3>1, <3>2, DirsBecome
    <2>4. Files' = Files \ {old}
      BY <1>14, <2>1
    <2>5. Tree!MayReplace(id, old)
      <3>1. (IsFile(old) /\ IsFile(id)) \/ (IsDirectory(old) /\ IsDirectory(id) /\ Listing(old) = <<>>)
        BY <1>6, <2>1
      <3>2. old \in Slots
        BY <1>6, <2>1
      <3> QED
        BY <1>5, <3>1, <3>2, DirsAre DEF Tree!MayReplace, Tree!IsEmpty, Files
    <2>6. Tree!Move(d, name, e, newname)
      BY <1>1, <1>4, <1>8, <1>15, <1>17, <2>1, <2>3, <2>4, <2>5 DEF Tree!Move
    <2> QED
      BY <1>3, <1>8, <2>6 DEF Tree!Next
  <1> QED
    BY <1>16, <1>17

(* A request takes a step of NameTree or leaves the names alone, unless      *)
(* something is lost; one that failed leaves them alone.                     *)
NamesMoved == Tree!Next /\ ~failed'
NamesStay == Dirs' = Dirs /\ Files' = Files

LEMMA NamesStep ==
    ASSUME SlotsInv, [Next]_vars
    PROVE  NamesMoved \/ NamesStay \/ lost'
  <1> SUFFICES ASSUME ~lost' PROVE NamesMoved \/ NamesStay
    OBVIOUS
  <1>10. dangling = {}
    BY RenameIs DEF Next, vars, SlotsInv
  <1>1. ASSUME TreeKept PROVE NamesStay
    BY <1>1, TreeKeptNames DEF NamesStay
  <1>2. ASSUME NodesKept PROVE NamesStay
    BY <1>1, <1>2, SameNodesKept
  <1>3. CASE UNCHANGED vars
    BY <1>2, <1>3 DEF vars, NodesKept, SlotsInv, TypeOK
  <1>4. CASE Refused
    BY <1>2, <1>4, RefusedIs DEF SlotsInv
  <1>5. ASSUME NEW d \in Parents, NEW name \in Names, lost' = lost, dangling' = dangling, ~Refused,
               \/ Lookup(d, name) \/ Mkdir(d, name) \/ Create(d, name)
               \/ Rmdir(d, name) \/ Unlink(d, name)
        PROVE  NamesMoved \/ NamesStay
    <2>1. d \in Slots /\ IsDirectory(d)
      BY ParentIs DEF SlotsInv
    <2>2. CASE Lookup(d, name)
      BY <1>2, <1>5, <2>1, <2>2, LookupSafe
    <2>3. CASE Mkdir(d, name) \/ Create(d, name)
      <3>1. CASE NotAdded(d)
        BY <1>2, <1>10, <3>1, NotAddedIs DEF SlotsInv
      <3>2. CASE \E node \in NewNodes : Added(d, name, node)
        <4>1. PICK node \in NewNodes : Added(d, name, node)
          BY <3>2
        <4>2. ~failed'
          BY <4>1 DEF Added
        <4> QED
          BY <1>10, <2>1, <4>1, <4>2, AddedMaps DEF NamesMoved
      <3> QED
        BY <2>3, <3>1, <3>2, MadeIs
    <2>4. CASE Rmdir(d, name)
      <3>1. PICK id : id = Listing(d)[name]
        OBVIOUS
      <3>2. /\ name \in DOMAIN Listing(d) /\ Listing(id) = <<>> /\ failed' = FALSE
            /\ nodes' = Wiped(SourceWritten(d, name), {id}) /\ d # id
        BY <1>5, <2>1, <2>4, <3>1, RmdirCuts
      <3>3. PICK R : R = {id}
        OBVIOUS
      <3>4. d \notin R /\ id \in R /\ \A s \in R \ {id} : ~IsFile(s) /\ ~IsDirectory(s)
        BY <3>2, <3>3
      <3>5. nodes' = Wiped(SourceWritten(d, name), R)
        BY <3>2, <3>3
      <3>6. Tree!Next
        BY <2>1, <3>1, <3>2, <3>4, <3>5, CutMaps
      <3> QED
        BY <3>2, <3>6 DEF NamesMoved
    <2>5. CASE Unlink(d, name)
      <3>1. PICK id : id = Listing(d)[name]
        OBVIOUS
      <3>2. /\ name \in DOMAIN Listing(d) /\ IsFile(id) /\ failed' = FALSE
            /\ nodes' = Wiped(SourceWritten(d, name), SlotsOfFile(id))
            /\ id \in SlotsOfFile(id)
            /\ \A s \in SlotsOfFile(id) : ~IsDirectory(s) /\ (s # id => ~IsFile(s))
        BY <1>10, <2>1, <2>5, <3>1, UnlinkCuts
      <3>3. PICK R : R = SlotsOfFile(id)
        OBVIOUS
      <3>4. d \notin R /\ id \in R /\ \A s \in R \ {id} : ~IsFile(s) /\ ~IsDirectory(s)
        BY <2>1, <3>2, <3>3
      <3>5. IsDirectory(id) => Listing(id) = <<>>
        BY <3>2 DEF IsFile, IsDirectory
      <3>6. nodes' = Wiped(SourceWritten(d, name), R)
        BY <3>2, <3>3
      <3>7. Tree!Next
        BY <2>1, <3>1, <3>2, <3>4, <3>5, <3>6, CutMaps
      <3> QED
        BY <3>2, <3>7 DEF NamesMoved
    <2> QED
      BY <1>5, <2>2, <2>3, <2>4, <2>5
  <1>6. ASSUME NEW h \in Handles, Open(h) PROVE NamesStay
    BY <1>2, <1>6 DEF Open, NodesKept, SlotsInv, TypeOK
  <1>7. ASSUME NEW h \in DOMAIN files, WriteThrough(h), ~Refused,
               lost' = lost, dangling' = dangling
        PROVE  NamesStay
    BY <1>1, <1>7, <1>10, WriteThroughSafe DEF WriteThrough
  <1>8. ASSUME (\E h \in DOMAIN files : Flush(h) \/ Release(h)) \/ Remount,
               lost' = lost, dangling' = dangling
        PROVE  NamesStay
    BY <1>1, <1>8, <1>10, FlushesSafe
  <1>9. ASSUME NEW d \in Parents, NEW e \in Parents, NEW name \in Names, NEW newname \in Names,
               Rename(d, name, e, newname), ~lost'
        PROVE  NamesMoved
    <2>1. d \in Slots /\ IsDirectory(d) /\ e \in Slots /\ IsDirectory(e)
      BY ParentIs DEF SlotsInv
    <2>2. ~failed'
      BY <1>9 DEF Rename, Renamed
    <2> QED
      BY <1>9, <2>1, <2>2, RenamedMaps DEF NamesMoved
  <1> QED
    BY <1>3, <1>4, <1>5, <1>6, <1>7, <1>8, <1>9 DEF Next

LEMMA NamesInit ==
    ASSUME Init
    PROVE  Tree!Init
  <1>1. nodes[Root] = Directory(<<>>) /\ \A s \in Slots \ {Root} : nodes[s] = Noise
    BY SlotsAssumption DEF Init
  <1>2. \A s \in Slots : ~IsFile(s) /\ (IsDirectory(s) <=> s = Root)
    BY <1>1, Kinds DEF IsFile, IsDirectory
  <1>3. Listing(Root) = <<>>
    BY <1>1, Kinds DEF Listing
  <1>4. {t \in Slots : IsDirectory(t)} = {Root}
    BY <1>2, SlotsAssumption
  <1>5. Dirs = [t \in {Root} |-> <<>>]
    BY <1>3, <1>4 DEF Dirs
  <1> QED
    BY <1>2, <1>5 DEF Tree!Init, Files

-----------------------------------------------------------------------------
(* The theorems.  "over open", a rename onto a file with a handle, leaves    *)
(* that handle behind: there the properties fail, and they are stated for    *)
(* the requests without it.                                                  *)

(* The type invariant: inode numbers stay below the bound, and a slot is on  *)
(* the free list once or not at all.  A slot that a failed rename freed under*)
(* its name may come to be there twice: it is in dangling.                   *)
THEOREM TypeCorrect ==
    ASSUME NoneOverOpen
    PROVE  Spec => []TypeOK
  <1>1. SlotsInv => TypeOK
    BY DEF SlotsInv
  <1> QED
    BY <1>1, SlotsAlways, PTL

(* No slot is named twice, none that is named or that a file's head names is *)
(* free, and no two files share one: what dir_add_entry, op_unlink, op_rmdir *)
(* and op_rename must keep, however many requests there were.  The slots that*)
(* op_rename freed and then failed to take the name from are excepted, and   *)
(* they alone: whoever is given such a slot, and whatever is freed through   *)
(* the name that still leads there, no other slot loses its one owner.       *)
THEOREM EveryNameItsOwn ==
    ASSUME NoneOverOpen
    PROVE  Spec => []TreeIsSound
  <1>1. ASSUME SlotsInv PROVE TreeIsSound
    <2>1. ASSUME NEW s \in Slots \ dangling, Entries(s) # {}
          PROVE  Cardinality(Entries(s)) = 1 /\ free[s] = 0 /\ (IsFile(s) \/ IsDirectory(s))
      <3>1. \A e \in Entries(s) : e = <<e[1], e[2]>> /\ e[1] \in Slots /\ e[2] \in Names /\ Leads(e[1], e[2], s)
        <4>1. DOMAIN Dirs = {t \in Slots : IsDirectory(t)}
          BY DirsAre
        <4> QED
          BY <4>1 DEF Entries, Leads
      <3>2. PICK e \in Entries(s) : TRUE
        BY <2>1
      <3>3. \A f \in Entries(s) : f = e
        BY <1>1, <3>1, <3>2 DEF SlotsInv, EntriesApart
      <3>4. Entries(s) = {e}
        BY <3>2, <3>3
      <3>5. Cardinality(Entries(s)) = 1
        BY <3>4, FS_Singleton
      <3>6. IsFile(s) \/ IsDirectory(s)
        BY <1>1, <3>1, <3>2 DEF SlotsInv, EntriesApart
      <3>7. free[s] = 0
        BY <1>1, <3>6, Kinds, UsedIsNotFree DEF SlotsInv, IsFile, IsDirectory
      <3> QED
        BY <3>5, <3>6, <3>7
    <2>2. ASSUME NEW f \in Files, NEW s \in nodes[f].slots \ dangling
          PROVE  /\ free[s] = 0 /\ nodes[s] = FileDataBlock
                 /\ \A g \in Files \ {f} : s \notin nodes[g].slots
      <3>1. nodes[s] = FileDataBlock /\ \A g \in Files \ {f} : s \notin nodes[g].slots
        BY <1>1, <2>2 DEF SlotsInv, DataApart
      <3>2. s \in Slots \ dangling
        BY <1>1, NodeShape DEF SlotsInv, Files
      <3>3. free[s] = 0
        BY <1>1, <3>1, <3>2, Kinds, UsedIsNotFree DEF SlotsInv
      <3> QED
        BY <3>1, <3>3
    <2> QED
      BY <2>1, <2>2 DEF TreeIsSound
  <1> QED
    BY <1>1, SlotsAlways, PTL

(* SECURITY.md:114-115: what a free slot held has been overwritten, by every *)
(* path that frees one.  (Excepted as above: a slot that is freed again while*)
(* it is on the free list may be used and be on the list still.)             *)
THEOREM FreedIsWiped ==
    ASSUME NoneOverOpen
    PROVE  Spec => []FreeIsNoise
  <1>1. SlotsInv => FreeIsNoise
    BY DEF SlotsInv
  <1> QED
    BY <1>1, SlotsAlways, PTL

(* Until a rename loses something, the head a handle will write at its next  *)
(* flush is that of a file with a name.                                      *)
THEOREM HandlesHaveFiles ==
    ASSUME NoneOverOpen
    PROVE  Spec => []HandlesOnFiles
  <1>1. KnownInv => HandlesOnFiles
    BY DEF KnownInv
  <1> QED
    BY <1>1, KnownAlways, PTL

(* Until then too, every inode number leads to something with a name: the    *)
(* InodeMap never answers with a slot that was given out again.              *)
THEOREM InodesHaveNames ==
    ASSUME NoneOverOpen
    PROVE  Spec => []InodesNamed
  <1>1. KnownInv => InodesNamed
    BY DEF KnownInv
  <1> QED
    BY <1>1, KnownAlways, PTL

(* A request answered with an error leaves every name where it was, until a  *)
(* rename fails that has already taken a name away.                          *)
THEOREM FailedRequestsKeepNames ==
    ASSUME NoneOverOpen
    PROVE  Spec => FailuresKeepNames
  <1>1. SlotsInv /\ [Next]_vars => [failed' => lost' \/ UNCHANGED <<Dirs, Files>>]_vars
    BY NamesStep DEF NamesMoved, NamesStay
  <1> QED
    BY <1>1, SlotsAlways, PTL DEF Spec, FailuresKeepNames

(* Every request does to the names what one step of NameTree does, or        *)
(* nothing, until one loses something: the names that VenomFuse keeps are    *)
(* those of a directory tree.                                                *)
THEOREM ImplementsNameTree ==
    ASSUME NoneOverOpen
    PROVE  Spec => IsNameTree
  <1>1. Init => Tree!Init
    BY NamesInit
  <1>2. SlotsInv /\ [Next]_vars => [Tree!Next \/ lost']_<<Dirs, Files>>
    BY NamesStep DEF NamesMoved, NamesStay
  <1> QED
    BY <1>1, <1>2, SlotsAlways, PTL DEF Spec, IsNameTree

=============================================================================
