------------------------------ MODULE NameTree ------------------------------
(***************************************************************************)
(* What a mounted volume promises about names: a tree of directories in    *)
(* which every request happens at once or not at all, as on any directory  *)
(* of Linux.  There are no slots to run out of, no inode numbers and no    *)
(* handles; an id stands for a file or a directory as long as it lives.    *)
(***************************************************************************)
EXTENDS Naturals, FiniteSets, Functions

CONSTANTS Ids, Names, Root

VARIABLES
    dirs,       \* directory -> name -> id
    plain       \* ids of files

vars == <<dirs, plain>>

Live == DOMAIN dirs \union plain
IsEmpty(d) == dirs[d] = <<>>

(* The directories that d cannot be moved into: d and all beneath it, found  *)
(* level by level.                                                           *)
Beneath(d) ==
    LET within[n \in 0..Cardinality(DOMAIN dirs)] ==
            IF n = 0 THEN {d}
            ELSE within[n - 1] \union
                 (UNION {Range(dirs[e]) : e \in within[n - 1]} \intersect DOMAIN dirs)
    IN within[Cardinality(DOMAIN dirs)]

(* The entries of a directory with one taken out, or one put in. *)
Without(entries, name) == Restrict(entries, DOMAIN entries \ {name})
With(entries, name, id) ==
    [n \in DOMAIN entries \union {name} |-> IF n = name THEN id ELSE entries[n]]

Gone(d, id) == Restrict(d, DOMAIN d \ {id})

(* May id take the place of old?  A file that of a file, a directory that of *)
(* an empty directory.                                                       *)
MayReplace(id, old) ==
    \/ id \in plain /\ old \in plain
    \/ id \in DOMAIN dirs /\ old \in DOMAIN dirs /\ IsEmpty(old)

-----------------------------------------------------------------------------
Init ==
    /\ dirs = [d \in {Root} |-> <<>>]
    /\ plain = {}

MakeFile(d, name, id) ==
    /\ name \notin DOMAIN dirs[d]
    /\ dirs' = [dirs EXCEPT ![d] = With(@, name, id)]
    /\ plain' = plain \union {id}

MakeDirectory(d, name, id) ==
    /\ name \notin DOMAIN dirs[d]
    /\ dirs' = With([dirs EXCEPT ![d] = With(@, name, id)], id, <<>>)
    /\ UNCHANGED plain

Remove(d, name) ==
    /\ dirs[d][name] \in DOMAIN dirs => IsEmpty(dirs[d][name])
    /\ dirs' = Gone([dirs EXCEPT ![d] = Without(@, name)], dirs[d][name])
    /\ plain' = plain \ {dirs[d][name]}

(* The old entry goes and the new one comes, in one step. *)
Move(d, name, e, newname) ==
    LET id    == dirs[d][name]
        left  == Without(dirs[d], name)
        moved == IF d = e THEN [dirs EXCEPT ![d] = With(left, newname, id)]
                 ELSE [dirs EXCEPT ![d] = left, ![e] = With(@, newname, id)]
    IN /\ <<d, name>> # <<e, newname>>
       /\ \/ /\ newname \notin DOMAIN dirs[e]
             /\ dirs' = moved
             /\ UNCHANGED plain
          \/ /\ newname \in DOMAIN dirs[e]
             /\ MayReplace(id, dirs[e][newname])
             /\ dirs' = Gone(moved, dirs[e][newname])
             /\ plain' = plain \ {dirs[e][newname]}
       /\ id \in DOMAIN dirs => e \notin Beneath(id)

Next ==
    \E d \in DOMAIN dirs :
        \/ \E name \in Names, id \in Ids \ Live : MakeFile(d, name, id) \/ MakeDirectory(d, name, id)
        \/ \E name \in DOMAIN dirs[d] :
              \/ Remove(d, name)
              \/ \E e \in DOMAIN dirs, newname \in Names : Move(d, name, e, newname)

Spec == Init /\ [][Next]_vars

=============================================================================
