---------------------------- MODULE VolumePromise ----------------------------
(***************************************************************************)
(* What a volume promises the filesystem above it, said without free list, *)
(* bitmap, generation, Merkle root or file: an open volume shows a view,   *)
(* the contents of the slots in use; a save makes the view durable; closing*)
(* or dying loses the view; opening a sealed volume brings back exactly the*)
(* durable view or nothing.                                                *)
(*                                                                         *)
(* A volume is sealed once an integrity root has been stored.  Of an open  *)
(* of an unsealed volume nothing is promised: the first mount of a new     *)
(* container until its first flush, and a volume whose allocation block    *)
(* can no longer be read.                                                  *)
(***************************************************************************)
CONSTANT Slots

VARIABLES
    mounted,    \* somebody has the volume open
    view,       \* slot in use -> contents; empty while nobody has
    durable,    \* the view at the last save
    changed,    \* the view is known to differ from what it was at the mount
    sealed

vars == <<mounted, view, durable, changed, sealed>>

Init ==
    /\ mounted = FALSE
    /\ view = <<>>
    /\ DOMAIN durable \subseteq Slots
    /\ changed = FALSE
    /\ sealed \in BOOLEAN

(* A change is noted, unless the write that makes it fails half way. *)
Noted == changed' \in {changed, TRUE}

(* A slot nobody uses is given out. *)
Allocate ==
    /\ mounted
    /\ \E s \in Slots \ DOMAIN view :
          /\ DOMAIN view' = DOMAIN view \union {s}
          /\ \A t \in DOMAIN view : view'[t] = view[t]
    /\ Noted
    /\ UNCHANGED <<mounted, durable, sealed>>

(* One slot gets new contents, which show if it is in use. *)
Overwrite ==
    /\ mounted
    /\ DOMAIN view' = DOMAIN view
    /\ \E s \in Slots : \A t \in DOMAIN view \ {s} : view'[t] = view[t]
    /\ Noted
    /\ UNCHANGED <<mounted, durable, sealed>>

(* A slot goes out of use; all others keep their contents. *)
Release ==
    /\ mounted
    /\ \E s \in DOMAIN view : view' = [t \in DOMAIN view \ {s} |-> view[t]]
    /\ Noted
    /\ UNCHANGED <<mounted, durable, sealed>>

(* A save of changes seals the volume, and a sealed volume stays so (one in  *)
(* which not even the root slot is in use has nothing to seal).              *)
Save ==
    /\ mounted
    /\ durable' = view
    /\ {sealed', changed'} \subseteq BOOLEAN
    /\ (sealed \/ changed) /\ view # <<>> => sealed'
    /\ UNCHANGED <<mounted, view>>

(* Unmount, or the death of the process. *)
Leave ==
    /\ mounted
    /\ mounted' = FALSE
    /\ view' = <<>>
    /\ changed' = FALSE
    /\ UNCHANGED <<durable, sealed>>

Mount ==
    /\ ~mounted
    /\ mounted' = TRUE
    /\ DOMAIN view' \subseteq Slots
    /\ sealed => view' = durable
    /\ changed' = FALSE
    /\ UNCHANGED <<durable, sealed>>

(* A save fails before it takes effect, or the medium decays: the allocation *)
(* block, and the seal with it, may be lost.                                 *)
FailSave ==
    /\ sealed' \in {sealed, FALSE}
    /\ changed' \in {changed, FALSE}
    /\ UNCHANGED <<mounted, view, durable>>

Next == Allocate \/ Overwrite \/ Release \/ Save \/ Leave \/ Mount \/ FailSave

Spec == Init /\ [][Next]_vars

=============================================================================
