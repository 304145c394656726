---------------------------- MODULE RollbackFile ----------------------------
(***************************************************************************)
(* vnmcore/src/rollback.rs: the one file in which every process of a user  *)
(* keeps, for every container, the last generation it flushed.             *)
(*                                                                         *)
(* flush and reset_rollback_state load the whole file, change one entry    *)
(* and write the whole file back; std::fs::write truncates it first.  There*)
(* is no lock and no rename of a finished copy, so processes can meet at   *)
(* any of these steps, and a write can fail half way.  A process uses one  *)
(* container, which no other process uses meanwhile; what flush does to the*)
(* container file itself is SlotStore's.                                   *)
(***************************************************************************)
EXTENDS Integers, FiniteSets, Functions

CONSTANTS
    Containers,     \* container_ids
    Processes,
    Faults,
    MaxGeneration   \* bound: flushes of one container

(* "crash": a process dies; "write": fs::write returns an error, before or   *)
(* after it truncated.                                                       *)
FaultKinds == {"crash", "write"}

ASSUME RollbackAssumption == Faults \subseteq FaultKinds /\ MaxGeneration \in Nat

VARIABLES
    state,      \* rollback.json: [readable, entries: container -> generation]
    disk,       \* container -> generation its file carries
    proc,       \* process -> Closed, or what it has in memory
    acked,      \* history: generation of the last flush that returned Ok, 0 after a reset
    peak        \* history: highest generation the container file ever carried

vars == <<state, disk, proc, acked, peak>>

Closed == [at |-> "closed"]
NoEntries == [c \in {} |-> 0]

Uses(p, c) == proc[p] # Closed /\ proc[p].container = c
At(p, where) == proc[p].at = where

(* RollbackState::load: what cannot be parsed counts as empty. *)
Loaded == IF state.readable THEN state.entries ELSE NoEntries

(* RollbackState::check *)
Accepts(c) == c \in DOMAIN Loaded => disk[c] >= Loaded[c]

Init ==
    /\ state = [readable |-> FALSE, entries |-> NoEntries]
    /\ disk = [c \in Containers |-> 0]
    /\ proc = [p \in Processes |-> Closed]
    /\ acked = [c \in Containers |-> 0]
    /\ peak = [c \in Containers |-> 0]

(* VnmContainer::open, which refuses with RollbackDetected otherwise. *)
Open(p, c) ==
    /\ At(p, "closed")
    /\ \A q \in Processes : ~Uses(q, c)
    /\ Accepts(c)
    /\ proc' = [proc EXCEPT ![p] = [at |-> "open", container |-> c, task |-> "none",
                                    entries |-> NoEntries]]
    /\ UNCHANGED <<state, disk, acked, peak>>

Close(p) ==
    /\ At(p, "open")
    /\ proc' = [proc EXCEPT ![p] = Closed]
    /\ UNCHANGED <<state, disk, acked, peak>>

(* save_free_list and flush_file: the next generation is in the file. *)
Saved(c) == [disk EXCEPT ![c] = @ + 1]

Flush(p) ==
    /\ At(p, "open")
    /\ LET c == proc[p].container
       IN /\ disk[c] < MaxGeneration
          /\ disk' = Saved(c)
          /\ peak' = [peak EXCEPT ![c] = IF disk'[c] > @ THEN disk'[c] ELSE @]
    /\ proc' = [proc EXCEPT ![p].at = "saved", ![p].task = "update"]
    /\ UNCHANGED <<state, acked>>

(* reset_rollback_state *)
Reset(p) ==
    /\ At(p, "open")
    /\ proc' = [proc EXCEPT ![p].at = "saved", ![p].task = "reset"]
    /\ acked' = [acked EXCEPT ![proc[p].container] = 0]
    /\ UNCHANGED <<state, disk, peak>>

Put(entries, c, gen) == [d \in DOMAIN entries \union {c} |-> IF d = c THEN gen ELSE entries[d]]

(* Mutated form of Changed: one generation too many. *)
ChangedOneMore(p) == Put(Loaded, proc[p].container, disk[proc[p].container] + 1)

(* RollbackState::update, reset: the entry in memory. *)
Changed(p) ==
    LET c == proc[p].container
    IN IF proc[p].task = "update" THEN Put(Loaded, c, disk[c])
       ELSE Restrict(Loaded, DOMAIN Loaded \ {c})

Load(p) ==
    /\ At(p, "saved")
    /\ proc' = [proc EXCEPT ![p].at = "loaded", ![p].entries = Changed(p)]
    /\ UNCHANGED <<state, disk, acked, peak>>

(* persist, up to the truncation by fs::write. *)
Truncate(p) ==
    /\ At(p, "loaded")
    /\ state' = [readable |-> FALSE, entries |-> NoEntries]
    /\ proc' = [proc EXCEPT ![p].at = "truncated"]
    /\ UNCHANGED <<disk, acked, peak>>

(* The bytes are written from offset 0.  If another process has written      *)
(* since the truncation and wrote more, its tail is left behind them.        *)
Persist(p) ==
    /\ At(p, "truncated")
    /\ \E clean \in IF state.readable THEN BOOLEAN ELSE {TRUE} :
          state' = [readable |-> clean, entries |-> IF clean THEN proc[p].entries ELSE NoEntries]
    /\ proc' = [proc EXCEPT ![p].at = "open", ![p].task = "none", ![p].entries = NoEntries]
    /\ acked' = IF proc[p].task = "update"
                THEN [acked EXCEPT ![proc[p].container] = disk[proc[p].container]] ELSE acked
    /\ UNCHANGED <<disk, peak>>

(* fs::write fails; flush or reset returns Err. *)
WriteFails(p) ==
    /\ "write" \in Faults
    /\ At(p, "loaded") \/ At(p, "truncated")
    /\ proc' = [proc EXCEPT ![p].at = "open", ![p].task = "none", ![p].entries = NoEntries]
    /\ UNCHANGED <<state, disk, acked, peak>>

Crash(p) ==
    /\ "crash" \in Faults
    /\ ~At(p, "closed") /\ ~At(p, "open")
    /\ proc' = [proc EXCEPT ![p] = Closed]
    /\ UNCHANGED <<state, disk, acked, peak>>

(* An older copy of a container file is put in its place. *)
Restore(c) ==
    /\ \A p \in Processes : ~Uses(p, c)
    /\ \E g \in 0..MaxGeneration : g < disk[c] /\ disk' = [disk EXCEPT ![c] = g]
    /\ UNCHANGED <<state, proc, acked, peak>>

Next ==
    \/ \E p \in Processes :
          \/ \E c \in Containers : Open(p, c)
          \/ Close(p) \/ Flush(p) \/ Reset(p) \/ Load(p) \/ Truncate(p) \/ Persist(p)
          \/ WriteFails(p) \/ Crash(p)
    \/ \E c \in Containers : Restore(c)

Spec == Init /\ [][Next]_vars

-----------------------------------------------------------------------------
(***************************************************************************)
(* Properties.                                                             *)
(***************************************************************************)

Generations == 0..MaxGeneration
EntriesOf == UNION {[S -> Generations] : S \in SUBSET Containers}
Session == [at: {"open", "saved", "loaded", "truncated"}, container: Containers,
            task: {"none", "update", "reset"}, entries: EntriesOf]

TypeOK ==
    /\ state \in [readable: BOOLEAN, entries: EntriesOf]
    /\ disk \in [Containers -> Generations]
    /\ proc \in [Processes -> Session \union {Closed}]
    /\ acked \in [Containers -> Generations]
    /\ peak \in [Containers -> Generations]

(* RollbackDetected is never raised on a container that nobody set back, at  *)
(* whatever step processes meet, die or fail (flush writes the container     *)
(* before the baseline).                                                     *)
NoFalseRefusal == \A c \in Containers : ~Accepts(c) => disk[c] < peak[c]

Below(entries, top) == \A c \in DOMAIN entries : entries[c] <= top[c]

(* No baseline, in the file or in the memory of a process that has not       *)
(* written it yet, is ahead of what the container file has carried (load,    *)
(* update, reset and persist, in every interleaving).                        *)
BaselinesBelowPeak ==
    /\ \A c \in Containers : disk[c] <= peak[c]
    /\ Below(state.entries, peak)
    /\ \A p \in Processes : proc[p] # Closed => Below(proc[p].entries, peak)

AllIdle == \A p \in Processes : At(p, "closed") \/ At(p, "open")

(* A container set back behind its last successful flush is refused, however *)
(* many others were flushed or reset since (load, update, persist).          *)
OlderRefused == AllIdle => \A c \in Containers : disk[c] < acked[c] => ~Accepts(c)

=============================================================================
