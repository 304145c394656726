------------------------- MODULE RollbackFileProofs -------------------------
(***************************************************************************)
(* Theorems about RollbackFile, for all sets of containers and processes,  *)
(* every choice of faults and every bound on generations.                  *)
(***************************************************************************)
EXTENDS RollbackFile, TLAPS

LEMMA LoadedType ==
    ASSUME TypeOK, BaselinesBelowPeak PROVE Loaded \in EntriesOf /\ Below(Loaded, peak)
  <1>1. NoEntries \in EntriesOf /\ Below(NoEntries, peak)
    BY DEF NoEntries, EntriesOf, Below
  <1> QED BY <1>1 DEF TypeOK, BaselinesBelowPeak, Loaded

(* Any subset of the entries of a file are entries, and so is one more.      *)
LEMMA PutType ==
    ASSUME NEW e \in EntriesOf, NEW c \in Containers, NEW g \in Generations
    PROVE  Put(e, c, g) \in EntriesOf
  <1>1. PICK S \in SUBSET Containers : e \in [S -> Generations]
    BY DEF EntriesOf
  <1>2. Put(e, c, g) \in [S \union {c} -> Generations]
    BY <1>1 DEF Put
  <1> QED BY <1>2 DEF EntriesOf

LEMMA RestrictType ==
    ASSUME NEW e \in EntriesOf, NEW c
    PROVE  Restrict(e, DOMAIN e \ {c}) \in EntriesOf
  <1>1. PICK S \in SUBSET Containers : e \in [S -> Generations]
    BY DEF EntriesOf
  <1>2. Restrict(e, DOMAIN e \ {c}) \in [S \ {c} -> Generations]
    BY <1>1 DEF Restrict
  <1> QED BY <1>2 DEF EntriesOf

LEMMA ChangedType ==
    ASSUME TypeOK, BaselinesBelowPeak, NEW p \in Processes, proc[p] \in Session
    PROVE  Changed(p) \in EntriesOf /\ Below(Changed(p), peak)
  <1> DEFINE c == proc[p].container
  <1>1. c \in Containers BY DEF Session
  <1>2. disk[c] \in Generations /\ disk[c] <= peak[c]
    BY <1>1 DEF TypeOK, BaselinesBelowPeak
  <1>3. Loaded \in EntriesOf /\ Below(Loaded, peak) BY LoadedType
  <1>4. Put(Loaded, c, disk[c]) \in EntriesOf /\ Below(Put(Loaded, c, disk[c]), peak)
    <2>1. Put(Loaded, c, disk[c]) \in EntriesOf BY <1>1, <1>2, <1>3, PutType
    <2>2. Below(Put(Loaded, c, disk[c]), peak) BY <1>2, <1>3 DEF Put, Below
    <2> QED BY <2>1, <2>2
  <1>5. /\ Restrict(Loaded, DOMAIN Loaded \ {c}) \in EntriesOf
        /\ Below(Restrict(Loaded, DOMAIN Loaded \ {c}), peak)
    <2>1. Restrict(Loaded, DOMAIN Loaded \ {c}) \in EntriesOf BY <1>3, RestrictType
    <2>2. Below(Restrict(Loaded, DOMAIN Loaded \ {c}), peak) BY <1>3 DEF Restrict, Below
    <2> QED BY <2>1, <2>2
  <1> QED BY <1>4, <1>5 DEF Changed

LEMMA EmptyType == NoEntries \in EntriesOf /\ Below(NoEntries, peak)
  BY DEF NoEntries, EntriesOf, Below

IInv == TypeOK /\ BaselinesBelowPeak

LEMMA Initially == Init => IInv
  <1> SUFFICES ASSUME Init PROVE IInv OBVIOUS
  <1>1. NoEntries \in EntriesOf /\ Below(NoEntries, peak) BY EmptyType
  <1>2. 0 \in Generations BY RollbackAssumption DEF Generations
  <1>3. TypeOK BY <1>1, <1>2 DEF Init, TypeOK
  <1>4. BaselinesBelowPeak BY <1>1, <1>2 DEF Init, BaselinesBelowPeak
  <1> QED BY <1>3, <1>4 DEF IInv

LEMMA Inductive == IInv /\ [Next]_vars => IInv'
  <1> SUFFICES ASSUME IInv, [Next]_vars PROVE IInv' OBVIOUS
  <1> USE DEF IInv
  <1>e. NoEntries \in EntriesOf /\ Below(NoEntries, peak) BY EmptyType
  <1>t. \A p \in Processes : ~At(p, "closed") => proc[p] \in Session
    BY DEF TypeOK, At, Closed
  <1>1. ASSUME NEW p \in Processes, NEW c \in Containers, Open(p, c) PROVE IInv'
    BY <1>1, <1>e DEF Open, TypeOK, BaselinesBelowPeak, Session, Below
  <1>2. ASSUME NEW p \in Processes, Close(p) PROVE IInv'
    BY <1>2 DEF Close, TypeOK, BaselinesBelowPeak, Below
  <1>3. ASSUME NEW p \in Processes, Flush(p) PROVE IInv'
    <2> DEFINE c == proc[p].container
    <2>1. proc[p] \in Session /\ c \in Containers
      BY <1>3, <1>t DEF Flush, At, Session
    <2>2. /\ disk[c] \in Generations /\ disk[c] + 1 \in Generations
          /\ disk' = [disk EXCEPT ![c] = disk[c] + 1]
          /\ peak' = [peak EXCEPT ![c] = IF disk'[c] > peak[c] THEN disk'[c] ELSE peak[c]]
      BY <1>3, <2>1, RollbackAssumption DEF Flush, Saved, TypeOK, Generations
    <2>3. \A d \in Containers :
             /\ disk'[d] \in Generations /\ peak'[d] \in Generations
             /\ disk'[d] <= peak'[d] /\ peak[d] <= peak'[d]
      BY <2>1, <2>2, RollbackAssumption DEF TypeOK, BaselinesBelowPeak, Generations
    <2>4. \A e \in EntriesOf : Below(e, peak) => Below(e, peak')
      BY <2>3, RollbackAssumption DEF Below, EntriesOf, TypeOK, Generations
    <2>5. disk' \in [Containers -> Generations] /\ peak' \in [Containers -> Generations]
      BY <2>2, <2>3 DEF TypeOK
    <2>6. /\ proc' = [proc EXCEPT ![p].at = "saved", ![p].task = "update"]
          /\ UNCHANGED <<state, acked>>
      BY <1>3 DEF Flush
    <2>7. TypeOK' BY <2>1, <2>5, <2>6 DEF TypeOK, Session
    <2>8. BaselinesBelowPeak'
      <3>1. Below(state'.entries, peak') BY <2>4, <2>6 DEF TypeOK, BaselinesBelowPeak, Below
      <3>2. ASSUME NEW q \in Processes, proc'[q] # Closed PROVE Below(proc'[q].entries, peak')
        <4>1. proc[q] \in Session /\ proc'[q].entries = proc[q].entries
          BY <2>1, <2>6, <3>2 DEF TypeOK, Session
        <4>2. proc[q].entries \in EntriesOf /\ Below(proc[q].entries, peak)
          BY <4>1 DEF BaselinesBelowPeak, Session, Closed
        <4> QED BY <4>1, <4>2, <2>4 DEF Below
      <3> QED BY <2>3, <3>1, <3>2 DEF BaselinesBelowPeak, Below
    <2> QED BY <2>7, <2>8
  <1>4. ASSUME NEW p \in Processes, Reset(p) PROVE IInv'
    <2>1. proc[p] \in Session BY <1>4, <1>t DEF Reset, At
    <2>2. 0 \in Generations BY RollbackAssumption DEF Generations
    <2>3. TypeOK' BY <1>4, <2>1, <2>2 DEF Reset, TypeOK, Session
    <2>4. BaselinesBelowPeak'
      BY <1>4, <2>1 DEF Reset, TypeOK, BaselinesBelowPeak, Session, Closed, Below
    <2> QED BY <2>3, <2>4
  <1>5. ASSUME NEW p \in Processes, Load(p) PROVE IInv'
    <2>1. proc[p] \in Session BY <1>5, <1>t DEF Load, At
    <2>2. Changed(p) \in EntriesOf /\ Below(Changed(p), peak) BY <2>1, ChangedType
    <2>3. TypeOK' BY <1>5, <2>1, <2>2 DEF Load, TypeOK, Session
    <2>4. BaselinesBelowPeak'
      BY <1>5, <2>1, <2>2 DEF Load, TypeOK, BaselinesBelowPeak, Session, Closed, Below
    <2> QED BY <2>3, <2>4
  <1>6. ASSUME NEW p \in Processes, Truncate(p) PROVE IInv'
    <2>1. proc[p] \in Session BY <1>6, <1>t DEF Truncate, At
    <2>2. TypeOK' BY <1>6, <1>e, <2>1 DEF Truncate, TypeOK, Session
    <2>3. BaselinesBelowPeak'
      BY <1>6, <1>e, <2>1 DEF Truncate, TypeOK, BaselinesBelowPeak, Session, Closed, Below
    <2> QED BY <2>2, <2>3
  <1>7. ASSUME NEW p \in Processes, Persist(p) PROVE IInv'
    <2>1. proc[p] \in Session /\ proc[p] # Closed
      BY <1>7, <1>t DEF Persist, At, Closed, Session
    <2>2. proc[p].entries \in EntriesOf /\ Below(proc[p].entries, peak)
      BY <2>1 DEF BaselinesBelowPeak, Session
    <2>3. state' \in [readable: BOOLEAN, entries: EntriesOf] /\ Below(state'.entries, peak)
      <3>1. PICK clean \in BOOLEAN :
               state' = [readable |-> clean,
                         entries |-> IF clean THEN proc[p].entries ELSE NoEntries]
        BY <1>7 DEF Persist
      <3> QED BY <3>1, <1>e, <2>2
    <2>4. acked' \in [Containers -> Generations]
      BY <1>7, <2>1 DEF Persist, TypeOK, Session
    <2>5. TypeOK' BY <1>7, <1>e, <2>1, <2>3, <2>4 DEF Persist, TypeOK, Session
    <2>6. BaselinesBelowPeak'
      BY <1>7, <1>e, <2>1, <2>3 DEF Persist, TypeOK, BaselinesBelowPeak, Session, Closed, Below
    <2> QED BY <2>5, <2>6
  <1>8. ASSUME NEW p \in Processes, WriteFails(p) PROVE IInv'
    <2>1. proc[p] \in Session BY <1>8, <1>t DEF WriteFails, At
    <2>2. TypeOK' BY <1>8, <1>e, <2>1 DEF WriteFails, TypeOK, Session
    <2>3. BaselinesBelowPeak'
      BY <1>8, <1>e, <2>1 DEF WriteFails, TypeOK, BaselinesBelowPeak, Session, Closed, Below
    <2> QED BY <2>2, <2>3
  <1>9. ASSUME NEW p \in Processes, Crash(p) PROVE IInv'
    BY <1>9 DEF Crash, TypeOK, BaselinesBelowPeak, Below
  <1>10. ASSUME NEW c \in Containers, Restore(c) PROVE IInv'
    <2>1. PICK g \in 0..MaxGeneration : g < disk[c] /\ disk' = [disk EXCEPT ![c] = g]
      BY <1>10 DEF Restore
    <2>2. TypeOK' BY <1>10, <2>1 DEF Restore, TypeOK, Generations
    <2>3. BaselinesBelowPeak'
      BY <1>10, <2>1, RollbackAssumption
      DEF Restore, TypeOK, BaselinesBelowPeak, Generations, Below
    <2> QED BY <2>2, <2>3
  <1>11. CASE UNCHANGED vars
    BY <1>11 DEF vars, TypeOK, BaselinesBelowPeak, Below
  <1> QED BY <1>1, <1>2, <1>3, <1>4, <1>5, <1>6, <1>7, <1>8, <1>9, <1>10, <1>11 DEF Next

(* The inductive invariant of the file and of every process that is between  *)
(* its load and its write.                                                   *)
THEOREM BaselinesCorrect == Spec => [](TypeOK /\ BaselinesBelowPeak)
  <1> QED BY Initially, Inductive, PTL DEF Spec, IInv

(* However processes meet, die or fail at the state file, an open that is    *)
(* refused is that of a container file that was set back.                    *)
THEOREM RefusalsAreTrue == Spec => []NoFalseRefusal
  <1>1. IInv => NoFalseRefusal
    <2> SUFFICES ASSUME IInv, NEW c \in Containers, ~Accepts(c) PROVE disk[c] < peak[c]
      BY DEF NoFalseRefusal
    <2>1. c \in DOMAIN Loaded /\ ~(disk[c] >= Loaded[c]) BY DEF Accepts
    <2>2. Loaded \in EntriesOf /\ Below(Loaded, peak) BY LoadedType DEF IInv
    <2>3. Loaded[c] \in Generations /\ Loaded[c] <= peak[c]
      BY <2>1, <2>2 DEF EntriesOf, Below
    <2> QED BY <2>1, <2>3, RollbackAssumption DEF IInv, TypeOK, Generations
  <1> QED BY <1>1, BaselinesCorrect, PTL DEF IInv

-----------------------------------------------------------------------------
(* One process, and nothing fails: what the file remembers, and what the     *)
(* process has in memory while the file is empty.                            *)
Alone == Faults = {} /\ \A p, q \in Processes : p = q

Remembers(entries) ==
    \A c \in Containers : acked[c] # 0 => c \in DOMAIN entries /\ acked[c] <= entries[c]

(* What a process between its load and its write will write. *)
Carries(s) ==
    /\ Remembers(s.entries)
    /\ s.task = "update" =>
          s.container \in DOMAIN s.entries /\ s.entries[s.container] = disk[s.container]

AloneInv ==
    /\ (\A p \in Processes : ~At(p, "truncated")) => Remembers(Loaded)
    /\ \A p \in Processes : At(p, "truncated") => ~state.readable
    /\ \A p \in Processes : At(p, "loaded") \/ At(p, "truncated") => Carries(proc[p])
    /\ \A p \in Processes : At(p, "saved") /\ proc[p].task # "update" => acked[proc[p].container] = 0
    /\ \A p \in Processes : proc[p] # Closed => acked[proc[p].container] <= disk[proc[p].container]

LEMMA LoadedIsEntries == TypeOK => Loaded \in EntriesOf
  <1>1. NoEntries \in EntriesOf
    BY DEF NoEntries, EntriesOf
  <1> QED
    BY <1>1 DEF TypeOK, Loaded

LEMMA AloneStep ==
    ASSUME Alone, TypeOK, TypeOK', AloneInv, [Next]_vars
    PROVE  AloneInv'
  <1>t. /\ \A p \in Processes : ~At(p, "closed") => proc[p] \in Session
        /\ \A c \in Containers : disk[c] \in Generations /\ acked[c] \in Generations
        /\ \A p \in Processes : proc[p] = Closed \/ proc[p] \in Session
    BY DEF TypeOK, At, Closed
  <1>n. Generations \subseteq Nat
    BY RollbackAssumption DEF Generations
  <1>e. ASSUME NEW e \in EntriesOf, NEW c \in DOMAIN e PROVE e[c] \in Nat
    BY <1>n DEF EntriesOf
  <1>1. ASSUME NEW p \in Processes, NEW c \in Containers, Open(p, c) PROVE AloneInv'
    <2>1. /\ \A q \in Processes : q = p
          /\ proc'[p] = [at |-> "open", container |-> c, task |-> "none", entries |-> NoEntries]
          /\ UNCHANGED <<state, disk, acked, peak>> /\ proc[p].at = "closed"
      BY <1>1 DEF Open, Alone, TypeOK, At
    <2>2. Remembers(Loaded) /\ Accepts(c)
      BY <1>1, <2>1 DEF AloneInv, At, Open
    <2>3. acked[c] <= disk[c]
      <3>1. acked[c] \in Nat /\ disk[c] \in Nat
        BY <1>t, <1>n
      <3>2. CASE acked[c] # 0
        <4>1. c \in DOMAIN Loaded /\ acked[c] <= Loaded[c] /\ disk[c] >= Loaded[c]
          BY <2>2, <3>2 DEF Remembers, Accepts
        <4>2. Loaded[c] \in Nat
          BY <1>e, <4>1, LoadedIsEntries
        <4> QED
          BY <3>1, <4>1, <4>2
      <3> QED
        BY <3>1, <3>2
    <2>4. Remembers(Loaded)'
      BY <2>1, <2>2 DEF Remembers, Loaded
    <2> QED
      BY <2>1, <2>3, <2>4 DEF AloneInv, At
  <1>2. ASSUME NEW p \in Processes, Close(p) PROVE AloneInv'
    <2>1. /\ \A q \in Processes : q = p
          /\ proc'[p] = Closed
          /\ UNCHANGED <<state, disk, acked, peak>> /\ proc[p].at = "open"
      BY <1>2 DEF Close, Alone, TypeOK, At
    <2>2. Remembers(Loaded)
      BY <2>1 DEF AloneInv, At
    <2>3. Remembers(Loaded)'
      BY <2>1, <2>2 DEF Remembers, Loaded
    <2> QED
      BY <2>1, <2>3 DEF AloneInv, At, Closed
  <1>3. ASSUME NEW p \in Processes, Flush(p) PROVE AloneInv'
    <2> DEFINE c == proc[p].container
    <2>1. /\ \A q \in Processes : q = p
          /\ proc[p].at = "open" /\ proc[p] \in Session
      BY <1>3, <1>t DEF Flush, Alone, At
    <2>2. /\ disk' = [disk EXCEPT ![c] = @ + 1] /\ UNCHANGED <<state, acked>>
          /\ proc' = [proc EXCEPT ![p].at = "saved", ![p].task = "update"]
      BY <1>3 DEF Flush, Saved
    <2>3. c \in Containers /\ proc[p] # Closed
      BY <2>1 DEF Session, Closed
    <2>4. disk'[c] = disk[c] + 1 /\ acked[c] <= disk[c]
      BY <2>2, <2>3 DEF TypeOK, AloneInv
    <2>5. proc'[p].at = "saved" /\ proc'[p].task = "update" /\ proc'[p].container = c
      BY <2>1, <2>2 DEF TypeOK, Session
    <2>6. acked'[c] <= disk'[c]
      BY <1>t, <1>n, <2>2, <2>3, <2>4
    <2>7. Remembers(Loaded)
      BY <2>1 DEF AloneInv, At
    <2>8. Remembers(Loaded)'
      BY <2>2, <2>7 DEF Remembers, Loaded
    <2> QED
      BY <2>1, <2>5, <2>6, <2>8 DEF AloneInv, At
  <1>4. ASSUME NEW p \in Processes, Reset(p) PROVE AloneInv'
    <2> DEFINE c == proc[p].container
    <2>1. /\ \A q \in Processes : q = p
          /\ proc[p].at = "open" /\ proc[p] \in Session
      BY <1>4, <1>t DEF Reset, Alone, At
    <2>2. /\ acked' = [acked EXCEPT ![c] = 0] /\ UNCHANGED <<state, disk>>
          /\ proc' = [proc EXCEPT ![p].at = "saved", ![p].task = "reset"]
      BY <1>4 DEF Reset
    <2>3. c \in Containers
      BY <2>1 DEF Session
    <2>4. acked'[c] = 0 /\ \A d \in Containers : d # c => acked'[d] = acked[d]
      BY <2>2, <2>3 DEF TypeOK
    <2>5. proc'[p].at = "saved" /\ proc'[p].container = c
      BY <2>1, <2>2 DEF TypeOK, Session
    <2>6. acked'[c] <= disk'[c]
      BY <1>t, <1>n, <2>2, <2>3, <2>4
    <2>7. Remembers(Loaded)
      BY <2>1 DEF AloneInv, At
    <2>8. Remembers(Loaded)'
      BY <2>2, <2>3, <2>4, <2>7 DEF Remembers, Loaded
    <2> QED
      BY <2>1, <2>4, <2>5, <2>6, <2>8 DEF AloneInv, At
  <1>5. ASSUME NEW p \in Processes, Load(p) PROVE AloneInv'
    <2> DEFINE c == proc[p].container
               e == Changed(p)
    <2>1. /\ \A q \in Processes : q = p
          /\ proc[p].at = "saved" /\ proc[p] \in Session
      BY <1>5, <1>t DEF Load, Alone, At
    <2>2. /\ UNCHANGED <<state, disk, acked>>
          /\ proc' = [proc EXCEPT ![p].at = "loaded", ![p].entries = e]
      BY <1>5 DEF Load
    <2>3. c \in Containers /\ proc[p] # Closed
      BY <2>1 DEF Session, Closed
    <2>4. /\ proc'[p].at = "loaded" /\ proc'[p].container = c
          /\ proc'[p].entries = e /\ proc'[p].task = proc[p].task
      BY <2>1, <2>2 DEF TypeOK, Session
    <2>5. Remembers(Loaded) /\ acked[c] <= disk[c] /\ (proc[p].task # "update" => acked[c] = 0)
      BY <2>1, <2>3 DEF AloneInv, At
    <2>6. Remembers(e) /\ (proc[p].task = "update" => c \in DOMAIN e /\ e[c] = disk[c])
      <3>1. CASE proc[p].task = "update"
        <4>1. e = Put(Loaded, c, disk[c])
          BY <3>1 DEF Changed
        <4>2. /\ DOMAIN e = DOMAIN Loaded \union {c} /\ e[c] = disk[c]
              /\ \A d \in DOMAIN Loaded : d # c => e[d] = Loaded[d]
          BY <4>1 DEF Put
        <4> HIDE DEF e
        <4> QED
          BY <2>5, <4>2 DEF Remembers
      <3>2. CASE proc[p].task # "update"
        <4>1. e = Restrict(Loaded, DOMAIN Loaded \ {c})
          BY <3>2 DEF Changed
        <4>2. DOMAIN e = DOMAIN Loaded \ {c} /\ \A d \in DOMAIN e : e[d] = Loaded[d]
          BY <4>1 DEF Restrict
        <4> HIDE DEF e
        <4> QED
          BY <2>5, <3>2, <4>2 DEF Remembers
      <3> QED
        BY <3>1, <3>2
    <2> HIDE DEF e
    <2>7. Remembers(Loaded)' /\ Carries(proc[p])'
      BY <2>2, <2>4, <2>5, <2>6 DEF Remembers, Loaded, Carries
    <2> QED
      BY <2>1, <2>2, <2>4, <2>5, <2>7 DEF AloneInv, At
  <1>6. ASSUME NEW p \in Processes, Truncate(p) PROVE AloneInv'
    <2>1. /\ \A q \in Processes : q = p
          /\ proc[p].at = "loaded" /\ proc[p] \in Session
      BY <1>6, <1>t DEF Truncate, Alone, At
    <2>2. /\ ~state'.readable /\ UNCHANGED <<disk, acked>>
          /\ proc' = [proc EXCEPT ![p].at = "truncated"]
      BY <1>6 DEF Truncate
    <2>3. /\ proc'[p].at = "truncated" /\ proc'[p].container = proc[p].container
          /\ proc'[p].entries = proc[p].entries /\ proc'[p].task = proc[p].task /\ proc[p] # Closed
      BY <2>1, <2>2 DEF TypeOK, Session, Closed
    <2>4. Carries(proc[p]) /\ acked[proc[p].container] <= disk[proc[p].container]
      BY <2>1, <2>3 DEF AloneInv, At
    <2>5. Carries(proc[p])'
      BY <2>2, <2>3, <2>4 DEF Carries, Remembers
    <2> QED
      BY <2>1, <2>2, <2>3, <2>4, <2>5 DEF AloneInv, At
  <1>7. ASSUME NEW p \in Processes, Persist(p) PROVE AloneInv'
    <2> DEFINE c == proc[p].container
    <2>1. /\ \A q \in Processes : q = p
          /\ proc[p].at = "truncated" /\ proc[p] \in Session
      BY <1>7, <1>t DEF Persist, Alone, At
    <2>2. c \in Containers /\ proc[p] # Closed
      BY <2>1 DEF Session, Closed
    <2>3. Carries(proc[p]) /\ acked[c] <= disk[c] /\ ~state.readable
      BY <2>1, <2>2 DEF AloneInv, At
    <2>4. /\ state' = [readable |-> TRUE, entries |-> proc[p].entries] /\ UNCHANGED disk
          /\ proc' = [proc EXCEPT ![p].at = "open", ![p].task = "none", ![p].entries = NoEntries]
          /\ acked' = IF proc[p].task = "update" THEN [acked EXCEPT ![c] = disk[c]] ELSE acked
      BY <1>7, <2>3 DEF Persist
    <2>5. proc'[p].at = "open" /\ proc'[p].container = c
      BY <2>1, <2>4 DEF TypeOK, Session
    <2>6. Loaded' = proc[p].entries
      BY <2>4 DEF Loaded
    <2>7. /\ proc[p].task = "update" => acked'[c] = disk[c]
          /\ \A d \in Containers : d # c \/ proc[p].task # "update" => acked'[d] = acked[d]
      BY <2>2, <2>4 DEF TypeOK
    <2>8. Remembers(Loaded)'
      <3>1. ASSUME NEW d \in Containers, acked'[d] # 0
            PROVE  d \in DOMAIN proc[p].entries /\ acked'[d] <= proc[p].entries[d]
        <4>1. CASE d = c /\ proc[p].task = "update"
          <5>1. acked'[d] = disk[c] /\ disk[c] \in Nat
            BY <1>t, <1>n, <2>2, <2>7, <4>1
          <5>2. c \in DOMAIN proc[p].entries /\ proc[p].entries[c] = disk[c]
            BY <2>3, <4>1 DEF Carries
          <5> QED
            BY <4>1, <5>1, <5>2
        <4>2. CASE ~(d = c /\ proc[p].task = "update")
          BY <2>3, <2>7, <3>1, <4>2 DEF Carries, Remembers
        <4> QED
          BY <4>1, <4>2
      <3> QED
        BY <2>6, <3>1 DEF Remembers
    <2>9. acked'[c] <= disk'[c]
      BY <1>t, <1>n, <2>2, <2>3, <2>4, <2>7
    <2> QED
      BY <2>1, <2>5, <2>8, <2>9 DEF AloneInv, At
  <1>8. ASSUME NEW p \in Processes, WriteFails(p) \/ Crash(p) PROVE AloneInv'
    BY <1>8 DEF WriteFails, Crash, Alone
  <1>9. ASSUME NEW c \in Containers, Restore(c) PROVE AloneInv'
    <2>1. /\ \A p \in Processes : proc[p] # Closed => proc[p].container # c
          /\ UNCHANGED <<state, proc, acked>>
      BY <1>9 DEF Restore, Uses
    <2>2. \A d \in Containers : d # c => disk'[d] = disk[d]
      BY <1>9 DEF Restore, TypeOK
    <2>3. \A p \in Processes : proc[p] # Closed =>
             proc[p] \in Session /\ disk'[proc[p].container] = disk[proc[p].container]
      BY <1>t, <2>1, <2>2 DEF Session
    <2>4. Remembers(Loaded) => Remembers(Loaded)'
      BY <2>1 DEF Remembers, Loaded
    <2>5. \A p \in Processes : proc[p] # Closed /\ Carries(proc[p]) => Carries(proc[p])'
      BY <2>1, <2>3 DEF Carries, Remembers
    <2>6. \A p \in Processes : At(p, "loaded") \/ At(p, "truncated") => proc[p] # Closed
      BY DEF At, Closed
    <2> QED
      BY <2>1, <2>3, <2>4, <2>5, <2>6 DEF AloneInv, At
  <1>10. CASE UNCHANGED vars
    BY <1>10 DEF vars, AloneInv, At, Carries, Remembers, Loaded
  <1> QED
    BY <1>1, <1>2, <1>3, <1>4, <1>5, <1>6, <1>7, <1>8, <1>9, <1>10 DEF Next

(* With one process, which neither dies nor fails at the state file, a       *)
(* container set back behind its last flush that returned Ok is refused,     *)
(* however many others were flushed or reset since (load, update, persist):  *)
(* rewriting the whole file loses no other container's entry.                *)
THEOREM SetBackIsRefused ==
    ASSUME Alone
    PROVE  Spec => []OlderRefused
  <1>1. Init => AloneInv
    <2> SUFFICES ASSUME Init PROVE AloneInv
      OBVIOUS
    <2>1. (\A c \in Containers : acked[c] = 0) /\ \A p \in Processes : proc[p] = Closed
      BY DEF Init
    <2> QED
      BY <2>1 DEF AloneInv, Remembers, At, Closed
  <1>2. TypeOK /\ TypeOK' /\ AloneInv /\ [Next]_vars => AloneInv'
    BY AloneStep
  <1>3. TypeOK /\ AloneInv => OlderRefused
    <2> SUFFICES ASSUME TypeOK, AloneInv, AllIdle, NEW c \in Containers, disk[c] < acked[c]
                 PROVE  ~Accepts(c)
      BY DEF OlderRefused
    <2>1. Remembers(Loaded)
      BY DEF AloneInv, AllIdle, At
    <2>2. disk[c] \in Nat /\ acked[c] \in Nat
      BY RollbackAssumption DEF TypeOK, Generations
    <2>3. Loaded \in EntriesOf
      BY LoadedIsEntries
    <2>4. c \in DOMAIN Loaded /\ acked[c] <= Loaded[c]
      BY <2>1, <2>2 DEF Remembers
    <2>5. Loaded[c] \in Nat
      BY <2>3, <2>4, RollbackAssumption DEF EntriesOf, Generations
    <2> QED
      BY <2>2, <2>4, <2>5 DEF Accepts
  <1> QED
    BY <1>1, <1>2, <1>3, BaselinesCorrect, PTL DEF Spec

=============================================================================
