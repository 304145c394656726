------------------------- MODULE MountLifecycleProofs -------------------------
(***************************************************************************)
(* Safety of MountLifecycle for any number of vaults, mountpoints, mounts  *)
(* and threads: the variables keep their types and the mount table holds   *)
(* the sessions that serve it; the list of containers never keeps one      *)
(* whose end was told, shows every session that has its mountpoint for     *)
(* itself, and lets go of it only after its last flush.                    *)
(***************************************************************************)
EXTENDS MountLifecycle, SequenceTheorems, TLAPS

Active(w) == Running(w) \/ Pending(w)

(* A session is mounted at most once. *)
MountedOnce ==
    \A mp \in Mountpoints : \A i, j \in DOMAIN kernel[mp] :
        kernel[mp][i] = kernel[mp][j] => i = j

(* The signals of a thread arrive in their order: an end is told by a        *)
(* thread that has finished, and after its report.                           *)
SignalsInOrder ==
    /\ \A i \in DOMAIN posted :
          posted[i].kind # "mounted" => worker[posted[i].worker].stage = "finished"
    /\ \A i \in DOMAIN posted :
          posted[i].kind = "mounted" /\ worker[posted[i].worker].stage = "finished"
              => \E j \in DOMAIN posted : i < j /\ posted[j].worker = posted[i].worker

(* Only the end of the program cuts a thread off, and it leaves no other     *)
(* running.                                                                  *)
CutOnlyAtTheEnd ==
    /\ app = "running" => \A w \in Workers : worker[w].stage # "cut"
    /\ app # "running" => \A w \in Workers : worker[w].stage \in {"finished", "cut"}

(* Two threads of one mountpoint that are not both over know of each other.  *)
OverlapsMarked ==
    \A u, w \in Workers :
        u # w /\ worker[u].mp = worker[w].mp /\ Active(u) /\ Active(w)
            => worker[w].shared

(* What a thread reported stays on the list until its end is told.           *)
ListedUntilTheEnd ==
    app = "running" =>
        \A w \in Workers :
            worker[w].stage \notin {"started", "finished"}
              /\ ~Pending(w) /\ ~worker[w].shared => w \in m_mounted

CardsCoverTheList == app = "running" => CardsOf(m_mounted) \subseteq m_vaultCards

FinishedIsFlushed ==
    \A w \in Workers :
        worker[w].stage \in {"started", "dropped", "finished"} => ~worker[w].unflushed

MainInv ==
    /\ NoGhostListed
    /\ SignalsInOrder
    /\ CutOnlyAtTheEnd
    /\ OverlapsMarked
    /\ ListedUntilTheEnd
    /\ CardsCoverTheList
    /\ FinishedIsFlushed

-----------------------------------------------------------------------------
(* Sequences.                                                                *)

LEMMA FrontOf ==
    ASSUME NEW S, NEW s \in Seq(S), s # <<>>
    PROVE  /\ Front(s) \in Seq(S) /\ Last(s) \in S /\ Last(s) \in ToSet(s)
           /\ \A i \in DOMAIN Front(s) : i \in DOMAIN s /\ Front(s)[i] = s[i]
           /\ DOMAIN Front(s) = 1 .. Len(s) - 1
           /\ DOMAIN s = 1 .. Len(s) /\ Len(s) \in Nat \ {0}
  BY DEF Front, Last, ToSet

LEMMA RemovedAt ==
    ASSUME NEW S, NEW s \in Seq(S), NEW i \in DOMAIN s
    PROVE  /\ RemoveAt(s, i) \in Seq(S)
           /\ DOMAIN RemoveAt(s, i) = 1 .. Len(s) - 1
           /\ \A j \in 1 .. Len(s) - 1 :
                 RemoveAt(s, i)[j] = IF j < i THEN s[j] ELSE s[j + 1]
           /\ DOMAIN s = 1 .. Len(s) /\ Len(s) \in Nat \ {0}
  <1> DEFINE before == SubSeq(s, 1, i - 1)
             after  == SubSeq(s, i + 1, Len(s))
  <1>1. DOMAIN s = 1 .. Len(s) /\ Len(s) \in Nat \ {0} /\ i \in 1 .. Len(s)
    OBVIOUS
  <1>2. /\ before \in Seq(S) /\ Len(before) = i - 1
        /\ \A j \in 1 .. i - 1 : before[j] = s[j]
    BY <1>1
  <1>3. /\ after \in Seq(S) /\ Len(after) = Len(s) - i
        /\ \A j \in 1 .. Len(s) - i : after[j] = s[i + j]
    BY <1>1
  <1>4. RemoveAt(s, i) = before \o after
    BY DEF RemoveAt
  <1> HIDE DEF before, after
  <1>5. /\ before \o after \in Seq(S)
        /\ Len(before \o after) = Len(s) - 1
        /\ DOMAIN (before \o after) = 1 .. Len(s) - 1
    <2>1. before \o after \in Seq(S)
      BY <1>2, <1>3
    <2>2. Len(before \o after) = Len(before) + Len(after)
      BY <1>2, <1>3, ConcatProperties
    <2>3. Len(before) + Len(after) = Len(s) - 1
      BY <1>1, <1>2, <1>3
    <2> QED BY <2>1, <2>2, <2>3
  <1>6. ASSUME NEW j \in 1 .. Len(s) - 1
        PROVE  (before \o after)[j] = IF j < i THEN s[j] ELSE s[j + 1]
    <2>1. CASE j < i
      BY <1>1, <1>2, <1>3, <2>1
    <2>2. CASE ~(j < i)
      <3>1. j - (i - 1) \in 1 .. Len(s) - i /\ i + (j - (i - 1)) = j + 1
        BY <1>1, <2>2
      <3>2. (before \o after)[j] = after[j - (i - 1)]
        BY <1>1, <1>2, <1>3, <2>2
      <3> QED BY <1>3, <2>2, <3>1, <3>2
    <2> QED BY <2>1, <2>2
  <1> QED BY <1>1, <1>4, <1>5, <1>6

(* What is left of a list of sessions, each mounted once, without one.       *)
LEMMA WithoutOne ==
    ASSUME NEW S, NEW s \in Seq(S), NEW i \in DOMAIN s, NEW t,
           \A j, k \in DOMAIN s : s[j] = s[k] => j = k,
           \/ t = Front(s) /\ i = Len(s)
           \/ t = RemoveAt(s, i)
    PROVE  /\ t \in Seq(S)
           /\ ToSet(t) = ToSet(s) \ {s[i]}
           /\ \A j, k \in DOMAIN t : t[j] = t[k] => j = k
  <1>0. DOMAIN s = 1 .. Len(s) /\ Len(s) \in Nat /\ i \in 1 .. Len(s) /\ s # <<>>
    OBVIOUS
  <1>1. /\ t \in Seq(S) /\ DOMAIN t = 1 .. Len(s) - 1
        /\ \A j \in 1 .. Len(s) - 1 : t[j] = IF j < i THEN s[j] ELSE s[j + 1]
    <2>1. CASE t = Front(s) /\ i = Len(s)
      BY <1>0, <2>1, FrontOf
    <2>2. CASE t = RemoveAt(s, i)
      BY <2>2, RemovedAt
    <2> QED BY <2>1, <2>2
  <1>2. ASSUME NEW j \in DOMAIN t PROVE t[j] \in ToSet(s) /\ t[j] # s[i]
    <2>1. CASE j < i
      <3>1. j \in DOMAIN s /\ t[j] = s[j] /\ j # i
        BY <1>0, <1>1, <1>2, <2>1
      <3> QED BY <3>1 DEF ToSet
    <2>2. CASE ~(j < i)
      <3>1. j + 1 \in DOMAIN s /\ t[j] = s[j + 1] /\ j + 1 # i
        BY <1>0, <1>1, <1>2, <2>2
      <3> QED BY <3>1 DEF ToSet
    <2> QED BY <2>1, <2>2
  <1>3. ASSUME NEW j \in DOMAIN s, j # i PROVE s[j] \in ToSet(t)
    <2>1. CASE j < i
      <3>1. j \in DOMAIN t /\ t[j] = s[j]
        BY <1>0, <1>1, <2>1
      <3> QED BY <3>1 DEF ToSet
    <2>2. CASE i < j
      <3>1. j - 1 \in DOMAIN t /\ t[j - 1] = s[j]
        BY <1>0, <1>1, <2>2
      <3> QED BY <3>1 DEF ToSet
    <2> QED BY <1>0, <1>3, <2>1, <2>2
  <1>4. ToSet(t) = ToSet(s) \ {s[i]}
    BY <1>2, <1>3 DEF ToSet
  <1>5. ASSUME NEW j \in DOMAIN t, NEW k \in DOMAIN t, t[j] = t[k] PROVE j = k
    <2> DEFINE at(n) == IF n < i THEN n ELSE n + 1
    <2>1. at(j) \in DOMAIN s /\ at(k) \in DOMAIN s /\ t[j] = s[at(j)] /\ t[k] = s[at(k)]
      BY <1>0, <1>1
    <2>2. at(j) = at(k)
      BY <1>5, <2>1
    <2> QED BY <1>0, <1>1, <2>2
  <1> QED BY <1>1, <1>4, <1>5

LEMMA WithOneMore ==
    ASSUME NEW S, NEW s \in Seq(S), NEW e \in S, e \notin ToSet(s),
           \A j, k \in DOMAIN s : s[j] = s[k] => j = k
    PROVE  /\ Append(s, e) \in Seq(S)
           /\ ToSet(Append(s, e)) = ToSet(s) \cup {e}
           /\ \A j, k \in DOMAIN Append(s, e) : Append(s, e)[j] = Append(s, e)[k] => j = k
  <1> DEFINE t == Append(s, e)
  <1>1. /\ t \in Seq(S) /\ Len(s) \in Nat /\ DOMAIN s = 1 .. Len(s)
        /\ DOMAIN t = 1 .. Len(s) + 1 /\ t[Len(s) + 1] = e
        /\ \A j \in DOMAIN s : t[j] = s[j]
    OBVIOUS
  <1>2. \A j \in DOMAIN t : j \in DOMAIN s \/ j = Len(s) + 1
    BY <1>1
  <1>3. \A j \in DOMAIN s : s[j] # e /\ j \in DOMAIN t
    BY <1>1 DEF ToSet
  <1>4. Len(s) + 1 \in DOMAIN t
    BY <1>1
  <1> HIDE DEF t
  <1>5. ToSet(t) = ToSet(s) \cup {e}
    BY <1>1, <1>2, <1>3, <1>4 DEF ToSet
  <1>6. \A j, k \in DOMAIN t : t[j] = t[k] => j = k
    BY <1>1, <1>2, <1>3
  <1> QED BY <1>1, <1>5, <1>6 DEF t

-----------------------------------------------------------------------------
(* The shapes of steps.                                                      *)

(* Thread x goes on or is changed; the others and what x was started with    *)
(* stay.                                                                     *)
Moves(x) ==
    /\ x \in Workers
    /\ worker' \in Seq(Worker) /\ Len(worker') = Len(worker)
    /\ worker'[x].vault = worker[x].vault /\ worker'[x].mp = worker[x].mp
    /\ worker'[x].shared = worker[x].shared
    /\ \A u \in Workers : u # x => worker'[u] = worker[u]

MainUnchanged == UNCHANGED <<app, m_mounted, m_vaultCards>>

LEMMA StageMoves ==
    ASSUME TypeOK, NEW x \in Workers, NEW stage \in Stages,
           NEW result \in {"gone", "error"}, NEW unflushed \in BOOLEAN,
           worker' = [worker EXCEPT ![x].stage = stage, ![x].result = result,
                                    ![x].unflushed = unflushed]
    PROVE  Moves(x) /\ worker'[x].stage = stage /\ worker'[x].unflushed = unflushed
  <1>1. worker \in Seq(Worker) /\ worker[x] \in Worker
    BY DEF TypeOK, Workers
  <1>2. [worker[x] EXCEPT !.stage = stage, !.result = result, !.unflushed = unflushed]
            \in Worker
    BY <1>1 DEF Worker
  <1>3. worker' = [worker EXCEPT ![x] =
            [worker[x] EXCEPT !.stage = stage, !.result = result, !.unflushed = unflushed]]
    BY <1>1 DEF Worker
  <1> DEFINE moved == [worker[x] EXCEPT !.stage = stage, !.result = result,
                                        !.unflushed = unflushed]
  <1>4. /\ moved.vault = worker[x].vault /\ moved.mp = worker[x].mp
        /\ moved.shared = worker[x].shared
        /\ moved.stage = stage /\ moved.unflushed = unflushed
    BY <1>1 DEF Worker
  <1>5. moved \in Worker /\ worker' = [worker EXCEPT ![x] = moved]
    BY <1>2, <1>3
  <1>6. Workers = 1 .. Len(worker)
    BY <1>1 DEF Workers
  <1> HIDE DEF moved
  <1>7. /\ worker' \in Seq(Worker) /\ Len(worker') = Len(worker)
        /\ \A u \in Workers : worker'[u] = IF u = x THEN moved ELSE worker[u]
    <2>1. x \in 1 .. Len(worker) /\ worker \in Seq(Worker) /\ moved \in Worker
      BY <1>1, <1>5, <1>6
    <2>2. /\ [worker EXCEPT ![x] = moved] \in Seq(Worker)
          /\ Len([worker EXCEPT ![x] = moved]) = Len(worker)
          /\ \A u \in 1 .. Len(worker) :
                [worker EXCEPT ![x] = moved][u] = IF u = x THEN moved ELSE worker[u]
      BY <2>1, ExceptSeq
    <2> QED BY <1>5, <1>6, <2>2
  <1> QED BY <1>4, <1>7 DEF Moves

(* A thread in the middle of its life goes on, or its session is served or   *)
(* ended from outside.                                                       *)
GoesOn(x) ==
    /\ Moves(x)
    /\ worker[x].stage \in {"reported", "serving", "ended"}
    /\ \/ worker'[x].stage \in {"serving", "ended"}
       \/ worker'[x].stage = "dropped" /\ ~worker'[x].unflushed
    /\ MainUnchanged /\ UNCHANGED posted

(* A thread reports, or tells its end.                                       *)
Tells(x) ==
    /\ Moves(x)
    /\ worker'[x].unflushed = worker[x].unflushed
    /\ \/ worker[x].stage = "started" /\ worker'[x].stage = "reported" /\ Post(x, "mounted")
       \/ /\ worker[x].stage = "dropped" /\ worker'[x].stage = "finished"
          /\ \E kind \in {"gone", "error"} : Post(x, kind)
    /\ MainUnchanged /\ UNCHANGED kernel

(* The topmost session of a mountpoint can be taken down.                    *)
LEMMA TopServes ==
    ASSUME TypeOK, CutOnlyAtTheEnd, app = "running",
           NEW mp \in Mountpoints, kernel[mp] # <<>>
    PROVE  /\ Last(kernel[mp]) \in Workers
           /\ worker[Last(kernel[mp])].stage = "serving"
  <1>1. kernel[mp] \in Seq(Workers)
    BY DEF TypeOK
  <1>2. Last(kernel[mp]) \in Workers /\ Last(kernel[mp]) \in ToSet(kernel[mp])
    BY <1>1, FrontOf
  <1> QED BY <1>2 DEF TypeOK, CutOnlyAtTheEnd

LEMMA TakenDownMoves ==
    ASSUME TypeOK, CutOnlyAtTheEnd, app = "running",
           NEW mp \in Mountpoints, TakenDown(mp), MainUnchanged, UNCHANGED posted
    PROVE  GoesOn(Last(kernel[mp]))
  <1> DEFINE x == Last(kernel[mp])
  <1>1. x \in Workers /\ worker[x].stage = "serving"
    BY TopServes DEF TakenDown
  <1>2. worker[x] \in Worker /\ worker \in Seq(Worker)
    BY <1>1 DEF TypeOK, Workers
  <1>3. worker' = [worker EXCEPT ![x].stage = "ended", ![x].result = "gone",
                                 ![x].unflushed = worker[x].unflushed]
    BY <1>1, <1>2 DEF TakenDown, Worker, Workers
  <1>4. worker[x].unflushed \in BOOLEAN
    BY <1>2 DEF Worker
  <1> QED BY <1>1, <1>3, <1>4, StageMoves DEF GoesOn, Stages

(* Every other step of a thread, of its user or of its session.              *)
LEMMA ThreadMoves ==
    ASSUME TypeOK, NEW x \in Workers, Thread(x) \/ Write(x) \/ SessionFails(x)
    PROVE  GoesOn(x) \/ Tells(x)
  <1>1. worker[x] \in Worker /\ worker \in Seq(Worker)
    BY DEF TypeOK, Workers
  <1>2. worker[x].unflushed \in BOOLEAN /\ worker[x].result \in {"gone", "error"}
        /\ worker[x].stage \in Stages
    BY <1>1 DEF Worker
  <1> DEFINE change(stage, result, unflushed) ==
                 worker' = [worker EXCEPT ![x].stage = stage, ![x].result = result,
                                          ![x].unflushed = unflushed]
  <1>3. CASE Report(x)
    <2>1. change("reported", worker[x].result, worker[x].unflushed)
      BY <1>1, <1>3 DEF Report, Goes, Worker, Workers
    <2> QED BY <1>2, <1>3, <2>1, StageMoves DEF Report, Goes, Tells, MainUnchanged, Stages
  <1>4. CASE MountSucceeds(x)
    <2>1. change("serving", worker[x].result, worker[x].unflushed)
      BY <1>1, <1>4 DEF MountSucceeds, Goes, Worker, Workers
    <2> QED BY <1>2, <1>4, <2>1, StageMoves
            DEF MountSucceeds, Goes, GoesOn, MainUnchanged, Stages
  <1>5. CASE MountFails(x)
    <2>1. change("ended", "error", worker[x].unflushed)
      BY <1>1, <1>5 DEF MountFails, Worker, Workers
    <2> QED BY <1>2, <1>5, <2>1, StageMoves DEF MountFails, GoesOn, MainUnchanged, Stages
  <1>6. CASE Drop(x)
    <2>1. change("dropped", worker[x].result, FALSE)
      BY <1>1, <1>6 DEF Drop, Worker, Workers
    <2> QED BY <1>2, <1>6, <2>1, StageMoves DEF Drop, GoesOn, MainUnchanged, Stages
  <1>7. CASE Finish(x)
    <2>1. change("finished", worker[x].result, worker[x].unflushed)
      BY <1>1, <1>7 DEF Finish, Goes, Worker, Workers
    <2> QED BY <1>2, <1>7, <2>1, StageMoves DEF Finish, Goes, Tells, MainUnchanged, Stages
  <1>8. CASE Write(x)
    <2>1. change("serving", worker[x].result, TRUE)
      BY <1>1, <1>8 DEF Write, Worker, Workers
    <2> QED BY <1>2, <1>8, <2>1, StageMoves DEF Write, GoesOn, MainUnchanged, Stages
  <1>9. CASE SessionFails(x)
    <2>1. change("ended", "error", worker[x].unflushed)
      BY <1>1, <1>9 DEF SessionFails, Worker, Workers
    <2> QED BY <1>2, <1>9, <2>1, StageMoves DEF SessionFails, GoesOn, MainUnchanged, Stages
  <1> QED BY <1>3, <1>4, <1>5, <1>6, <1>7, <1>8, <1>9 DEF Thread

(* A mount asked for adds a thread and marks those it overlaps with.         *)
Starts(mp) ==
    LET n == Len(worker) + 1
    IN  /\ worker' \in Seq(Worker) /\ Len(worker') = n /\ n <= MaxMounts
        /\ worker'[n].stage = "started" /\ ~worker'[n].unflushed /\ worker'[n].mp = mp
        /\ worker'[n].shared = (\E u \in Workers : worker[u].mp = mp /\ Active(u))
        /\ \A u \in Workers :
              /\ worker'[u].stage = worker[u].stage /\ worker'[u].mp = worker[u].mp
              /\ worker'[u].unflushed = worker[u].unflushed
              /\ worker'[u].shared = (worker[u].shared \/ (worker[u].mp = mp /\ Active(u)))
        /\ MainUnchanged /\ UNCHANGED <<kernel, posted>> /\ app = "running"

LEMMA OnMountStarts ==
    ASSUME TypeOK, NEW v \in Vaults, NEW mp \in Mountpoints, OnMount(v, mp)
    PROVE  Starts(mp)
  <1> DEFINE others == {u \in At(mp) : Running(u) \/ Pending(u)}
             new == [vault |-> v, mp |-> mp, stage |-> "started",
                     unflushed |-> FALSE, result |-> "gone", shared |-> others # {}]
             told == [w \in Workers |->
                        IF w \in others THEN [worker[w] EXCEPT !.shared = TRUE]
                                        ELSE worker[w]]
  <1>1. /\ worker \in Seq(Worker) /\ Workers = 1 .. Len(worker) /\ Len(worker) \in Nat
        /\ \A w \in Workers : worker[w] \in Worker
    BY DEF TypeOK, Workers
  <1>2. new \in Worker
    BY DEF Worker, Stages
  <1>3. \A w \in Workers : told[w] \in Worker
    BY <1>1 DEF Worker
  <1>4. told \in Seq(Worker) /\ Len(told) = Len(worker)
    <2>1. told \in [1 .. Len(worker) -> Worker]
      BY <1>1, <1>3
    <2> HIDE DEF told
    <2> QED BY <1>1, <2>1
  <1>5. worker' = Append(told, new)
    BY DEF OnMount
  <1>6. /\ worker' \in Seq(Worker) /\ Len(worker') = Len(worker) + 1
        /\ worker'[Len(worker) + 1] = new
        /\ \A u \in Workers : worker'[u] = told[u]
    <2> HIDE DEF told, new
    <2> QED BY <1>1, <1>2, <1>4, <1>5, AppendProperties
  <1>7. \A u \in Workers : u \in others <=> worker[u].mp = mp /\ Active(u)
    BY DEF At, Active
  <1>8. others # {} <=> \E u \in Workers : worker[u].mp = mp /\ Active(u)
    BY <1>7 DEF At
  <1>9. ASSUME NEW u \in Workers
        PROVE  /\ worker'[u].stage = worker[u].stage /\ worker'[u].mp = worker[u].mp
               /\ worker'[u].unflushed = worker[u].unflushed
               /\ worker'[u].shared = (worker[u].shared \/ (worker[u].mp = mp /\ Active(u)))
    <2>1. CASE u \in others
      <3>1. worker'[u] = [worker[u] EXCEPT !.shared = TRUE]
        BY <1>6, <2>1
      <3> QED BY <1>1, <1>7, <2>1, <3>1 DEF Worker
    <2>2. CASE u \notin others
      <3>1. worker'[u] = worker[u] /\ worker[u].shared \in BOOLEAN
        BY <1>1, <1>6, <2>2 DEF Worker
      <3> QED BY <1>7, <2>2, <3>1
    <2> QED BY <2>1, <2>2
  <1>10. Len(worker) + 1 <= MaxMounts
    BY <1>1, BoundsAssumption DEF OnMount
  <1>11. MainUnchanged /\ UNCHANGED <<kernel, posted>> /\ app = "running"
    BY DEF OnMount, MainUnchanged
  <1> HIDE DEF others
  <1>12. /\ new.stage = "started" /\ new.unflushed = FALSE /\ new.mp = mp
         /\ new.shared = (others # {})
    OBVIOUS
  <1> HIDE DEF new, told
  <1> QED BY <1>6, <1>8, <1>9, <1>10, <1>11, <1>12 DEF Starts

-----------------------------------------------------------------------------
(* Types and the mount table.                                                *)

MountTable ==
    /\ kernel \in [Mountpoints -> Seq(Workers)]
    /\ \A mp \in Mountpoints, w \in Workers :
          /\ w \in ToSet(kernel[mp]) => w \in At(mp) /\ worker[w].stage \in {"serving", "cut"}
          /\ worker[w].stage = "serving" /\ w \in At(mp) => w \in ToSet(kernel[mp])
    /\ MountedOnce

OtherTypes ==
    /\ app \in {"running", "exited", "aborted"}
    /\ worker \in Seq(Worker) /\ Len(worker) <= MaxMounts
    /\ posted \in Seq(Signal)
    /\ m_mounted \subseteq Workers
    /\ m_vaultCards \subseteq Mountpoints

LEMMA TypesAre == TypeOK /\ MountedOnce <=> OtherTypes /\ MountTable
  BY DEF TypeOK, OtherTypes, MountTable

LEMMA WorkersTyped ==
    ASSUME TypeOK
    PROVE  /\ worker \in Seq(Worker) /\ Workers = 1 .. Len(worker) /\ Len(worker) \in Nat
           /\ \A w \in Workers :
                 /\ worker[w].mp \in Mountpoints /\ worker[w].stage \in Stages
                 /\ worker[w].shared \in BOOLEAN /\ worker[w].unflushed \in BOOLEAN
  <1>1. worker \in Seq(Worker) /\ Workers = 1 .. Len(worker) /\ Len(worker) \in Nat
    BY DEF TypeOK, Workers
  <1>2. \A w \in Workers : worker[w] \in Worker
    BY <1>1
  <1> QED BY <1>1, <1>2 DEF Worker

LEMMA MovesKeep ==
    ASSUME TypeOK, NEW x, Moves(x)
    PROVE  /\ Workers' = Workers /\ Signal' = Signal /\ Len(worker') <= MaxMounts
           /\ \A u \in Workers :
                 /\ worker'[u].mp = worker[u].mp /\ worker'[u].shared = worker[u].shared
                 /\ u # x => worker'[u] = worker[u]
           /\ \A u \in Workers : worker[u].mp \in Mountpoints
  <1>1. Workers' = Workers
    BY DEF TypeOK, Moves, Workers
  <1>2. \A u \in Workers : worker[u] \in Worker
    BY DEF TypeOK, Workers
  <1> QED BY <1>1, <1>2 DEF TypeOK, Moves, Signal, Worker

(* A step that mounts and unmounts nothing. *)
LEMMA TableKept ==
    ASSUME MountTable, kernel' = kernel, Workers \subseteq Workers',
           Seq(Workers) \subseteq Seq(Workers'),
           \A w \in Workers :
              /\ worker'[w].mp = worker[w].mp
              /\ worker'[w].stage = "serving" => worker[w].stage = "serving"
              /\ worker[w].stage \in {"serving", "cut"} =>
                    worker'[w].stage \in {"serving", "cut"},
           \A w \in Workers' : w \notin Workers => worker'[w].stage # "serving"
    PROVE  MountTable'
  <1>1. kernel' \in [Mountpoints -> Seq(Workers')]
    BY DEF MountTable
  <1>2. MountedOnce'
    BY DEF MountTable, MountedOnce
  <1>3. ASSUME NEW mp \in Mountpoints, NEW w \in Workers'
        PROVE  /\ w \in ToSet(kernel'[mp]) =>
                     w \in At(mp)' /\ worker'[w].stage \in {"serving", "cut"}
               /\ worker'[w].stage = "serving" /\ w \in At(mp)' => w \in ToSet(kernel'[mp])
    <2>1. CASE w \in Workers
      BY <2>1 DEF MountTable, At
    <2>2. CASE w \notin Workers
      <3>1. kernel[mp] \in Seq(Workers)
        BY DEF MountTable
      <3>2. w \notin ToSet(kernel[mp])
        BY <2>2, <3>1 DEF ToSet
      <3> QED BY <2>2, <3>2
    <2> QED BY <2>1, <2>2
  <1> QED BY <1>1, <1>2, <1>3 DEF MountTable

(* Session x of mountpoint p is mounted, or taken away. *)
LEMMA TableChanged ==
    ASSUME TypeOK, MountTable, NEW x, Moves(x), NEW p, p = worker[x].mp, NEW t,
           kernel' = [kernel EXCEPT ![p] = t],
           t \in Seq(Workers), \A j, k \in DOMAIN t : t[j] = t[k] => j = k,
           \/ ToSet(t) = ToSet(kernel[p]) \cup {x} /\ worker'[x].stage = "serving"
           \/ ToSet(t) = ToSet(kernel[p]) \ {x} /\ worker'[x].stage = "ended"
    PROVE  MountTable'
  <1>1. /\ Workers' = Workers /\ x \in Workers /\ p \in Mountpoints
        /\ \A u \in Workers : worker'[u].mp = worker[u].mp
        /\ \A u \in Workers : u # x => worker'[u] = worker[u]
    BY MovesKeep DEF Moves
  <1>2. /\ kernel' \in [Mountpoints -> Seq(Workers)]
        /\ \A mp \in Mountpoints : kernel'[mp] = IF mp = p THEN t ELSE kernel[mp]
    BY <1>1 DEF MountTable
  <1>3. MountedOnce'
    BY <1>2 DEF MountTable, MountedOnce
  <1>4. ASSUME NEW mp \in Mountpoints, NEW w \in Workers
        PROVE  /\ w \in ToSet(kernel'[mp]) =>
                     w \in At(mp)' /\ worker'[w].stage \in {"serving", "cut"}
               /\ worker'[w].stage = "serving" /\ w \in At(mp)' => w \in ToSet(kernel'[mp])
    <2>1. w \in At(mp)' <=> worker[w].mp = mp
      BY <1>1 DEF At
    <2>2. w \in At(mp) <=> worker[w].mp = mp
      BY DEF At
    <2>3. CASE w = x
      BY <1>1, <1>2, <2>1, <2>2, <2>3 DEF MountTable
    <2>4. CASE w # x
      BY <1>1, <1>2, <2>1, <2>2, <2>4 DEF MountTable
    <2> QED BY <2>3, <2>4
  <1> QED BY <1>1, <1>2, <1>3, <1>4 DEF MountTable

LEMMA GoesOnTypes ==
    ASSUME TypeOK, NEW x, GoesOn(x) \/ Tells(x)
    PROVE  OtherTypes'
  <1>1. /\ Workers' = Workers /\ Signal' = Signal /\ Len(worker') <= MaxMounts
        /\ worker' \in Seq(Worker) /\ x \in Workers
    BY MovesKeep DEF GoesOn, Tells, Moves
  <1>2. UNCHANGED posted \/ \E kind \in {"mounted", "gone", "error"} : Post(x, kind)
    BY DEF GoesOn, Tells
  <1>3. posted' \in Seq(Signal)
    <2>1. CASE UNCHANGED posted
      BY <2>1 DEF TypeOK
    <2>2. ASSUME NEW kind \in {"mounted", "gone", "error"}, Post(x, kind)
          PROVE  posted' \in Seq(Signal)
      <3>1. [kind |-> kind, worker |-> x] \in Signal
        BY <1>1 DEF Signal
      <3> QED BY <2>2, <3>1 DEF Post, TypeOK
    <2> QED BY <1>2, <2>1, <2>2
  <1>4. MainUnchanged
    BY DEF GoesOn, Tells
  <1> QED BY <1>1, <1>3, <1>4 DEF OtherTypes, TypeOK, MainUnchanged

LEMMA TakenDownTable ==
    ASSUME TypeOK, MountTable, CutOnlyAtTheEnd, app = "running",
           NEW mp \in Mountpoints, TakenDown(mp), MainUnchanged, UNCHANGED posted
    PROVE  MountTable'
  <1> DEFINE x == Last(kernel[mp])
  <1>1. kernel[mp] \in Seq(Workers) /\ kernel[mp] # <<>>
    BY DEF TypeOK, TakenDown
  <1>2. x \in Workers /\ x \in ToSet(kernel[mp]) /\ x = kernel[mp][Len(kernel[mp])]
        /\ Len(kernel[mp]) \in DOMAIN kernel[mp]
    BY <1>1, FrontOf DEF Last
  <1>3. worker[x].mp = mp
    BY <1>2 DEF TypeOK, At
  <1>4. GoesOn(x)
    BY TakenDownMoves
  <1>5. worker'[x].stage = "ended"
    <2>1. worker \in Seq(Worker) /\ worker[x] \in Worker
      BY <1>2 DEF TypeOK, Workers
    <2> QED BY <1>2, <2>1 DEF TakenDown, Worker, Workers
  <1>6. /\ Front(kernel[mp]) \in Seq(Workers)
        /\ ToSet(Front(kernel[mp])) = ToSet(kernel[mp]) \ {x}
        /\ \A j, k \in DOMAIN Front(kernel[mp]) :
              Front(kernel[mp])[j] = Front(kernel[mp])[k] => j = k
    <2>1. \A j, k \in DOMAIN kernel[mp] : kernel[mp][j] = kernel[mp][k] => j = k
      BY DEF MountTable, MountedOnce
    <2> QED BY <1>1, <1>2, <2>1, WithoutOne
  <1>7. kernel' = [kernel EXCEPT ![mp] = Front(kernel[mp])]
    BY DEF TakenDown
  <1>8. Moves(x)
    BY <1>4 DEF GoesOn
  <1> HIDE DEF x
  <1> QED BY <1>3, <1>5, <1>6, <1>7, <1>8, TableChanged

LEMMA ThreadTable ==
    ASSUME TypeOK, MountTable, NEW x \in Workers,
           Thread(x) \/ Write(x) \/ SessionFails(x)
    PROVE  MountTable'
  <1>1. Moves(x)
    BY ThreadMoves DEF GoesOn, Tells
  <1>2. /\ Workers' = Workers
        /\ \A u \in Workers : worker'[u].mp = worker[u].mp
        /\ \A u \in Workers : u # x => worker'[u] = worker[u]
        /\ worker[x].mp \in Mountpoints
    BY <1>1, MovesKeep
  <1>3. worker \in Seq(Worker) /\ worker[x] \in Worker
    BY DEF TypeOK, Workers
  <1> DEFINE p == worker[x].mp
  <1>4. kernel[p] \in Seq(Workers)
        /\ \A j, k \in DOMAIN kernel[p] : kernel[p][j] = kernel[p][k] => j = k
    BY <1>2 DEF MountTable, MountedOnce
  <1>5. CASE MountSucceeds(x)
    <2>1. worker[x].stage = "reported" /\ worker'[x].stage = "serving"
          /\ kernel' = [kernel EXCEPT ![p] = Append(kernel[p], x)]
      BY <1>3, <1>5 DEF MountSucceeds, Goes, Worker, Workers
    <2>2. x \notin ToSet(kernel[p])
      BY <1>2, <2>1 DEF MountTable
    <2>3. /\ Append(kernel[p], x) \in Seq(Workers)
          /\ ToSet(Append(kernel[p], x)) = ToSet(kernel[p]) \cup {x}
          /\ \A j, k \in DOMAIN Append(kernel[p], x) :
                Append(kernel[p], x)[j] = Append(kernel[p], x)[k] => j = k
      BY <1>4, <2>2, WithOneMore
    <2> QED BY <1>1, <2>1, <2>3, TableChanged
  <1>6. CASE SessionFails(x)
    <2>1. PICK i \in DOMAIN kernel[p] :
             /\ kernel[p][i] = x
             /\ kernel' = [kernel EXCEPT ![p] = RemoveAt(kernel[p], i)]
      BY <1>6 DEF SessionFails
    <2>2. worker'[x].stage = "ended"
      BY <1>3, <1>6 DEF SessionFails, Worker, Workers
    <2>3. /\ RemoveAt(kernel[p], i) \in Seq(Workers)
          /\ ToSet(RemoveAt(kernel[p], i)) = ToSet(kernel[p]) \ {x}
          /\ \A j, k \in DOMAIN RemoveAt(kernel[p], i) :
                RemoveAt(kernel[p], i)[j] = RemoveAt(kernel[p], i)[k] => j = k
      BY <1>4, <2>1, WithoutOne
    <2> QED BY <1>1, <2>1, <2>2, <2>3, TableChanged
  <1>7. CASE Report(x) \/ MountFails(x) \/ Drop(x) \/ Finish(x) \/ Write(x)
    <2>1. /\ kernel' = kernel
          /\ worker'[x].stage = "serving" => worker[x].stage = "serving"
          /\ worker[x].stage \in {"serving", "cut"} => worker'[x].stage \in {"serving", "cut"}
      BY <1>3, <1>7
      DEF Report, MountFails, Drop, Finish, Write, Goes, Worker, Workers
    <2> QED BY <1>2, <2>1, TableKept
  <1> QED BY <1>5, <1>6, <1>7 DEF Thread

LEMMA StartsKeep ==
    ASSUME TypeOK, NEW p, Starts(p)
    PROVE  /\ Workers' = Workers \cup {Len(worker) + 1} /\ Len(worker) + 1 \notin Workers
           /\ Workers \subseteq Workers' /\ Seq(Workers) \subseteq Seq(Workers')
           /\ Seq(Signal) \subseteq Seq(Signal')
  <1>1. Workers = 1 .. Len(worker) /\ Len(worker) \in Nat
    BY DEF TypeOK, Workers
  <1>2. Workers' = 1 .. Len(worker) + 1
    BY DEF Starts, Workers
  <1>3. Workers' = Workers \cup {Len(worker) + 1} /\ Len(worker) + 1 \notin Workers
    BY <1>1, <1>2
  <1>4. Signal \subseteq Signal'
    BY <1>3 DEF Signal
  <1>5. Seq(Workers) \subseteq Seq(Workers')
    BY <1>3, SeqMonotonic
  <1>6. Seq(Signal) \subseteq Seq(Signal')
    BY <1>4, SeqMonotonic
  <1> QED BY <1>3, <1>5, <1>6

(* Every queued signal, and every container listed, is of a thread.          *)
LEMMA SignalsOfWorkers ==
    ASSUME TypeOK
    PROVE  /\ \A i \in DOMAIN posted :
                 posted[i].worker \in Workers /\ posted[i].kind \in {"mounted", "gone", "error"}
           /\ \A w : Pending(w) => w \in Workers
  <1>1. \A i \in DOMAIN posted : posted[i] \in Signal
    BY DEF TypeOK
  <1> QED BY <1>1 DEF Signal, Pending

LEMMA Delivered ==
    ASSUME TypeOK, Deliver
    PROVE  /\ posted # <<>> /\ Head(posted) = posted[1] /\ 1 \in DOMAIN posted
           /\ Head(posted).worker \in Workers
           /\ posted' = Tail(posted) /\ posted' \in Seq(Signal)
           /\ \A i : i \in DOMAIN posted' <=> i \in Nat \ {0} /\ i + 1 \in DOMAIN posted
           /\ \A i \in DOMAIN posted' : posted'[i] = posted[i + 1]
           /\ DOMAIN posted \subseteq Nat \ {0}
           /\ app = "running" /\ UNCHANGED <<app, worker, kernel>>
  <1>1. posted \in Seq(Signal) /\ posted # <<>> /\ posted' = Tail(posted)
    BY DEF TypeOK, Deliver
  <1>2. /\ Len(posted) \in Nat \ {0} /\ DOMAIN posted = 1 .. Len(posted)
        /\ Tail(posted) \in Seq(Signal) /\ Len(Tail(posted)) = Len(posted) - 1
        /\ \A i \in 1 .. Len(Tail(posted)) : Tail(posted)[i] = posted[i + 1]
        /\ Head(posted) = posted[1]
    BY <1>1, HeadTailProperties, LenProperties, EmptySeq
  <1>3. DOMAIN Tail(posted) = 1 .. Len(posted) - 1
    BY <1>2
  <1>4. posted[1].worker \in Workers
    BY <1>2, SignalsOfWorkers
  <1> QED BY <1>1, <1>2, <1>3, <1>4 DEF Deliver

QuitStage(w) == IF worker[w].stage # "finished" THEN "cut" ELSE "finished"

LEMMA QuitKeeps ==
    ASSUME TypeOK, Quit
    PROVE  /\ worker' \in Seq(Worker) /\ Len(worker') = Len(worker) /\ Workers' = Workers
           /\ \A w \in Workers :
                 /\ worker'[w].stage = QuitStage(w) /\ worker'[w].mp = worker[w].mp
                 /\ worker'[w].shared = worker[w].shared
                 /\ worker'[w].unflushed = worker[w].unflushed
  <1> DEFINE over == [w \in Workers |->
                        IF Running(w) THEN [worker[w] EXCEPT !.stage = "cut"] ELSE worker[w]]
  <1>1. /\ worker \in Seq(Worker) /\ Workers = 1 .. Len(worker) /\ Len(worker) \in Nat
        /\ \A w \in Workers : worker[w] \in Worker
    BY DEF TypeOK, Workers
  <1>2. \A w \in Workers : over[w] \in Worker
    BY <1>1 DEF Worker, Stages
  <1>3. worker' = over
    BY DEF Quit
  <1>4. over \in [1 .. Len(worker) -> Worker]
    BY <1>1, <1>2
  <1>5. \A w \in Workers :
           /\ over[w].stage = QuitStage(w) /\ over[w].mp = worker[w].mp
           /\ over[w].shared = worker[w].shared
           /\ over[w].unflushed = worker[w].unflushed
    BY <1>1 DEF Worker, Running, QuitStage
  <1> HIDE DEF over
  <1>6. over \in Seq(Worker) /\ Len(over) = Len(worker)
    BY <1>1, <1>4
  <1>7. Workers' = Workers
    BY <1>1, <1>3, <1>6 DEF Workers
  <1> QED BY <1>3, <1>5, <1>6, <1>7

(* Every step has one of these shapes. *)
LEMMA StepShapes ==
    ASSUME TypeOK, CutOnlyAtTheEnd, [Next]_vars
    PROVE  \/ \E x : GoesOn(x) \/ Tells(x)
           \/ \E p \in Mountpoints : Starts(p)
           \/ Refresh \/ Deliver \/ Quit \/ UNCHANGED vars
  <1>1. ASSUME NEW v \in Vaults, NEW mp \in Mountpoints, OnMount(v, mp)
        PROVE  Starts(mp)
    BY <1>1, OnMountStarts
  <1>2. ASSUME NEW mp \in Mountpoints, UnmountClicked(mp) \/ UnmountedOutside(mp)
        PROVE  \E x : GoesOn(x)
    <2>1. TakenDown(mp) /\ MainUnchanged /\ UNCHANGED posted /\ app = "running"
      BY <1>2 DEF UnmountClicked, UnmountedOutside, MainUnchanged
    <2> QED BY <2>1, TakenDownMoves
  <1>3. ASSUME NEW w \in Workers, Thread(w) \/ Write(w) \/ SessionFails(w)
        PROVE  GoesOn(w) \/ Tells(w)
    BY <1>3, ThreadMoves
  <1> QED BY <1>1, <1>2, <1>3 DEF Next

LEMMA TypesStep ==
    ASSUME TypeOK, MountedOnce, CutOnlyAtTheEnd, [Next]_vars
    PROVE  TypeOK' /\ MountedOnce'
  <1>0. MountTable
    BY TypesAre
  <1>1. OtherTypes'
    <2>1. ASSUME NEW x, GoesOn(x) \/ Tells(x) PROVE OtherTypes'
      BY <2>1, GoesOnTypes
    <2>2. ASSUME NEW p \in Mountpoints, Starts(p) PROVE OtherTypes'
      BY <2>2, StartsKeep DEF Starts, OtherTypes, TypeOK, MainUnchanged
    <2>3. CASE Refresh \/ UNCHANGED vars
      <3>1. \A w \in Workers : worker[w].mp \in Mountpoints
        BY WorkersTyped
      <3>2. CardsOf(m_mounted) \subseteq Mountpoints
        BY <3>1 DEF CardsOf, TypeOK
      <3>3. UNCHANGED <<app, worker, posted, m_mounted>>
            /\ m_vaultCards' \in {m_vaultCards, CardsOf(m_mounted)}
        BY <2>3 DEF Refresh, vars
      <3> QED BY <3>2, <3>3 DEF OtherTypes, TypeOK, Workers, Signal
    <2>4. CASE Deliver
      <3>1. /\ UNCHANGED <<app, worker, kernel>> /\ posted' \in Seq(Signal)
            /\ Head(posted).worker \in Workers
        BY <2>4, Delivered
      <3>2. m_mounted' \subseteq Workers
        BY <2>4, <3>1
        DEF Deliver, OnMountStarted, OnMountGone, OnMountError, AddMounted, RemoveMounted, TypeOK
      <3>3. \A w \in Workers : worker[w].mp \in Mountpoints
        BY WorkersTyped
      <3>4. m_vaultCards' \in {m_vaultCards, CardsOf(m_mounted')}
        BY <2>4, <3>1 DEF Deliver, OnMountStarted, OnMountGone, OnMountError, CardsOf
      <3>5. m_vaultCards' \subseteq Mountpoints
        BY <3>2, <3>3, <3>4 DEF CardsOf, TypeOK
      <3> QED BY <3>1, <3>2, <3>5 DEF OtherTypes, TypeOK, Workers, Signal
    <2>5. CASE Quit
      BY <2>5, QuitKeeps DEF Quit, OtherTypes, TypeOK, Signal
    <2> QED BY <2>1, <2>2, <2>3, <2>4, <2>5, StepShapes
  <1>2. MountTable'
    <2>1. ASSUME NEW v \in Vaults, NEW mp \in Mountpoints, OnMount(v, mp)
          PROVE  MountTable'
      <3>1. Starts(mp)
        BY <2>1, OnMountStarts
      <3> QED BY <1>0, <3>1, StartsKeep, TableKept DEF Starts
    <2>2. ASSUME NEW mp \in Mountpoints, UnmountClicked(mp) \/ UnmountedOutside(mp)
          PROVE  MountTable'
      <3>1. TakenDown(mp) /\ MainUnchanged /\ UNCHANGED posted /\ app = "running"
        BY <2>2 DEF UnmountClicked, UnmountedOutside, MainUnchanged
      <3> QED BY <1>0, <3>1, TakenDownTable
    <2>3. ASSUME NEW w \in Workers, Thread(w) \/ Write(w) \/ SessionFails(w)
          PROVE  MountTable'
      BY <1>0, <2>3, ThreadTable
    <2>4. CASE Quit
      <3>1. \A w \in Workers :
               /\ worker'[w].stage = "serving" => worker[w].stage = "serving"
               /\ worker[w].stage \in {"serving", "cut"} =>
                     worker'[w].stage \in {"serving", "cut"}
        BY <2>4, QuitKeeps DEF QuitStage
      <3>2. kernel' = kernel
        BY <2>4 DEF Quit
      <3> QED BY <1>0, <2>4, <3>1, <3>2, QuitKeeps, TableKept
    <2>5. CASE Refresh \/ Deliver \/ UNCHANGED vars
      <3>1. UNCHANGED <<worker, kernel>>
        BY <2>5 DEF Refresh, Deliver, vars
      <3> QED BY <1>0, <3>1 DEF MountTable, MountedOnce, Workers, At
    <2> QED BY <2>1, <2>2, <2>3, <2>4, <2>5 DEF Next
  <1>3. (TypeOK /\ MountedOnce <=> OtherTypes /\ MountTable)'
    BY DEF TypeOK, OtherTypes, MountTable
  <1> QED BY <1>1, <1>2, <1>3

-----------------------------------------------------------------------------
(* The list of containers.                                                   *)

LEMMA GoesOnMain ==
    ASSUME TypeOK, MainInv, NEW x, GoesOn(x)
    PROVE  MainInv'
  <1>1. /\ Workers' = Workers /\ x \in Workers
        /\ \A u \in Workers :
              /\ worker'[u].mp = worker[u].mp /\ worker'[u].shared = worker[u].shared
              /\ u # x => worker'[u] = worker[u]
        /\ UNCHANGED <<app, posted, m_mounted, m_vaultCards>>
        /\ worker[x].stage \notin {"started", "finished", "cut"}
        /\ worker'[x].stage \notin {"started", "finished", "cut"}
        /\ worker'[x].stage = "dropped" => ~worker'[x].unflushed
    BY MovesKeep DEF GoesOn, Moves, MainUnchanged
  <1>2. /\ \A u : Pending(u)' = Pending(u)
        /\ \A u \in Workers : Active(u)' <=> Active(u)
    BY <1>1 DEF Pending, Active, Running
  <1>3. NoGhostListed'
    BY <1>1, <1>2 DEF MainInv, NoGhostListed, TypeOK
  <1>4. SignalsInOrder'
    BY <1>1, SignalsOfWorkers DEF MainInv, SignalsInOrder
  <1>5. CutOnlyAtTheEnd'
    BY <1>1 DEF MainInv, CutOnlyAtTheEnd
  <1>6. OverlapsMarked'
    BY <1>1, <1>2 DEF MainInv, OverlapsMarked
  <1>7. ListedUntilTheEnd'
    BY <1>1, <1>2 DEF MainInv, ListedUntilTheEnd
  <1>8. CardsCoverTheList'
    <2>1. CardsOf(m_mounted)' = CardsOf(m_mounted)
      BY <1>1 DEF CardsOf, TypeOK
    <2> QED BY <1>1, <2>1 DEF MainInv, CardsCoverTheList
  <1>9. FinishedIsFlushed'
    BY <1>1 DEF MainInv, FinishedIsFlushed
  <1> QED BY <1>3, <1>4, <1>5, <1>6, <1>7, <1>8, <1>9 DEF MainInv

LEMMA TellsMain ==
    ASSUME TypeOK, MainInv, NEW x, Tells(x)
    PROVE  MainInv'
  <1>1. /\ Workers' = Workers /\ x \in Workers
        /\ \A u \in Workers :
              /\ worker'[u].mp = worker[u].mp /\ worker'[u].shared = worker[u].shared
              /\ u # x => worker'[u] = worker[u]
        /\ UNCHANGED <<app, m_mounted, m_vaultCards>>
        /\ worker'[x].unflushed = worker[x].unflushed
    BY MovesKeep DEF Tells, Moves, MainUnchanged
  <1> PICK kind \in {"mounted", "gone", "error"} :
             /\ posted' = Append(posted, [kind |-> kind, worker |-> x])
             /\ \/ /\ kind = "mounted"
                   /\ worker[x].stage = "started" /\ worker'[x].stage = "reported"
                \/ /\ kind # "mounted"
                   /\ worker[x].stage = "dropped" /\ worker'[x].stage = "finished"
    BY DEF Tells, Post
  <1> DEFINE n == Len(posted) + 1
  <1>2. /\ DOMAIN posted' = DOMAIN posted \cup {n} /\ n \notin DOMAIN posted
        /\ \A i \in DOMAIN posted : posted'[i] = posted[i] /\ i < n
        /\ posted'[n].worker = x /\ posted'[n].kind = kind
    BY DEF TypeOK
  <1> HIDE DEF n
  <1>3. /\ \A u : Pending(u)' <=> Pending(u) \/ u = x
        /\ Active(x)'
        /\ \A u \in Workers : u # x => (Active(u)' <=> Active(u))
        /\ Active(x)
    BY <1>1, <1>2 DEF Pending, Active, Running
  <1>4. NoGhostListed'
    BY <1>1, <1>3 DEF MainInv, NoGhostListed, TypeOK
  <1>5. SignalsInOrder'
    <2>1. \A i \in DOMAIN posted : posted[i].worker \in Workers
      BY SignalsOfWorkers
    <2>2. ASSUME NEW i \in DOMAIN posted', posted'[i].kind # "mounted"
          PROVE  worker'[posted'[i].worker].stage = "finished"
      BY <1>1, <1>2, <2>1, <2>2 DEF MainInv, SignalsInOrder
    <2>3. ASSUME NEW i \in DOMAIN posted', posted'[i].kind = "mounted",
                 worker'[posted'[i].worker].stage = "finished"
          PROVE  \E j \in DOMAIN posted' : i < j /\ posted'[j].worker = posted'[i].worker
      <3>1. CASE posted'[i].worker = x
        BY <1>2, <2>3, <3>1
      <3>2. CASE posted'[i].worker # x
        BY <1>1, <1>2, <2>1, <2>3, <3>2 DEF MainInv, SignalsInOrder
      <3> QED BY <3>1, <3>2
    <2> QED BY <2>2, <2>3 DEF SignalsInOrder
  <1>6. CutOnlyAtTheEnd'
    BY <1>1 DEF MainInv, CutOnlyAtTheEnd
  <1>7. OverlapsMarked'
    BY <1>1, <1>3 DEF MainInv, OverlapsMarked
  <1>8. ListedUntilTheEnd'
    BY <1>1, <1>3 DEF MainInv, ListedUntilTheEnd
  <1>9. CardsCoverTheList'
    <2>1. m_mounted' = m_mounted /\ \A w \in m_mounted : worker'[w].mp = worker[w].mp
      BY <1>1 DEF TypeOK
    <2>2. CardsOf(m_mounted)' = CardsOf(m_mounted)
      BY <2>1 DEF CardsOf
    <2> QED BY <1>1, <2>2 DEF MainInv, CardsCoverTheList
  <1>10. FinishedIsFlushed'
    BY <1>1 DEF MainInv, FinishedIsFlushed
  <1> QED BY <1>4, <1>5, <1>6, <1>7, <1>8, <1>9, <1>10 DEF MainInv

LEMMA StartsMain ==
    ASSUME TypeOK, MainInv, NEW p, Starts(p)
    PROVE  MainInv'
  <1> DEFINE n == Len(worker) + 1
  <1>1. /\ Workers' = Workers \cup {n} /\ n \notin Workers
        /\ worker'[n].stage = "started" /\ ~worker'[n].unflushed /\ worker'[n].mp = p
        /\ worker'[n].shared = (\E u \in Workers : worker[u].mp = p /\ Active(u))
        /\ \A u \in Workers :
              /\ worker'[u].stage = worker[u].stage /\ worker'[u].mp = worker[u].mp
              /\ worker'[u].unflushed = worker[u].unflushed
              /\ worker'[u].shared = (worker[u].shared \/ (worker[u].mp = p /\ Active(u)))
        /\ UNCHANGED <<app, posted, m_mounted, m_vaultCards>> /\ app = "running"
    BY StartsKeep DEF Starts, MainUnchanged
  <1> HIDE DEF n
  <1>2. /\ \A u : Pending(u)' = Pending(u)
        /\ \A u \in Workers : Active(u)' <=> Active(u)
        /\ ~Pending(n)
    BY <1>1, SignalsOfWorkers DEF Pending, Active, Running
  <1>3. NoGhostListed'
    BY <1>1, <1>2 DEF MainInv, NoGhostListed, TypeOK
  <1>4. SignalsInOrder'
    BY <1>1, SignalsOfWorkers DEF MainInv, SignalsInOrder
  <1>5. CutOnlyAtTheEnd'
    BY <1>1 DEF MainInv, CutOnlyAtTheEnd
  <1>6. OverlapsMarked'
    <2> SUFFICES ASSUME NEW u \in Workers', NEW w \in Workers', u # w,
                        worker'[u].mp = worker'[w].mp, Active(u)', Active(w)'
                 PROVE  worker'[w].shared
      BY DEF OverlapsMarked
    <2>1. CASE u \in Workers /\ w \in Workers
      BY <1>1, <1>2, <2>1 DEF MainInv, OverlapsMarked
    <2>2. CASE u = n /\ w \in Workers
      BY <1>1, <1>2, <2>2
    <2>3. CASE u \in Workers /\ w = n
      BY <1>1, <1>2, <2>3
    <2> QED BY <1>1, <2>1, <2>2, <2>3
  <1>7. ListedUntilTheEnd'
    BY <1>1, <1>2, WorkersTyped DEF MainInv, ListedUntilTheEnd
  <1>8. CardsCoverTheList'
    <2>1. CardsOf(m_mounted)' = CardsOf(m_mounted)
      BY <1>1 DEF CardsOf, TypeOK
    <2> QED BY <1>1, <2>1 DEF MainInv, CardsCoverTheList
  <1>9. FinishedIsFlushed'
    BY <1>1 DEF MainInv, FinishedIsFlushed
  <1> QED BY <1>3, <1>4, <1>5, <1>6, <1>7, <1>8, <1>9 DEF MainInv

(* The handler of a signal takes off the list only what shares a mountpoint  *)
(* with a thread that has ended.                                             *)
LEMMA DeliverMain ==
    ASSUME TypeOK, MainInv, Deliver
    PROVE  MainInv'
  <1> DEFINE h == Head(posted).worker
             kind == Head(posted).kind
  <1>1. /\ posted # <<>> /\ Head(posted) = posted[1] /\ 1 \in DOMAIN posted
        /\ h \in Workers /\ Workers' = Workers
        /\ \A i : i \in DOMAIN posted' <=> i \in Nat \ {0} /\ i + 1 \in DOMAIN posted
        /\ \A i \in DOMAIN posted' : posted'[i] = posted[i + 1]
        /\ DOMAIN posted \subseteq Nat \ {0}
        /\ app = "running" /\ UNCHANGED <<app, worker, kernel>>
    BY Delivered DEF Workers
  <1>2. \/ /\ kind = "mounted" /\ m_mounted' = m_mounted \cup {h}
           /\ m_vaultCards' = CardsOf(m_mounted')
        \/ /\ kind # "mounted" /\ worker[h].stage = "finished"
           /\ m_mounted' = {w \in m_mounted : worker[w].mp # worker[h].mp}
           /\ m_vaultCards' \in {m_vaultCards, CardsOf(m_mounted')}
    <2>1. kind # "mounted" => worker[h].stage = "finished"
      BY <1>1 DEF MainInv, SignalsInOrder
    <2> QED BY <1>1, <2>1
        DEF Deliver, OnMountStarted, OnMountGone, OnMountError, AddMounted, RemoveMounted, CardsOf
  <1>3. Pending(h)
    BY <1>1 DEF Pending
  <1>4. ASSUME NEW u, u # h PROVE Pending(u)' <=> Pending(u)
    <2>1. ASSUME NEW i \in DOMAIN posted, posted[i].worker = u
          PROVE  i - 1 \in DOMAIN posted' /\ posted'[i - 1].worker = u
      <3>1. i # 1 /\ i \in Nat \ {0}
        BY <1>1, <1>4, <2>1
      <3>2. i - 1 \in Nat \ {0} /\ (i - 1) + 1 = i
        BY <3>1
      <3> QED BY <1>1, <2>1, <3>2
    <2>2. ASSUME NEW i \in DOMAIN posted', posted'[i].worker = u
          PROVE  i + 1 \in DOMAIN posted /\ posted[i + 1].worker = u
      BY <1>1, <2>2
    <2> QED BY <2>1, <2>2 DEF Pending
  <1> HIDE DEF h, kind
  <1>5. \A u \in Workers : Active(u)' => Active(u)
    BY <1>1, <1>3, <1>4 DEF Active, Running
  <1>6. NoGhostListed'
    <2> SUFFICES ASSUME NEW w \in m_mounted', worker[w].stage = "finished"
                 PROVE  Pending(w)'
      BY <1>1 DEF NoGhostListed
    <2>1. CASE w # h
      BY <1>2, <1>4, <2>1 DEF MainInv, NoGhostListed
    <2>2. CASE w = h
      <3>1. kind = "mounted"
        BY <1>2, <2>2
      <3>2. PICK j \in DOMAIN posted : 1 < j /\ posted[j].worker = h
        BY <1>1, <2>2, <3>1 DEF MainInv, SignalsInOrder, h, kind
      <3>3. j - 1 \in Nat \ {0} /\ (j - 1) + 1 = j
        BY <1>1, <3>2
      <3>4. j - 1 \in DOMAIN posted' /\ posted'[j - 1].worker = h
        BY <1>1, <3>2, <3>3
      <3> QED BY <2>2, <3>4 DEF Pending
    <2> QED BY <2>1, <2>2
  <1>7. SignalsInOrder'
    <2>1. ASSUME NEW i \in DOMAIN posted', posted'[i].kind # "mounted"
          PROVE  worker'[posted'[i].worker].stage = "finished"
      BY <1>1, <2>1 DEF MainInv, SignalsInOrder
    <2>2. ASSUME NEW i \in DOMAIN posted', posted'[i].kind = "mounted",
                 worker'[posted'[i].worker].stage = "finished"
          PROVE  \E j \in DOMAIN posted' : i < j /\ posted'[j].worker = posted'[i].worker
      <3>1. i \in Nat \ {0} /\ i + 1 \in DOMAIN posted /\ posted'[i] = posted[i + 1]
        BY <1>1
      <3>2. PICK j \in DOMAIN posted : i + 1 < j /\ posted[j].worker = posted'[i].worker
        BY <1>1, <2>2, <3>1 DEF MainInv, SignalsInOrder
      <3>3. j - 1 \in Nat \ {0} /\ (j - 1) + 1 = j /\ i < j - 1
        BY <1>1, <3>1, <3>2
      <3>4. j - 1 \in DOMAIN posted' /\ posted'[j - 1] = posted[j]
        BY <1>1, <3>3
      <3> QED BY <3>2, <3>3, <3>4
    <2> QED BY <2>1, <2>2 DEF SignalsInOrder
  <1>8. CutOnlyAtTheEnd'
    BY <1>1 DEF MainInv, CutOnlyAtTheEnd
  <1>9. OverlapsMarked'
    BY <1>1, <1>5 DEF MainInv, OverlapsMarked
  <1>10. ListedUntilTheEnd'
    <2> SUFFICES ASSUME NEW w \in Workers, worker[w].stage \notin {"started", "finished"},
                        ~Pending(w)', ~worker[w].shared
                 PROVE  w \in m_mounted'
      BY <1>1 DEF ListedUntilTheEnd
    <2>1. CASE w = h
      BY <1>2, <2>1
    <2>2. CASE w # h
      <3>1. w \in m_mounted
        BY <1>1, <1>4, <2>2 DEF MainInv, ListedUntilTheEnd
      <3>2. Active(w) /\ Active(h)
        BY <1>3 DEF Active, Running
      <3>3. worker[w].mp # worker[h].mp
        BY <1>1, <2>2, <3>2 DEF MainInv, OverlapsMarked
      <3> QED BY <1>2, <3>1, <3>3
    <2> QED BY <2>1, <2>2
  <1>11. CardsCoverTheList'
    <2>1. CardsOf(m_mounted)' = {worker[w].mp : w \in m_mounted'}
      BY <1>1 DEF CardsOf
    <2> QED BY <1>1, <1>2, <2>1 DEF MainInv, CardsCoverTheList, CardsOf
  <1>12. FinishedIsFlushed'
    BY <1>1 DEF MainInv, FinishedIsFlushed
  <1> QED BY <1>6, <1>7, <1>8, <1>9, <1>10, <1>11, <1>12 DEF MainInv

LEMMA QuitMain ==
    ASSUME TypeOK, MainInv, Quit
    PROVE  MainInv'
  <1>1. /\ app' # "running" /\ posted' = <<>> /\ m_mounted' = {} /\ Workers' = Workers
        /\ \A w \in Workers :
              /\ worker'[w].stage = QuitStage(w) /\ worker'[w].mp = worker[w].mp
              /\ worker'[w].shared = worker[w].shared
              /\ worker'[w].unflushed = worker[w].unflushed
    BY QuitKeeps DEF Quit
  <1>2. \A w : ~Pending(w)'
    BY <1>1 DEF Pending
  <1>3. \A w \in Workers : Active(w)' => Active(w)
    BY <1>1, <1>2 DEF Active, Running, QuitStage
  <1>4. OverlapsMarked'
    BY <1>1, <1>3 DEF MainInv, OverlapsMarked
  <1>5. NoGhostListed' /\ SignalsInOrder' /\ ListedUntilTheEnd' /\ CardsCoverTheList'
    BY <1>1 DEF NoGhostListed, SignalsInOrder, ListedUntilTheEnd, CardsCoverTheList
  <1>6. CutOnlyAtTheEnd' /\ FinishedIsFlushed'
    BY <1>1 DEF MainInv, CutOnlyAtTheEnd, FinishedIsFlushed, QuitStage
  <1> QED BY <1>4, <1>5, <1>6 DEF MainInv

LEMMA MainStep ==
    ASSUME TypeOK, MainInv, [Next]_vars
    PROVE  MainInv'
  <1>1. CASE Refresh \/ UNCHANGED vars
    <2>1. /\ UNCHANGED <<app, worker, posted, m_mounted>>
          /\ m_vaultCards' \in {m_vaultCards, CardsOf(m_mounted)}
      BY <1>1 DEF Refresh, vars
    <2>2. /\ \A w : Pending(w)' = Pending(w) /\ Active(w)' = Active(w)
          /\ Workers' = Workers /\ CardsOf(m_mounted)' = CardsOf(m_mounted)
      BY <2>1 DEF Pending, Active, Running, Workers, CardsOf
    <2> QED BY <2>1, <2>2
            DEF MainInv, NoGhostListed, SignalsInOrder, CutOnlyAtTheEnd, OverlapsMarked,
                ListedUntilTheEnd, CardsCoverTheList, FinishedIsFlushed
  <1> QED
    BY <1>1, StepShapes, GoesOnMain, TellsMain, StartsMain, DeliverMain, QuitMain DEF MainInv

LEMMA FirstState == ASSUME Init PROVE TypeOK /\ MountedOnce /\ MainInv
  <1>1. Workers = {} /\ Len(worker) = 0 /\ \A mp \in Mountpoints : kernel[mp] = <<>>
    BY DEF Init, Workers
  <1>2. TypeOK
    BY <1>1, BoundsAssumption DEF Init, TypeOK
  <1>3. MountedOnce
    BY <1>1 DEF MountedOnce
  <1>4. MainInv
    BY <1>1 DEF Init, MainInv, NoGhostListed, SignalsInOrder, CutOnlyAtTheEnd,
                OverlapsMarked, ListedUntilTheEnd, CardsCoverTheList, CardsOf,
                FinishedIsFlushed
  <1> QED BY <1>2, <1>3, <1>4

(* The inductive invariant holds throughout. *)
THEOREM ListIsKept == Spec => [](TypeOK /\ MountedOnce /\ MainInv)
<1>1. Init => TypeOK /\ MountedOnce /\ MainInv
  BY FirstState
<1>2. TypeOK /\ MountedOnce /\ MainInv /\ [Next]_vars
        => (TypeOK /\ MountedOnce /\ MainInv)'
  BY TypesStep, MainStep DEF MainInv
<1> QED BY <1>1, <1>2, PTL DEF Spec

(* The variables keep their types, and the mount table holds exactly the     *)
(* sessions that serve it or were cut off.                                   *)
THEOREM TypeCorrect == Spec => []TypeOK
BY ListIsKept, PTL

(* m_mounted never names a session whose end the main thread was told of.    *)
THEOREM NoGhosts == Spec => []NoGhostListed
<1>1. MainInv => NoGhostListed
  BY DEF MainInv
<1> QED BY <1>1, ListIsKept, PTL

(* A session that has its mountpoint for itself, and whose signals have been *)
(* handled, is on the list and has a card.                                   *)
THEOREM ServingShown == Spec => []ServingIsShown
<1>1. MainInv => ServingIsShown
  <2> SUFFICES ASSUME MainInv, NEW w \in Workers, worker[w].stage = "serving",
                      ~Pending(w), ~worker[w].shared
               PROVE  w \in m_mounted /\ worker[w].mp \in m_vaultCards
    BY DEF ServingIsShown
  <2>1. app = "running"
    BY DEF MainInv, CutOnlyAtTheEnd
  <2>2. w \in m_mounted
    BY <2>1 DEF MainInv, ListedUntilTheEnd
  <2> QED BY <2>1, <2>2 DEF MainInv, CardsCoverTheList, CardsOf
<1> QED BY <1>1, ListIsKept, PTL

(* A container that is off the list again has been dropped, its last flush   *)
(* done.                                                                     *)
THEOREM UnlistedClosed == Spec => []UnlistedIsClosed
<1>1. MainInv => UnlistedIsClosed
  BY DEF MainInv, UnlistedIsClosed, ListedUntilTheEnd, FinishedIsFlushed
<1> QED BY <1>1, ListIsKept, PTL

=============================================================================
