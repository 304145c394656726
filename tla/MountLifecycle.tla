---------------------------- MODULE MountLifecycle ----------------------------
(***************************************************************************)
(* The desktop program around a mounted vault: the window asks VenomCore   *)
(* to mount, a MountWorker thread per mount runs vnm_mount_blocking until  *)
(* its FUSE session ends, the thread reports to the main thread through    *)
(* queued signals, and the window redraws its list of vaults from what     *)
(* VenomCore keeps in m_mounted.                                           *)
(*                                                                         *)
(* The actors are the user (OnMount, UnmountClicked, Refresh, Quit), the   *)
(* main thread's event loop (Deliver), one thread per mount (Report ...    *)
(* Finish), the operating system's mount table and the files' users        *)
(* (UnmountedOutside, SessionFails, Write).                                *)
(***************************************************************************)
EXTENDS Naturals, Sequences, FiniteSets, SequencesExt

CONSTANTS Vaults,        \* vault files
          Mountpoints,   \* directories to mount at
          MaxMounts,     \* bound: mounts asked for in a behaviour
          MaxThreads     \* bound: threads that run at once

ASSUME BoundsAssumption == {MaxMounts, MaxThreads} \subseteq Nat

VARIABLES
    app,          \* the process: "running", "exited" or "aborted"
    worker,       \* the MountWorker threads in the order they were started
    kernel,       \* per mountpoint, the sessions mounted there, topmost last
    posted,       \* signals queued for the main thread, oldest first
    m_mounted,    \* VenomCore's mounted containers, as worker numbers
    m_vaultCards  \* the mountpoints of the cards the window shows as Mounted

vars == <<app, worker, kernel, posted, m_mounted, m_vaultCards>>

Workers == DOMAIN worker

(* A thread's life: its handle has been opened and it is running, it has   *)
(* reported, it serves FUSE requests, its session has ended, VenomFuse has *)
(* been dropped, run() has returned; or the process ended around it.       *)
Stages == {"started", "reported", "serving", "ended", "dropped", "finished", "cut"}

(* `unflushed` says that the session changed the vault since it was opened *)
(* and flush_all has not run yet, `result` is what driver::mount returns;  *)
(* `shared` remembers that another session of the same mountpoint          *)
(* overlapped this one (it stands for no state of the code).               *)
Worker == [vault : Vaults, mp : Mountpoints, stage : Stages, unflushed : BOOLEAN,
           result : {"gone", "error"}, shared : BOOLEAN]

Signal == [kind : {"mounted", "gone", "error"}, worker : Workers]

Pending(w) == \E i \in DOMAIN posted : posted[i].worker = w

Running(w) == worker[w].stage # "finished"

At(mp) == {w \in Workers : worker[w].mp = mp}

CardsOf(mounted) == {worker[w].mp : w \in mounted}

Init ==
    /\ app = "running"
    /\ worker = <<>>
    /\ kernel = [mp \in Mountpoints |-> <<>>]
    /\ posted = <<>>
    /\ m_mounted = {}
    /\ m_vaultCards = {}

-----------------------------------------------------------------------------
(* The user and the main thread.                                           *)

(* The container is opened on the main thread and its handle given to a    *)
(* new thread. Nothing asks whether the vault or the mountpoint is in use. *)
(* An open that fails tells the user so and changes nothing.               *)
OnMount(v, mp) ==
    LET others == {u \in At(mp) : Running(u) \/ Pending(u)}
        new    == [vault |-> v, mp |-> mp, stage |-> "started",
                   unflushed |-> FALSE, result |-> "gone", shared |-> others # {}]
    IN  /\ app = "running"
        /\ Len(worker) < MaxMounts
        /\ Cardinality({w \in Workers : Running(w)}) < MaxThreads
        /\ worker' = Append([w \in Workers |->
                              IF w \in others THEN [worker[w] EXCEPT !.shared = TRUE]
                                              ELSE worker[w]], new)
        /\ UNCHANGED <<app, kernel, posted, m_mounted, m_vaultCards>>

(* Mutated form of TakenDown: every session of the mountpoint is unmounted  *)
(* and the topmost one's loop returns.                                     *)
TakenDownAll(mp) ==
    /\ kernel[mp] # <<>>
    /\ kernel' = [kernel EXCEPT ![mp] = <<>>]
    /\ worker' = [worker EXCEPT ![Last(kernel[mp])].stage = "ended",
                                ![Last(kernel[mp])].result = "gone"]

(* fusermount takes the topmost session of a mountpoint down, and that     *)
(* session's loop returns. It refuses when files are in use: no change.    *)
TakenDown(mp) ==
    /\ kernel[mp] # <<>>
    /\ kernel' = [kernel EXCEPT ![mp] = Front(@)]
    /\ worker' = [worker EXCEPT ![Last(kernel[mp])].stage = "ended",
                                ![Last(kernel[mp])].result = "gone"]

UnmountClicked(mp) ==
    /\ app = "running"
    /\ mp \in m_vaultCards
    /\ TakenDown(mp)
    /\ UNCHANGED <<app, posted, m_mounted, m_vaultCards>>

(* A change of tab, or a container created: the cards are drawn again.     *)
Refresh ==
    /\ app = "running"
    /\ m_vaultCards' = CardsOf(m_mounted)
    /\ UNCHANGED <<app, worker, kernel, posted, m_mounted>>

AddMounted(w) == m_mounted \cup {w}

(* Mutated form of RemoveMounted: it forgets one container of the           *)
(* mountpoint only.                                                        *)
RemoveOneMounted(mp) ==
    LET there == {w \in m_mounted : worker[w].mp = mp}
    IN  m_mounted \ (IF there = {} THEN {} ELSE {CHOOSE w \in there : TRUE})

(* removeMounted forgets every container of the mountpoint.                *)
RemoveMounted(mp) == {w \in m_mounted : worker[w].mp # mp}

(* Mutated form of OnMountStarted: the signal is sent before the list is    *)
(* changed.                                                                *)
OnMountStartedEarly(w) ==
    /\ m_mounted' = AddMounted(w)
    /\ m_vaultCards' = CardsOf(m_mounted)

OnMountStarted(w) ==
    /\ m_mounted' = AddMounted(w)
    /\ m_vaultCards' = CardsOf(m_mounted')

OnMountGone(w) ==
    /\ m_mounted' = RemoveMounted(worker[w].mp)
    /\ m_vaultCards' = CardsOf(m_mounted')

(* The error is shown in the status bar; the cards are not drawn again.    *)
OnMountError(w) ==
    /\ m_mounted' = RemoveMounted(worker[w].mp)
    /\ UNCHANGED m_vaultCards

(* The event loop runs the handler of the oldest queued signal.            *)
Deliver ==
    /\ app = "running"
    /\ posted # <<>>
    /\ LET signal == Head(posted)
       IN  \/ signal.kind = "mounted" /\ OnMountStarted(signal.worker)
           \/ signal.kind = "gone" /\ OnMountGone(signal.worker)
           \/ signal.kind = "error" /\ OnMountError(signal.worker)
    /\ posted' = Tail(posted)
    /\ UNCHANGED <<app, worker, kernel>>

(* The window closes and main returns: ~VenomCore destroys its threads. Qt *)
(* ends the process when one of them still runs, and nothing that thread   *)
(* owns is dropped.                                                        *)
Quit ==
    /\ app = "running"
    /\ app' = IF \E w \in Workers : Running(w) THEN "aborted" ELSE "exited"
    /\ worker' = [w \in Workers |->
                    IF Running(w) THEN [worker[w] EXCEPT !.stage = "cut"] ELSE worker[w]]
    /\ posted' = <<>>
    /\ m_mounted' = {}
    /\ m_vaultCards' = {}
    /\ UNCHANGED kernel

-----------------------------------------------------------------------------
(* The thread of worker w, inside vnm_mount_blocking.                      *)

Goes(w, from, to) ==
    /\ worker[w].stage = from
    /\ worker' = [worker EXCEPT ![w].stage = to]

Post(w, kind) == posted' = Append(posted, [kind |-> kind, worker |-> w])

(* Mutated form of Report: one lock is held by a thread while it serves.    *)
ReportAlone(w) ==
    /\ \A u \in Workers : worker[u].stage # "serving"
    /\ Goes(w, "started", "reported")
    /\ Post(w, "mounted")
    /\ UNCHANGED <<app, kernel, m_mounted, m_vaultCards>>

(* on_mounted is called before the mount is tried.                         *)
Report(w) ==
    /\ Goes(w, "started", "reported")
    /\ Post(w, "mounted")
    /\ UNCHANGED <<app, kernel, m_mounted, m_vaultCards>>

MountSucceeds(w) ==
    /\ Goes(w, "reported", "serving")
    /\ kernel' = [kernel EXCEPT ![worker[w].mp] = Append(@, w)]
    /\ UNCHANGED <<app, posted, m_mounted, m_vaultCards>>

MountFails(w) ==
    /\ worker[w].stage = "reported"
    /\ worker' = [worker EXCEPT ![w].stage = "ended", ![w].result = "error"]
    /\ UNCHANGED <<app, kernel, posted, m_mounted, m_vaultCards>>

(* Mutated form of Drop: it waits for a lock that serving threads hold.     *)
DropLocked(w) ==
    /\ worker[w].stage = "ended"
    /\ \A u \in Workers : worker[u].stage # "serving"
    /\ worker' = [worker EXCEPT ![w].stage = "dropped", ![w].unflushed = FALSE]
    /\ UNCHANGED <<app, kernel, posted, m_mounted, m_vaultCards>>

(* VenomFuse is dropped: flush_all runs, and what fails in it is ignored.  *)
Drop(w) ==
    /\ worker[w].stage = "ended"
    /\ worker' = [worker EXCEPT ![w].stage = "dropped", ![w].unflushed = FALSE]
    /\ UNCHANGED <<app, kernel, posted, m_mounted, m_vaultCards>>

(* Mutated form of Finish: the end is reported before the drop.             *)
FinishUndropped(w) ==
    /\ Goes(w, "ended", "finished")
    /\ Post(w, worker[w].result)
    /\ UNCHANGED <<app, kernel, m_mounted, m_vaultCards>>

Finish(w) ==
    /\ Goes(w, "dropped", "finished")
    /\ Post(w, worker[w].result)
    /\ UNCHANGED <<app, kernel, m_mounted, m_vaultCards>>

-----------------------------------------------------------------------------
(* The files' users and the operating system.                              *)

(* A change made through the mountpoint: it is saved by the last flush.    *)
Write(w) ==
    /\ worker[w].stage = "serving"
    /\ worker' = [worker EXCEPT ![w].unflushed = TRUE]
    /\ UNCHANGED <<app, kernel, posted, m_mounted, m_vaultCards>>

UnmountedOutside(mp) ==
    /\ app = "running"
    /\ TakenDown(mp)
    /\ UNCHANGED <<app, posted, m_mounted, m_vaultCards>>

(* The session's loop returns an error and its mount is taken away.        *)
SessionFails(w) ==
    /\ worker[w].stage = "serving"
    /\ worker' = [worker EXCEPT ![w].stage = "ended", ![w].result = "error"]
    /\ \E i \in DOMAIN kernel[worker[w].mp] :
          /\ kernel[worker[w].mp][i] = w
          /\ kernel' = [kernel EXCEPT ![worker[w].mp] = RemoveAt(@, i)]
    /\ UNCHANGED <<app, posted, m_mounted, m_vaultCards>>

-----------------------------------------------------------------------------
Thread(w) == Report(w) \/ MountSucceeds(w) \/ MountFails(w) \/ Drop(w) \/ Finish(w)

Next ==
    \/ \E v \in Vaults, mp \in Mountpoints : OnMount(v, mp)
    \/ \E mp \in Mountpoints : UnmountClicked(mp) \/ UnmountedOutside(mp)
    \/ Refresh
    \/ Deliver
    \/ Quit
    \/ \E w \in Workers : Thread(w) \/ Write(w) \/ SessionFails(w)

Spec == Init /\ [][Next]_vars

(* Threads are scheduled and the event loop runs while the program does.   *)
(* Nothing makes the user unmount, a session end or the window close.      *)
Fairness ==
    /\ WF_vars(Deliver)
    /\ \A w \in 1 .. MaxMounts : WF_vars(w \in Workers /\ Thread(w))

FairSpec == Spec /\ Fairness

-----------------------------------------------------------------------------
(* The variables have the values the code gives them, and the mount table  *)
(* holds exactly the sessions that serve it or were cut off.               *)
TypeOK ==
    /\ app \in {"running", "exited", "aborted"}
    /\ worker \in Seq(Worker) /\ Len(worker) <= MaxMounts
    /\ posted \in Seq(Signal)
    /\ m_mounted \subseteq Workers
    /\ m_vaultCards \subseteq Mountpoints
    /\ kernel \in [Mountpoints -> Seq(Workers)]
    /\ \A mp \in Mountpoints, w \in Workers :
          /\ w \in ToSet(kernel[mp]) => w \in At(mp) /\ worker[w].stage \in {"serving", "cut"}
          /\ worker[w].stage = "serving" /\ w \in At(mp) => w \in ToSet(kernel[mp])

(* m_mounted names no session whose end the main thread has been told of:  *)
(* a container leaves the list with its gone or error signal, whatever     *)
(* sessions of other or of the same mountpoint came and went meanwhile.    *)
NoGhostListed ==
    \A w \in m_mounted : worker[w].stage = "finished" => Pending(w)

(* A session that serves its mountpoint alone, and whose signals have been *)
(* handled, is listed and has a card to unmount it from: the end of an     *)
(* earlier session of that mountpoint never takes it off the list.         *)
ServingIsShown ==
    \A w \in Workers :
        worker[w].stage = "serving" /\ ~Pending(w) /\ ~worker[w].shared
            => w \in m_mounted /\ worker[w].mp \in m_vaultCards

(* A container that was listed and no longer is has been dropped: its last *)
(* flush has run, so the vault may be opened again (not promised to those  *)
(* that shared their mountpoint).                                          *)
UnlistedIsClosed ==
    \A w \in Workers :
        app = "running" /\ ~Pending(w) /\ ~worker[w].shared
          /\ worker[w].stage # "started" /\ w \notin m_mounted
            => worker[w].stage = "finished" /\ ~worker[w].unflushed

Is(w, stage) == w \in Workers /\ worker[w].stage = stage

(* Every mount that got its handle is reported to the main thread, which   *)
(* handles the report, while the program runs.                             *)
MountIsAnswered ==
    \A w \in 1 .. MaxMounts :
        Is(w, "started") ~> (app # "running" \/ ~(Is(w, "started") \/ Pending(w)))

(* A session that ended, however it ended, leaves m_mounted for good while *)
(* the program runs: gone or error is always sent and always handled.      *)
EndIsHandled ==
    \A w \in 1 .. MaxMounts :
        Is(w, "ended") ~> (app # "running" \/ (Is(w, "finished") /\ w \notin m_mounted))

-----------------------------------------------------------------------------
(* What documents and comments say, and the code does not do.              *)

(* STATUS.md: the list is "auto-refreshed on mount/unmount", and a card    *)
(* with the status Mounted is a mounted container. A mount that fails      *)
(* after it was reported leaves its card, since onMountError does not      *)
(* draw the list again.                                                    *)
CardsAreOfListed ==
    app = "running" => \A mp \in m_vaultCards : \E w \in m_mounted : worker[w].mp = mp

(* fuse.rs: "Drop -> flush_all() safety net". When the window closes on a  *)
(* mounted vault the thread is never unwound and the net is not there.     *)
SafetyNetRuns ==
    \A w \in Workers : worker[w].stage = "cut" => ~worker[w].unflushed

(* error.rs has AlreadyMounted, "Container is already mounted"; nothing    *)
(* raises it, and two sessions may serve one vault file.                   *)
OneSessionPerVault ==
    \A u, w \in Workers :
        worker[u].stage = "serving" /\ worker[w].stage = "serving"
          /\ worker[u].vault = worker[w].vault => u = w

(* STATUS.md: a mounted container is in the list. The end of a session     *)
(* takes every session of its mountpoint off it.                           *)
ServingIsListed ==
    \A w \in Workers : worker[w].stage = "serving" /\ ~Pending(w) => w \in m_mounted
=============================================================================
