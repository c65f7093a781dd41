--------------------------- MODULE ProcessLifecycle ---------------------------
(***************************************************************************)
(* The lifecycle of one duckOS Process (kernel/tasking/Process.cpp): the   *)
(* death of its threads and the two-phase destruction protocol on the      *)
(* atomic flag _ready_to_destroy shared by alert_thread_died and reap, and *)
(* stop / cont with the atomic flag _stopping and the per-thread           *)
(* aggregation of notify_thread_stopping.                                  *)
(*                                                                         *)
(* Each thread of the process runs its own code; the steps of different    *)
(* threads interleave because these paths hold only Mutexes (which yield), *)
(* not critical sections.  A dead thread never runs again (the scheduler  *)
(* queues and picks only ALIVE threads): alert_thread_died, private to    *)
(* Process and its friends Thread and Reaper, runs on the single Reaper   *)
(* kernel thread, one dead thread after the other, interleaved with the   *)
(* other threads.  The thread side of the protocol (Thread::die,          *)
(* Thread::block, the stop check at the preemption hook) is not part of    *)
(* the sources and is modelled from spec.md 4.3.  The sender of SIGSTOP /  *)
(* SIGCONT and the parent that reaps are further threads, outside the      *)
(* process.  A deleted process is never signalled again: it has left the   *)
(* process table (~Process calls remove_process).                          *)
(***************************************************************************)
EXTENDS Naturals, FiniteSets

CONSTANTS Threads,    \* the threads of the process, all created with it
          Senders     \* threads of other processes that call kill on it

ASSUME LifecycleAssumption == Threads # {} /\ IsFiniteSet(Threads)

VARIABLES tstate,    \* Thread::state
          tpc,       \* where each thread is in its own lifecycle code
          members,   \* the keys of _threads
          pstate,    \* Process::_state
          stopping,  \* _stopping
          stopPc,    \* per sender, "interrupt": in stop() between its exchange and its loop
          contPc,    \* per sender, "resumed": in cont() between its loop and the store
          rtd,       \* _ready_to_destroy
          reaped,    \* reap() has been called by the parent
          sigchld,   \* SIGCHLDs sent to the parent
          deleted    \* times `delete this` has run

vars == <<tstate, tpc, members, pstate, stopping, stopPc, contPc, rtd, reaped, sigchld, deleted>>

(* tpc: "live" running normally; "stopping" between notify_thread_stopping *)
(* and setting its own state; "dead" died and waiting for the Reaper;      *)
(* "check", "notify", "cas" the steps of the Reaper's alert_thread_died    *)
(* for it after remove_thread; "exited" once that call returned.          *)
PCs == {"live", "stopping", "dead", "check", "notify", "cas", "exited"}

Init == /\ tstate = [t \in Threads |-> "Alive"]
        /\ tpc = [t \in Threads |-> "live"]
        /\ members = Threads
        /\ pstate = "Alive"
        /\ stopping = FALSE
        /\ stopPc = [s \in Senders |-> "idle"]
        /\ contPc = [s \in Senders |-> "idle"]
        /\ rtd = FALSE
        /\ reaped = FALSE
        /\ sigchld = 0
        /\ deleted = 0

(* Thread::block: a running thread waits on a blocker.                     *)
Block(t) ==
    /\ tpc[t] = "live"
    /\ tstate[t] = "Alive"
    /\ tstate' = [tstate EXCEPT ![t] = "Blocked"]
    /\ UNCHANGED <<tpc, members, pstate, stopping, stopPc, contPc, rtd, reaped, sigchld, deleted>>

(* The unblock pass of TaskManager::preempt, for a process that is ALIVE   *)
(* or STOPPED, finds the blocker of t ready and unblocks it.               *)
Wake(t) ==
    /\ pstate \in {"Alive", "Stopped"}
    /\ t \in members
    /\ tstate[t] = "Blocked"
    /\ tstate' = [tstate EXCEPT ![t] = "Alive"]
    /\ UNCHANGED <<tpc, members, pstate, stopping, stopPc, contPc, rtd, reaped, sigchld, deleted>>

(* kill(SIGSTOP) -> stop: the compare-exchange of _stopping from false to  *)
(* true (a failed exchange changes nothing); on success WaitBlocker is     *)
(* notified, and then, in for_each_thread under _thread_lock, every        *)
(* blocked thread is interrupted (woken early) to observe the request.     *)
StopCas(s) ==
    /\ deleted = 0
    /\ stopPc[s] = "idle" /\ contPc[s] = "idle"
    /\ ~stopping
    /\ stopping' = TRUE
    /\ stopPc' = [stopPc EXCEPT ![s] = "interrupt"]
    /\ UNCHANGED <<tstate, tpc, members, pstate, contPc, rtd, reaped, sigchld, deleted>>

StopInterrupt(s) ==
    /\ stopPc[s] = "interrupt"
    /\ tstate' = [t \in Threads |-> IF t \in members /\ tstate[t] = "Blocked"
                                      THEN "Alive" ELSE tstate[t]]
    /\ stopPc' = [stopPc EXCEPT ![s] = "idle"]
    /\ UNCHANGED <<tpc, members, pstate, stopping, contPc, rtd, reaped, sigchld, deleted>>

(* A variant of the aggregation that counts every thread that is not      *)
(* ALIVE as stopped (a blocked one too); StoppedMeansAllStopped must       *)
(* detect it.                                                              *)
ObserveStopNotAlive(t) ==
    /\ tpc[t] = "live"
    /\ tstate[t] = "Alive"
    /\ stopping
    /\ pstate' = IF \A u \in members \ {t} : tstate[u] # "Alive" THEN "Stopped" ELSE pstate
    /\ tpc' = [tpc EXCEPT ![t] = "stopping"]
    /\ UNCHANGED <<tstate, members, stopping, stopPc, contPc, rtd, reaped, sigchld, deleted>>

(* A running thread sees is_stopping() at its preemption hook and calls    *)
(* notify_thread_stopping: if every other thread of _threads is STOPPED,   *)
(* the process becomes STOPPED.  It then sets its own state (StopSelf).    *)
ObserveStop(t) ==
    /\ tpc[t] = "live"
    /\ tstate[t] = "Alive"
    /\ stopping
    /\ pstate' = IF \A u \in members \ {t} : tstate[u] = "Stopped" THEN "Stopped" ELSE pstate
    /\ tpc' = [tpc EXCEPT ![t] = "stopping"]
    /\ UNCHANGED <<tstate, members, stopping, stopPc, contPc, rtd, reaped, sigchld, deleted>>

StopSelf(t) ==
    /\ tpc[t] = "stopping"
    /\ tstate' = [tstate EXCEPT ![t] = "Stopped"]
    /\ tpc' = [tpc EXCEPT ![t] = "live"]
    /\ UNCHANGED <<members, pstate, stopping, stopPc, contPc, rtd, reaped, sigchld, deleted>>

(* kill(SIGCONT) -> cont, under m_starting_lock (free: no sender is in    *)
(* cont): return unless STOPPED; otherwise become ALIVE and set every      *)
(* thread ALIVE and queue it.  The store of false into _stopping comes     *)
(* after the loop (ContClear), and then the lock is released.             *)
ContResume(s) ==
    /\ deleted = 0
    /\ stopPc[s] = "idle"
    /\ \A u \in Senders : contPc[u] = "idle"
    /\ pstate = "Stopped"
    /\ pstate' = "Alive"
    /\ tstate' = [t \in Threads |-> IF t \in members THEN "Alive" ELSE tstate[t]]
    /\ contPc' = [contPc EXCEPT ![s] = "resumed"]
    /\ UNCHANGED <<tpc, members, stopping, stopPc, rtd, reaped, sigchld, deleted>>

ContClear(s) ==
    /\ contPc[s] = "resumed"
    /\ stopping' = FALSE
    /\ contPc' = [contPc EXCEPT ![s] = "idle"]
    /\ UNCHANGED <<tstate, tpc, members, pstate, stopPc, rtd, reaped, sigchld, deleted>>

(* The signals whose kill() changes the state modelled here.  Any other    *)
(* valid signal goes to handle_signal of the process's threads, whose      *)
(* code is not part of the sources; an invalid one returns at once.        *)
KillSignals == {"SIGSTOP", "SIGTSTP", "SIGCONT"}

(* Process::kill(signal) from a sender: SIGSTOP and SIGTSTP call stop(),   *)
(* SIGCONT calls cont(), each returning right after.                      *)
Kill(s, sig) ==
    \/ sig \in {"SIGSTOP", "SIGTSTP"} /\ StopCas(s)
    \/ sig = "SIGCONT" /\ ContResume(s)

(* Thread::die of a running thread: it becomes DEAD, is never scheduled   *)
(* again, and is left to the Reaper; it stays a key of _threads.          *)
Die(t) ==
    /\ tpc[t] = "live"
    /\ tstate[t] = "Alive"
    /\ tstate' = [tstate EXCEPT ![t] = "Dead"]
    /\ tpc' = [tpc EXCEPT ![t] = "dead"]
    /\ UNCHANGED <<members, pstate, stopping, stopPc, contPc, rtd, reaped, sigchld, deleted>>

(* The Reaper is inside an alert_thread_died call. *)
ReaperBusy == \E u \in Threads : tpc[u] \in {"check", "notify", "cas"}

RemoveThreadConcurrent(t) ==
    /\ tpc[t] = "dead"
    /\ members' = members \ {t}
    /\ tpc' = [tpc EXCEPT ![t] = "check"]
    /\ UNCHANGED <<tstate, pstate, stopping, stopPc, contPc, rtd, reaped, sigchld, deleted>>
(* The Reaper, between two calls, calls alert_thread_died for a dead       *)
(* thread; its first call remove_thread takes the thread out of _threads   *)
(* (and _tids) under _thread_lock.                                          *)
RemoveThread(t) ==
    /\ ~ReaperBusy
    /\ tpc[t] = "dead"
    /\ members' = members \ {t}
    /\ tpc' = [tpc EXCEPT ![t] = "check"]
    /\ UNCHANGED <<tstate, pstate, stopping, stopPc, contPc, rtd, reaped, sigchld, deleted>>

(* alert_thread_died, after the lock is released: _threads.size() == 0?    *)
CheckLast(t) ==
    /\ tpc[t] = "check"
    /\ tpc' = [tpc EXCEPT ![t] = IF members = {} THEN "notify" ELSE "exited"]
    /\ UNCHANGED <<tstate, members, pstate, stopping, stopPc, contPc, rtd, reaped, sigchld, deleted>>

(* SIGCHLD to the parent, then reparent_orphans (no state of this model).  *)
Notify(t) ==
    /\ tpc[t] = "notify"
    /\ sigchld' = sigchld + 1
    /\ tpc' = [tpc EXCEPT ![t] = "cas"]
    /\ UNCHANGED <<tstate, members, pstate, stopping, stopPc, contPc, rtd, reaped, deleted>>

(* Variants of the exchange of the dying thread: one forgets to make the   *)
(* process a ZOMBIE, the other forgets to delete it when reap ran first.   *)
(* ExitedIsZombieOrDeleted and EventuallyDeleted must detect them.         *)
DestroyCasNoZombie(t) ==
    /\ tpc[t] = "cas"
    /\ IF rtd THEN /\ deleted' = deleted + 1
                   /\ UNCHANGED rtd
              ELSE /\ rtd' = TRUE
                   /\ UNCHANGED deleted
    /\ tpc' = [tpc EXCEPT ![t] = "exited"]
    /\ UNCHANGED <<tstate, members, pstate, stopping, stopPc, contPc, reaped, sigchld>>

DestroyCasNoDelete(t) ==
    /\ tpc[t] = "cas"
    /\ rtd' = TRUE
    /\ pstate' = IF rtd THEN pstate ELSE "Zombie"
    /\ tpc' = [tpc EXCEPT ![t] = "exited"]
    /\ UNCHANGED <<tstate, members, stopping, stopPc, contPc, reaped, sigchld, deleted>>

(* The compare-exchange of _ready_to_destroy from false to true: success   *)
(* makes the process a ZOMBIE; failure means reap ran first: delete this.  *)
DestroyCas(t) ==
    /\ tpc[t] = "cas"
    /\ IF rtd THEN /\ deleted' = deleted + 1
                   /\ UNCHANGED <<rtd, pstate>>
              ELSE /\ rtd' = TRUE
                   /\ pstate' = "Zombie"
                   /\ UNCHANGED deleted
    /\ tpc' = [tpc EXCEPT ![t] = "exited"]
    /\ UNCHANGED <<tstate, members, stopping, stopPc, contPc, reaped, sigchld>>

(* A reap that deletes the process without the exchange; DestroyedOnce    *)
(* and DeletedAfterBoth must detect it.                                    *)
ReapUnconditional ==
    /\ ~reaped
    /\ reaped' = TRUE
    /\ rtd' = TRUE
    /\ deleted' = deleted + 1
    /\ UNCHANGED <<tstate, tpc, members, pstate, stopping, stopPc, contPc, sigchld>>

(* Process::reap by the parent, once: the same compare-exchange; when it   *)
(* fails the threads have all died, and reap deletes the process.          *)
Reap ==
    /\ ~reaped
    /\ reaped' = TRUE
    /\ IF rtd THEN /\ deleted' = deleted + 1
                   /\ UNCHANGED rtd
              ELSE /\ rtd' = TRUE
                   /\ UNCHANGED deleted
    /\ UNCHANGED <<tstate, tpc, members, pstate, stopping, stopPc, contPc, sigchld>>

(* One step of the Reaper thread. *)
ReaperStep == \E t \in Threads : RemoveThread(t) \/ CheckLast(t) \/ Notify(t) \/ DestroyCas(t)

Next == \/ \E t \in Threads : \/ Block(t) \/ Wake(t) \/ ObserveStop(t) \/ StopSelf(t)
                              \/ Die(t)
        \/ \E s \in Senders : \/ \E sig \in KillSignals : Kill(s, sig)
                              \/ StopInterrupt(s) \/ ContClear(s)
        \/ ReaperStep
        \/ Reap

(* The Reaper kernel thread keeps running while a dead thread waits for it *)
(* or it is inside alert_thread_died, and the parent eventually reaps (its *)
(* wait returns for a zombie child).                                       *)
Fairness == /\ WF_vars(ReaperStep)
            /\ WF_vars(Reap)

Spec == Init /\ [][Next]_vars
FairSpec == Spec /\ Fairness
-----------------------------------------------------------------------------
(* Every variable has its type.                                            *)
TypeOK ==
    /\ tstate \in [Threads -> {"Alive", "Blocked", "Stopped", "Dead"}]
    /\ tpc \in [Threads -> PCs]
    /\ members \subseteq Threads
    /\ pstate \in {"Alive", "Stopped", "Zombie"}
    /\ stopping \in BOOLEAN
    /\ stopPc \in [Senders -> {"idle", "interrupt"}]
    /\ contPc \in [Senders -> {"idle", "resumed"}]
    /\ rtd \in BOOLEAN
    /\ reaped \in BOOLEAN
    /\ sigchld \in Nat
    /\ deleted \in Nat

(* spec.md 8: destruction is exactly-once whichever of reap and the death  *)
(* of the last thread comes first: `delete this` runs at most once.        *)
DestroyedOnce == deleted <= 1

(* The process object is deleted only after both halves of the protocol:  *)
(* the parent has reaped it and every thread has returned from             *)
(* alert_thread_died, so no code of the process runs on freed memory.      *)
DeletedAfterBoth ==
    deleted > 0 => reaped /\ \A t \in Threads : tpc[t] = "exited"

(* spec.md 3: once every thread has died and returned, the process is a    *)
(* ZOMBIE awaiting reap or, if reaped, deleted; the parent got one SIGCHLD. *)
ExitedIsZombieOrDeleted ==
    (\A t \in Threads : tpc[t] = "exited") =>
        /\ sigchld = 1
        /\ IF reaped THEN deleted = 1 ELSE pstate = "Zombie" /\ deleted = 0

(* spec.md 4.2: the process is STOPPED only when the aggregation of        *)
(* notify_thread_stopping has seen every thread stopped: each live thread  *)
(* is STOPPED or is the one that just notified and is setting its state.   *)
StoppedMeansAllStopped ==
    pstate = "Stopped" =>
        \A t \in members : tstate[t] = "Stopped" \/ tpc[t] = "stopping"

(* A thread is STOPPED only while a stop request is pending: cont() ends   *)
(* every stop, so after SIGCONT no thread of the process stays stopped.    *)
StoppedOnlyWhileStopping ==
    \A t \in Threads : tstate[t] = "Stopped" => stopping

(* Once every thread has died, the process is eventually deleted.         *)
EventuallyDeleted ==
    (\A t \in Threads : tstate[t] = "Dead") ~> deleted > 0

-----------------------------------------------------------------------------
(* The inductive invariant behind StoppedMeansAllStopped: a thread is a    *)
(* key of _threads exactly until the Reaper's remove_thread for it, and    *)
(* a thread between notify_thread_stopping and setting its state is still  *)
(* ALIVE (nothing blocks or wakes it in that window).                      *)
StopIInv ==
    /\ TypeOK
    /\ StoppedMeansAllStopped
    /\ \A t \in Threads : t \in members <=> tpc[t] \in {"live", "stopping", "dead"}
    /\ \A t \in Threads : tpc[t] = "stopping" => tstate[t] = "Alive"

(* The inductive invariant of the destruction protocol, for any number  *)
(* of threads.  The Reaper is in at most one alert_thread_died call; a   *)
(* thread is a key of _threads until its remove_thread; the call that     *)
(* sends SIGCHLD found _threads empty; the one SIGCHLD has been sent once  *)
(* that call reached its exchange; _ready_to_destroy records that one of  *)
(* reap and that exchange has run, the process was deleted exactly when   *)
(* both have, and an unreaped exited process is a ZOMBIE.                 *)
AllExited == \A t \in Threads : tpc[t] = "exited"

DestroyInv ==
    /\ TypeOK
    /\ \A t, u \in Threads : tpc[t] \in {"check", "notify", "cas"}
                             /\ tpc[u] \in {"check", "notify", "cas"} => t = u
    /\ \A t \in Threads : t \in members <=> tpc[t] \in {"live", "stopping", "dead"}
    /\ \A t \in Threads : tpc[t] \in {"notify", "cas"} => members = {}
    /\ sigchld = IF AllExited \/ \E t \in Threads : tpc[t] = "cas" THEN 1 ELSE 0
    /\ rtd = (reaped \/ AllExited)
    /\ deleted = IF reaped /\ AllExited THEN 1 ELSE 0
    /\ AllExited /\ ~reaped => pstate = "Zombie"
=============================================================================
