------------------------ MODULE ProcessLifecycleProofs ------------------------
(***************************************************************************)
(* Proofs about the lifecycle of a duckOS Process, for every set of        *)
(* threads and of signal senders.                                          *)
(*  - The type invariant, and the aggregation of notify_thread_stopping:   *)
(*    a STOPPED process has every live thread stopped or stopping.  Its    *)
(*    inductive invariant StopIInv adds that the thread table holds        *)
(*    exactly the threads the Reaper has not yet removed, and that a       *)
(*    thread that has notified its stop is still ALIVE.                    *)
(*  - The destruction protocol of alert_thread_died and reap, with the     *)
(*    Reaper running one alert_thread_died at a time: one SIGCHLD, and    *)
(*    the process deleted exactly once, after both have run.  Its         *)
(*    inductive invariant is DestroyInv.                                   *)
(***************************************************************************)
EXTENDS ProcessLifecycle, TLAPS

-----------------------------------------------------------------------------
(* StopIInv holds initially.                                               *)
LEMMA StopIInvInit == Init => StopIInv
  <1> SUFFICES ASSUME Init PROVE StopIInv
    OBVIOUS
  <1>1. TypeOK
    BY DEF Init, TypeOK, PCs
  <1>2. StoppedMeansAllStopped
    BY DEF Init, StoppedMeansAllStopped
  <1>3. \A t \in Threads : t \in members <=> tpc[t] \in {"live", "stopping", "dead"}
    BY DEF Init
  <1>4. \A t \in Threads : tpc[t] = "stopping" => tstate[t] = "Alive"
    BY DEF Init
  <1>5. QED
    BY <1>1, <1>2, <1>3, <1>4 DEF StopIInv

(* Every step keeps StopIInv.                                              *)
LEMMA StopIInvStep == StopIInv /\ [Next]_vars => StopIInv'
  <1> SUFFICES ASSUME StopIInv, [Next]_vars PROVE StopIInv'
    OBVIOUS
  <1> USE DEF StopIInv, TypeOK, StoppedMeansAllStopped, PCs
  <1>1. ASSUME NEW t \in Threads, Block(t) PROVE StopIInv'
    BY <1>1 DEF Block
  <1>2. ASSUME NEW t \in Threads, Wake(t) PROVE StopIInv'
    BY <1>2 DEF Wake
  <1>3. ASSUME NEW t \in Threads, ObserveStop(t) PROVE StopIInv'
    BY <1>3 DEF ObserveStop
  <1>4. ASSUME NEW t \in Threads, StopSelf(t) PROVE StopIInv'
    BY <1>4 DEF StopSelf
  <1>5. ASSUME NEW t \in Threads, Die(t) PROVE StopIInv'
    BY <1>5 DEF Die
  <1>17. ASSUME NEW t \in Threads, RemoveThread(t) PROVE StopIInv'
    BY <1>17 DEF RemoveThread
  <1>6. ASSUME NEW t \in Threads, CheckLast(t) PROVE StopIInv'
    BY <1>6 DEF CheckLast
  <1>7. ASSUME NEW t \in Threads, Notify(t) PROVE StopIInv'
    BY <1>7 DEF Notify
  <1>8. ASSUME NEW t \in Threads, DestroyCas(t) PROVE StopIInv'
    <2>1. CASE rtd
      BY <1>8, <2>1 DEF DestroyCas
    <2>2. CASE ~rtd
      BY <1>8, <2>2 DEF DestroyCas
    <2>3. QED
      BY <2>1, <2>2
  <1>9. ASSUME NEW s \in Senders, StopCas(s) PROVE StopIInv'
    BY <1>9 DEF StopCas
  <1>10. ASSUME NEW s \in Senders, StopInterrupt(s) PROVE StopIInv'
    BY <1>10 DEF StopInterrupt
  <1>11. ASSUME NEW s \in Senders, ContResume(s) PROVE StopIInv'
    BY <1>11 DEF ContResume
  <1>12. ASSUME NEW s \in Senders, ContClear(s) PROVE StopIInv'
    BY <1>12 DEF ContClear
  <1>13. CASE Reap
    <2>1. CASE rtd
      BY <1>13, <2>1 DEF Reap
    <2>2. CASE ~rtd
      BY <1>13, <2>2 DEF Reap
    <2>3. QED
      BY <2>1, <2>2
  <1>14. CASE UNCHANGED vars
    BY <1>14 DEF vars
  <1>15. ASSUME NEW s \in Senders, NEW sig \in KillSignals, Kill(s, sig) PROVE StopIInv'
    BY <1>15, <1>9, <1>11 DEF Kill
  <1>16. QED
    BY <1>1, <1>2, <1>3, <1>4, <1>5, <1>6, <1>7, <1>8, <1>10,
       <1>12, <1>13, <1>14, <1>15, <1>17 DEF Next, ReaperStep

(* The type invariant holds in every reachable state.                      *)
THEOREM LifecycleTypeCorrect == Spec => []TypeOK
  <1>1. StopIInv => TypeOK
    BY DEF StopIInv
  <1>2. QED
    BY <1>1, StopIInvInit, StopIInvStep, PTL DEF Spec

(* notify_thread_stopping marks the process STOPPED only when every other  *)
(* thread of _threads is STOPPED, and the concurrent blocks, wake-ups,     *)
(* deaths, SIGSTOPs and SIGCONTs never falsify that afterwards: while the  *)
(* process is STOPPED each live thread is STOPPED or is the one that       *)
(* notified and is about to set its own state.                             *)
THEOREM StoppedMeansAllStoppedHolds == Spec => []StoppedMeansAllStopped
  <1>1. StopIInv => StoppedMeansAllStopped
    BY DEF StopIInv
  <1>2. QED
    BY <1>1, StopIInvInit, StopIInvStep, PTL DEF Spec

-----------------------------------------------------------------------------
(* DestroyInv holds initially: no thread has died, so none has exited.     *)
LEMMA DestroyInit == Init => DestroyInv
  <1> SUFFICES ASSUME Init PROVE DestroyInv
    OBVIOUS
  <1>1. TypeOK
    BY DEF Init, TypeOK, PCs
  <1>2. ~AllExited
    BY LifecycleAssumption DEF Init, AllExited
  <1>3. QED
    BY <1>1, <1>2 DEF Init, DestroyInv

(* A step that keeps the type, moves threads only among "live",          *)
(* "stopping" and "dead", leaves the thread table and the destruction     *)
(* flags alone, and keeps the state of an unreaped exited process, keeps  *)
(* DestroyInv.                                                            *)
LEMMA DestroyFrame ==
  ASSUME DestroyInv, TypeOK',
         UNCHANGED <<members, rtd, reaped, sigchld, deleted>>,
         \A t \in Threads : \/ tpc'[t] = tpc[t]
                            \/ /\ tpc[t] \in {"live", "stopping", "dead"}
                               /\ tpc'[t] \in {"live", "stopping", "dead"},
         AllExited /\ ~reaped => pstate' = pstate
  PROVE  DestroyInv'
  <1>1. \A t \in Threads : /\ tpc'[t] = "exited" <=> tpc[t] = "exited"
                           /\ tpc'[t] \in {"check", "notify", "cas"} => tpc'[t] = tpc[t]
                           /\ tpc'[t] \in {"live", "stopping", "dead"}
                                <=> tpc[t] \in {"live", "stopping", "dead"}
    OBVIOUS
  <1>2. AllExited' = AllExited
    BY <1>1 DEF AllExited
  <1>3. (\E t \in Threads : tpc'[t] = "cas") = (\E t \in Threads : tpc[t] = "cas")
    BY <1>1
  <1>4. QED
    BY <1>1, <1>2, <1>3 DEF DestroyInv

(* Every step keeps DestroyInv.  The Reaper's steps carry the argument:   *)
(* the call that finds _threads empty is the last one, since the Reaper  *)
(* runs one call at a time, and so the only one to send SIGCHLD and to    *)
(* reach the exchange.                                                    *)
LEMMA DestroyStep == StopIInv /\ DestroyInv /\ [Next]_vars => DestroyInv'
  <1> SUFFICES ASSUME StopIInv, DestroyInv, [Next]_vars PROVE DestroyInv'
    OBVIOUS
  <1>0. TypeOK'
    BY StopIInvStep DEF StopIInv
  <1> USE DEF TypeOK, PCs
  <1>1. ASSUME NEW t \in Threads,
               Block(t) \/ Wake(t) \/ ObserveStop(t) \/ StopSelf(t) \/ Die(t)
        PROVE  DestroyInv'
    <2>1. tpc[t] \in {"live", "stopping"}
          => ~AllExited
      BY DEF AllExited
    <2>2. QED
      BY <1>0, <1>1, <2>1, DestroyFrame DEF Block, Wake, ObserveStop, StopSelf, Die
  <1>2. ASSUME NEW s \in Senders,
               StopCas(s) \/ StopInterrupt(s) \/ ContClear(s)
        PROVE  DestroyInv'
    BY <1>0, <1>2, DestroyFrame DEF StopCas, StopInterrupt, ContClear
  <1>3. ASSUME NEW s \in Senders, ContResume(s) PROVE DestroyInv'
    <2>1. pstate = "Stopped"
      BY <1>3 DEF ContResume
    <2>2. AllExited /\ ~reaped => pstate' = pstate
      BY <2>1 DEF DestroyInv
    <2>3. QED
      BY <1>0, <1>3, <2>2, DestroyFrame DEF ContResume
  <1>4. ASSUME NEW t \in Threads, RemoveThread(t) PROVE DestroyInv'
    <2>1. /\ tpc[t] = "dead" /\ ~ReaperBusy
          /\ members' = members \ {t} /\ tpc' = [tpc EXCEPT ![t] = "check"]
          /\ UNCHANGED <<pstate, rtd, reaped, sigchld, deleted>>
      BY <1>4 DEF RemoveThread
    <2>2. ~AllExited /\ ~AllExited'
      BY <2>1 DEF AllExited
    <2>3. ~\E u \in Threads : tpc[u] = "cas" \/ tpc'[u] \in {"notify", "cas"}
      BY <2>1 DEF ReaperBusy
    <2>4. \A u \in Threads : tpc'[u] \in {"check", "notify", "cas"} => u = t
      BY <2>1 DEF ReaperBusy
    <2>5. QED
      BY <1>0, <2>1, <2>2, <2>3, <2>4 DEF DestroyInv
  <1>5. ASSUME NEW t \in Threads, CheckLast(t) PROVE DestroyInv'
    <2>1. /\ tpc[t] = "check"
          /\ tpc' = [tpc EXCEPT ![t] = IF members = {} THEN "notify" ELSE "exited"]
          /\ UNCHANGED <<members, pstate, rtd, reaped, sigchld, deleted>>
      BY <1>5 DEF CheckLast
    <2>2. \A u \in Threads \ {t} : tpc[u] \notin {"check", "notify", "cas"}
      BY <2>1 DEF DestroyInv
    <2>3. ~AllExited /\ ~\E u \in Threads : tpc[u] = "cas"
      BY <2>1, <2>2 DEF AllExited
    <2>4. ~AllExited' /\ ~\E u \in Threads : tpc'[u] = "cas"
      <3>1. CASE members = {}
        BY <2>1, <2>2, <3>1 DEF AllExited
      <3>2. CASE members # {}
        <4>1. PICK u \in members : TRUE
          BY <3>2
        <4>2. u \in Threads /\ tpc[u] \in {"live", "stopping", "dead"}
          BY <4>1 DEF DestroyInv
        <4>3. QED
          BY <2>1, <2>2, <4>2 DEF AllExited
      <3>3. QED
        BY <3>1, <3>2
    <2>5. QED
      BY <1>0, <2>1, <2>2, <2>3, <2>4 DEF DestroyInv
  <1>6. ASSUME NEW t \in Threads, Notify(t) PROVE DestroyInv'
    <2>1. /\ tpc[t] = "notify" /\ sigchld' = sigchld + 1
          /\ tpc' = [tpc EXCEPT ![t] = "cas"]
          /\ UNCHANGED <<members, pstate, rtd, reaped, deleted>>
      BY <1>6 DEF Notify
    <2>2. \A u \in Threads \ {t} : tpc[u] \notin {"check", "notify", "cas"}
      BY <2>1 DEF DestroyInv
    <2>3. ~AllExited /\ ~AllExited' /\ sigchld = 0 /\ members = {}
      BY <2>1, <2>2 DEF AllExited, DestroyInv
    <2>4. QED
      BY <1>0, <2>1, <2>2, <2>3 DEF DestroyInv
  <1>7. ASSUME NEW t \in Threads, DestroyCas(t) PROVE DestroyInv'
    <2>1. /\ tpc[t] = "cas" /\ tpc' = [tpc EXCEPT ![t] = "exited"]
          /\ UNCHANGED <<members, reaped, sigchld>>
      BY <1>7 DEF DestroyCas
    <2>2. \A u \in Threads \ {t} : tpc[u] \notin {"check", "notify", "cas"}
      BY <2>1 DEF DestroyInv
    <2>3. members = {} /\ sigchld = 1
      BY <2>1 DEF DestroyInv
    <2>4. \A u \in Threads \ {t} : tpc[u] = "exited"
      BY <2>2, <2>3 DEF DestroyInv
    <2>5. ~AllExited /\ AllExited' /\ rtd = reaped
      BY <2>1, <2>4 DEF AllExited, DestroyInv
    <2>6. deleted = 0
      BY <2>5 DEF DestroyInv
    <2>7. /\ \A u, v \in Threads : tpc'[u] \in {"check", "notify", "cas"}
                                  /\ tpc'[v] \in {"check", "notify", "cas"} => u = v
          /\ \A u \in Threads : u \in members' <=> tpc'[u] \in {"live", "stopping", "dead"}
          /\ \A u \in Threads : tpc'[u] \in {"notify", "cas"} => members' = {}
          /\ sigchld' = 1
      BY <2>1, <2>2, <2>3, <2>4 DEF DestroyInv
    <2>8. CASE rtd
      <3>1. deleted' = deleted + 1 /\ rtd' = rtd /\ pstate' = pstate
        BY <1>7, <2>8 DEF DestroyCas
      <3>2. reaped' /\ rtd' /\ deleted' = 1
        BY <2>1, <2>5, <2>6, <2>8, <3>1
      <3>3. QED
        BY <1>0, <2>5, <2>7, <3>2 DEF DestroyInv
    <2>9. CASE ~rtd
      <3>1. deleted' = deleted /\ rtd' = TRUE /\ pstate' = "Zombie"
        BY <1>7, <2>9 DEF DestroyCas
      <3>2. ~reaped' /\ rtd' /\ deleted' = 0 /\ pstate' = "Zombie"
        BY <2>1, <2>5, <2>6, <2>9, <3>1
      <3>3. QED
        BY <1>0, <2>5, <2>7, <3>2 DEF DestroyInv
    <2>10. QED
      BY <2>8, <2>9
  <1>8. CASE Reap
    <2>0. /\ ~reaped /\ reaped' = TRUE
          /\ UNCHANGED <<tstate, tpc, members, pstate, sigchld>>
      BY <1>8 DEF Reap
    <2>1. AllExited' = AllExited /\ deleted = 0 /\ rtd = AllExited
      BY <2>0 DEF AllExited, DestroyInv
    <2>2. CASE rtd
      <3>1. deleted' = 1 /\ rtd' = rtd
        BY <1>8, <2>1, <2>2 DEF Reap
      <3>2. QED
        BY <1>0, <2>0, <2>1, <2>2, <3>1 DEF DestroyInv
    <2>3. CASE ~rtd
      <3>1. deleted' = 0 /\ rtd' = TRUE
        BY <1>8, <2>1, <2>3 DEF Reap
      <3>2. QED
        BY <1>0, <2>0, <2>1, <2>3, <3>1 DEF DestroyInv
    <2>4. QED
      BY <2>2, <2>3
  <1>9. CASE UNCHANGED vars
    BY <1>9 DEF vars, DestroyInv, AllExited
  <1>10. QED
    <2>1. ASSUME NEW s \in Senders, NEW sig \in KillSignals, Kill(s, sig)
          PROVE  DestroyInv'
      BY <2>1, <1>2, <1>3 DEF Kill
    <2>2. QED
      BY <2>1, <1>1, <1>2, <1>3, <1>4, <1>5, <1>6, <1>7, <1>8, <1>9
         DEF Next, ReaperStep

(* StopIInv and DestroyInv hold in every reachable state. *)
LEMMA LifeInvHolds == Spec => [](StopIInv /\ DestroyInv)
  <1>1. Init => StopIInv /\ DestroyInv
    BY StopIInvInit, DestroyInit
  <1>2. StopIInv /\ DestroyInv /\ [Next]_vars => StopIInv' /\ DestroyInv'
    BY StopIInvStep, DestroyStep
  <1>3. QED
    BY <1>1, <1>2, PTL DEF Spec

(* For any number of threads, whichever of reap() and the exchange in     *)
(* alert_thread_died comes second runs `delete this`, and nothing runs it  *)
(* twice: the process object is deleted at most once.  It rests on the    *)
(* Reaper running alert_thread_died for one dead thread at a time.        *)
THEOREM DestroyedOnceHolds == Spec => []DestroyedOnce
  <1>1. DestroyInv => DestroyedOnce
    BY DEF DestroyInv, DestroyedOnce
  <1>2. QED
    BY <1>1, LifeInvHolds, PTL

(* For any number of threads, the object is deleted only after the parent *)
(* has reaped it and every thread's alert_thread_died has returned.       *)
THEOREM DeletedAfterBothHolds == Spec => []DeletedAfterBoth
  <1>1. DestroyInv => DeletedAfterBoth
    BY DEF DestroyInv, DeletedAfterBoth, AllExited
  <1>2. QED
    BY <1>1, LifeInvHolds, PTL

(* For any number of threads, once every thread has died and the Reaper   *)
(* has returned from its alert_thread_died, the parent has had exactly    *)
(* one SIGCHLD, and the process is a ZOMBIE awaiting reap or has been     *)
(* reaped and deleted.                                                    *)
THEOREM ExitedIsZombieOrDeletedHolds == Spec => []ExitedIsZombieOrDeleted
  <1>1. DestroyInv => ExitedIsZombieOrDeleted
    BY DEF DestroyInv, ExitedIsZombieOrDeleted, AllExited
  <1>2. QED
    BY <1>1, LifeInvHolds, PTL
=============================================================================
