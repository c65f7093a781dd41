-------------------------------- MODULE Mutex --------------------------------
(***************************************************************************)
(* The duckOS recursive spin-then-yield Mutex (kernel/tasking/Mutex.cpp)   *)
(* on the single CPU of the kernel, together with the global critical-     *)
(* section counter of TaskManager (enter_critical / leave_critical).       *)
(*                                                                         *)
(* Each lock has the atomic holder field m_holding_thread and the atomic   *)
(* recursion counter m_times_locked.  acquire_with_mode takes the holder   *)
(* with one compare-exchange and only afterwards, in a separate step,      *)
(* increments the counter; with AcquireMode::Normal interrupts are enabled *)
(* between the two, so the thread may be preempted in that window.         *)
(* release runs inside a ScopedCritical and is one atomic step.            *)
(*                                                                         *)
(* Threads are clients that nest acquisitions of the locks up to MaxDepth. *)
(* held[t][l] counts the acquisitions of l by t not yet released, and      *)
(* crits[t][l] how many of them were made by acquire_and_enter_critical    *)
(* (ScopedCriticalLocker), whose release also leaves the critical section. *)
(* Tasking is enabled and the kernel is not panicking (the early returns   *)
(* of acquire_with_mode and release for those cases are not modelled).     *)
(***************************************************************************)
EXTENDS Naturals, FiniteSets

CONSTANTS Threads,    \* thread ids
          Locks,      \* Mutex instances
          NoThread,   \* the value -1 of m_holding_thread
          MaxDepth    \* bound on the nesting of acquisitions of one lock

ASSUME MutexAssumption == /\ NoThread \notin Threads
                          /\ MaxDepth \in Nat \ {0}
                          /\ Threads # {}
                          /\ Locks # {}

Modes == {"Normal", "Try", "EnterCritical"}

VARIABLES holder,   \* m_holding_thread of each lock
          times,    \* m_times_locked of each lock
          crit,     \* g_critical_count
          cpu,      \* TaskManager cur_thread: the thread on the CPU
          pc,       \* "run" | "spin" (in the acquire loop) | "add" (before m_times_locked.add)
          want,     \* the lock and mode of the acquire call in progress
          held,     \* held[t][l]: acquisitions of l by t not released yet
          crits     \* crits[t][l]: those of them made with EnterCritical

vars == <<holder, times, crit, cpu, pc, want, held, crits>>

(* A thread owns l once its compare-exchange has succeeded for l.          *)
Owns(t, l) == held[t][l] > 0 \/ (pc[t] = "add" /\ want[t].lock = l)

(* A variant in which leave_critical re-enables interrupts on any          *)
(* decrement, not only the last; CriticalHolderNotPreempted must detect it. *)
InterruptsEnabledAfterFirstLeave == crit <= 1

(* TaskManager::in_critical / leave_critical: interrupts are enabled, and   *)
(* the timer may preempt, exactly when the critical count is zero.         *)
InterruptsEnabled == crit = 0

Init == /\ holder = [l \in Locks |-> NoThread]
        /\ times = [l \in Locks |-> 0]
        /\ crit = 0
        /\ cpu \in Threads
        /\ pc = [t \in Threads |-> "run"]
        /\ want = [t \in Threads |-> [lock |-> CHOOSE l \in Locks : TRUE, mode |-> "Normal"]]
        /\ held = [t \in Threads |-> [l \in Locks |-> 0]]
        /\ crits = [t \in Threads |-> [l \in Locks |-> 0]]

(* A variant of the loop pass whose compare-exchange ignores the current   *)
(* holder; MutualExclusion and IInv must detect it.                        *)
CasStepIgnoringHolder(t, l, m) ==
    /\ holder' = [holder EXCEPT ![l] = t]
    /\ crit' = IF m = "EnterCritical" THEN crit + 1 ELSE crit
    /\ pc' = [pc EXCEPT ![t] = "add"]
    /\ UNCHANGED cpu

(* One pass of the loop of acquire_with_mode for thread t, lock l, mode m: *)
(* enter_critical for EnterCritical, then the compare-exchange of the      *)
(* holder from -1 to t.  On success, or when t already holds l, break to   *)
(* the counter increment.  Otherwise Try returns false; the other modes    *)
(* leave the critical section again and yield, which runs preempt: any     *)
(* thread may be chosen next.  preempt asserts that no critical section is *)
(* active, so a yield with a non-zero count has no successor (a panic).    *)
CasStep(t, l, m) ==
    LET entered == IF m = "EnterCritical" THEN crit + 1 ELSE crit
    IN  \/ /\ holder[l] \in {NoThread, t}
           /\ holder' = [holder EXCEPT ![l] = t]
           /\ crit' = entered
           /\ pc' = [pc EXCEPT ![t] = "add"]
           /\ UNCHANGED cpu
        \/ /\ holder[l] \notin {NoThread, t}
           /\ m = "Try"
           /\ pc' = [pc EXCEPT ![t] = "run"]
           /\ UNCHANGED <<holder, crit, cpu>>
        \/ /\ holder[l] \notin {NoThread, t}
           /\ m # "Try"
           /\ crit = 0
           /\ pc' = [pc EXCEPT ![t] = "spin"]
           /\ cpu' \in Threads
           /\ UNCHANGED <<holder, crit>>

(* Mutex::acquire, try_acquire and acquire_and_enter_critical called by    *)
(* the running thread.  Callers respect the code's assertions: acquire is  *)
(* called only outside a critical section (it asserts !in_critical after   *)
(* the loop), and inside one acquire_and_enter_critical only on a lock the *)
(* caller already holds (a contended one would yield inside it).           *)
Acquire(t, l, m) ==
    /\ cpu = t
    /\ pc[t] = "run"
    /\ held[t][l] < MaxDepth
    /\ \/ crit = 0
       \/ m = "Try"
       \/ m = "EnterCritical" /\ held[t][l] > 0
    /\ want' = [want EXCEPT ![t] = [lock |-> l, mode |-> m]]
    /\ CasStep(t, l, m)
    /\ UNCHANGED <<times, held, crits>>

(* The next iteration of the acquire loop after the yield returned.        *)
Retry(t) ==
    /\ cpu = t
    /\ pc[t] = "spin"
    /\ CasStep(t, want[t].lock, want[t].mode)
    /\ UNCHANGED <<times, want, held, crits>>

(* m_times_locked.add(1) after the loop (and, for Normal mode, the         *)
(* assertion that no critical section is active).                          *)
AddCount(t) ==
    LET l == want[t].lock
        m == want[t].mode
    IN  /\ cpu = t
        /\ pc[t] = "add"
        /\ m = "Normal" => crit = 0
        /\ times' = [times EXCEPT ![l] = @ + 1]
        /\ held' = [held EXCEPT ![t][l] = @ + 1]
        /\ crits' = IF m = "EnterCritical"
                      THEN [crits EXCEPT ![t][l] = @ + 1]
                      ELSE crits
        /\ pc' = [pc EXCEPT ![t] = "run"]
        /\ UNCHANGED <<holder, crit, cpu, want>>

(* Variants of the release of the counter: one tests the value after the   *)
(* decrement instead of the value before it, the other frees the lock on   *)
(* every release.  CounterMatchesOwner and ImplementsRecursiveLock must    *)
(* detect them.                                                            *)
ReleaseCounterNewValue(l) ==
    /\ times' = [times EXCEPT ![l] = @ - 1]
    /\ holder' = IF times[l] = 2 THEN [holder EXCEPT ![l] = NoThread] ELSE holder

ReleaseCounterAlways(l) ==
    /\ times' = [times EXCEPT ![l] = @ - 1]
    /\ holder' = [holder EXCEPT ![l] = NoThread]

(* Mutex::release: decrement the counter and, if it was 1, store -1 into   *)
(* the holder.  The whole body runs in a ScopedCritical.                   *)
ReleaseCounter(l) ==
    /\ times' = [times EXCEPT ![l] = @ - 1]
    /\ holder' = IF times[l] = 1 THEN [holder EXCEPT ![l] = NoThread] ELSE holder

(* A release by a thread that does not hold the lock (release checks no    *)
(* ownership); TypeOK must detect the counter going below zero.            *)
ReleaseUnowned(t, l) ==
    /\ cpu = t
    /\ pc[t] = "run"
    /\ ReleaseCounter(l)
    /\ held' = [held EXCEPT ![t][l] = @ - 1]
    /\ UNCHANGED <<crit, cpu, pc, want, crits>>

(* A plain Mutex::release of an acquisition made with acquire or           *)
(* try_acquire (LOCK scopes and explicit release calls).                   *)
Release(t, l) ==
    /\ cpu = t
    /\ pc[t] = "run"
    /\ held[t][l] > crits[t][l]
    /\ ReleaseCounter(l)
    /\ held' = [held EXCEPT ![t][l] = @ - 1]
    /\ UNCHANGED <<crit, cpu, pc, want, crits>>

(* A variant of ScopedCriticalLocker::release that omits leave_critical;   *)
(* CritInv must detect the critical count no longer matching.              *)
ReleaseCriticalNoLeave(t, l) ==
    /\ cpu = t
    /\ pc[t] = "run"
    /\ crits[t][l] > 0
    /\ crit > 0
    /\ ReleaseCounter(l)
    /\ held' = [held EXCEPT ![t][l] = @ - 1]
    /\ crits' = [crits EXCEPT ![t][l] = @ - 1]
    /\ UNCHANGED <<crit, cpu, pc, want>>

(* ScopedCriticalLocker::release: Mutex::release, then leave_critical,    *)
(* which asserts that the critical count is positive.                      *)
ReleaseCritical(t, l) ==
    /\ cpu = t
    /\ pc[t] = "run"
    /\ crits[t][l] > 0
    /\ crit > 0
    /\ ReleaseCounter(l)
    /\ held' = [held EXCEPT ![t][l] = @ - 1]
    /\ crits' = [crits EXCEPT ![t][l] = @ - 1]
    /\ crit' = crit - 1
    /\ UNCHANGED <<cpu, pc, want>>

(* A timer tick with interrupts enabled: tick sets yield_async and the     *)
(* interrupt exit runs preempt, which switches to another thread.          *)
Preempt ==
    /\ InterruptsEnabled
    /\ cpu' \in Threads \ {cpu}
    /\ UNCHANGED <<holder, times, crit, pc, want, held, crits>>

Next == \/ \E t \in Threads, l \in Locks, m \in Modes : Acquire(t, l, m)
        \/ \E t \in Threads : Retry(t) \/ AddCount(t)
        \/ \E t \in Threads, l \in Locks : Release(t, l) \/ ReleaseCritical(t, l)
        \/ Preempt

Spec == Init /\ [][Next]_vars

-----------------------------------------------------------------------------
(* Every variable has its type; the counters are bounded by MaxDepth.      *)
TypeOK ==
    /\ holder \in [Locks -> Threads \cup {NoThread}]
    /\ times \in [Locks -> 0..MaxDepth]
    /\ crit \in Nat
    /\ cpu \in Threads
    /\ pc \in [Threads -> {"run", "spin", "add"}]
    /\ want \in [Threads -> [lock : Locks, mode : Modes]]
    /\ held \in [Threads -> [Locks -> 0..MaxDepth]]
    /\ crits \in [Threads -> [Locks -> 0..MaxDepth]]

(* Mutual exclusion (spec.md 8): however acquire, try_acquire, the         *)
(* counter window and release interleave, no two threads own one lock.     *)
MutualExclusion ==
    \A l \in Locks, t, u \in Threads : t # u => ~(Owns(t, l) /\ Owns(u, l))

(* The holder field and the recursion counter agree with the threads'      *)
(* history: a free lock has count zero and no owner; a held lock is owned  *)
(* by its holder, whose completed acquisitions the counter equals, so it   *)
(* takes exactly that many releases before another thread can acquire.     *)
CounterMatchesOwner ==
    \A l \in Locks :
        /\ holder[l] = NoThread => times[l] = 0 /\ \A t \in Threads : ~Owns(t, l)
        /\ holder[l] # NoThread => /\ Owns(holder[l], l)
                                   /\ times[l] = held[holder[l]][l]

(* A lock taken with acquire_and_enter_critical keeps interrupts off until *)
(* it is released: its holder is never preempted (spec.md 4.4).            *)
CriticalHolderNotPreempted ==
    \A t \in Threads \ {cpu}, l \in Locks : crits[t][l] = 0

(* Mutex implements the abstract recursive lock: the compare-exchange that *)
(* takes a free or owned lock is the abstract Acquire, the counter         *)
(* increment after it is a stutter, and release is the abstract Release.   *)
PendingAdd(l) == IF holder[l] # NoThread /\ pc[holder[l]] = "add" /\ want[holder[l]].lock = l
                   THEN 1 ELSE 0

Abstract == INSTANCE RecursiveLock
               WITH owner <- holder,
                    count <- [l \in Locks |-> times[l] + PendingAdd(l)]

ImplementsRecursiveLock == Abstract!Spec

-----------------------------------------------------------------------------
(* The inductive strengthening used by the proofs in MutexProofs: every    *)
(* owner is the holder, the counter equals the holder's acquisitions, the  *)
(* critical acquisitions are among the acquisitions, and an acquire in     *)
(* progress stays below the nesting bound.                                 *)
IInv ==
    /\ TypeOK
    /\ \A l \in Locks, t \in Threads : Owns(t, l) => holder[l] = t
    /\ \A l \in Locks : holder[l] = NoThread => times[l] = 0
    /\ \A l \in Locks : holder[l] # NoThread => /\ Owns(holder[l], l)
                                               /\ times[l] = held[holder[l]][l]
    /\ \A t \in Threads, l \in Locks : crits[t][l] <= held[t][l]
    /\ \A t \in Threads : pc[t] \in {"spin", "add"} => held[t][want[t].lock] < MaxDepth

(* g_critical_count counts critical sections: one per acquisition made by  *)
(* acquire_and_enter_critical and not yet released, counting the one whose *)
(* compare-exchange succeeded and whose m_times_locked.add is still to     *)
(* come.  Pend(t, l) is that pending one, and CritTokens names each        *)
(* section <<t, l, i>> by its thread, its lock and its nesting level.      *)
Pend(t, l) == IF pc[t] = "add" /\ want[t] = [lock |-> l, mode |-> "EnterCritical"]
                THEN 1 ELSE 0

Open(t, l) == crits[t][l] + Pend(t, l)

CritTokens == {x \in Threads \X Locks \X (1 .. MaxDepth) : x[3] <= Open(x[1], x[2])}

(* enter_critical and leave_critical stay paired through the Mutex: the    *)
(* critical count g_critical_count equals the number of sections opened by *)
(* acquire_and_enter_critical and not yet closed by ScopedCriticalLocker:: *)
(* release, and every open section is the running thread's.  This is the   *)
(* strengthening behind CriticalHolderNotPreempted.                        *)
CritInv ==
    /\ IsFiniteSet(CritTokens)
    /\ crit = Cardinality(CritTokens)
    /\ \A t \in Threads, l \in Locks : Open(t, l) > 0 => t = cpu
=============================================================================
