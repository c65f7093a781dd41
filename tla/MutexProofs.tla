----------------------------- MODULE MutexProofs -----------------------------
(***************************************************************************)
(* Proofs that the duckOS Mutex model keeps its type, mutual exclusion and *)
(* the agreement of holder and recursion counter, for every set of         *)
(* threads and locks and every nesting bound.  The argument rests on the   *)
(* inductive invariant IInv of Mutex: an owner of a lock is its holder,    *)
(* the counter of a held lock equals its holder's completed acquisitions,  *)
(* and an acquire in progress is below the nesting bound.                  *)
(***************************************************************************)
EXTENDS Mutex, FiniteSetTheorems, TLAPS

USE MutexAssumption

(* IInv holds in every initial state.                                      *)
LEMMA IInvInit == Init => IInv
  BY DEF Init, IInv, TypeOK, Owns, Modes

(* The compare-exchange step of acquire_with_mode keeps IInv when it is    *)
(* taken by a running thread t below the nesting bound, for lock l and     *)
(* mode m, with the holder, the counter and the acquisitions unchanged.    *)
LEMMA CasStepInv ==
  ASSUME IInv, NEW t \in Threads, NEW l \in Locks, NEW m \in Modes,
         held[t][l] < MaxDepth,
         want' = [want EXCEPT ![t] = [lock |-> l, mode |-> m]],
         pc[t] \in {"run", "spin"},
         CasStep(t, l, m),
         UNCHANGED <<times, held, crits>>
  PROVE  IInv'
  <1> USE DEF IInv, TypeOK, Owns
  <1>1. CASE /\ holder[l] \in {NoThread, t}
             /\ holder' = [holder EXCEPT ![l] = t]
             /\ crit' = IF m = "EnterCritical" THEN crit + 1 ELSE crit
             /\ pc' = [pc EXCEPT ![t] = "add"]
             /\ UNCHANGED cpu
    <2>1. TypeOK'
      BY <1>1
    <2>2. (\A k \in Locks, u \in Threads : Owns(u, k) => holder[k] = u)'
      BY <1>1
    <2>3. (\A k \in Locks : holder[k] = NoThread => times[k] = 0)'
      BY <1>1
    <2>4. (\A k \in Locks : holder[k] # NoThread => /\ Owns(holder[k], k)
                                                  /\ times[k] = held[holder[k]][k])'
      BY <1>1
    <2>5. (\A u \in Threads, k \in Locks : crits[u][k] <= held[u][k])'
      BY <1>1
    <2>6. (\A u \in Threads : pc[u] \in {"spin", "add"} => held[u][want[u].lock] < MaxDepth)'
      BY <1>1
    <2>7. QED
      BY <2>1, <2>2, <2>3, <2>4, <2>5, <2>6
  <1>2. CASE /\ holder[l] \notin {NoThread, t}
             /\ pc' = [pc EXCEPT ![t] = IF m = "Try" THEN "run" ELSE "spin"]
             /\ cpu' \in Threads
             /\ UNCHANGED <<holder, crit>>
    <2>1. TypeOK'
      BY <1>2
    <2>2. (\A k \in Locks, u \in Threads : Owns(u, k) => holder[k] = u)'
      BY <1>2
    <2>3. (\A k \in Locks : holder[k] = NoThread => times[k] = 0)'
      BY <1>2
    <2>4. (\A k \in Locks : holder[k] # NoThread => /\ Owns(holder[k], k)
                                                  /\ times[k] = held[holder[k]][k])'
      BY <1>2
    <2>5. (\A u \in Threads, k \in Locks : crits[u][k] <= held[u][k])'
      BY <1>2
    <2>6. (\A u \in Threads : pc[u] \in {"spin", "add"} => held[u][want[u].lock] < MaxDepth)'
      BY <1>2
    <2>7. QED
      BY <2>1, <2>2, <2>3, <2>4, <2>5, <2>6
  <1>3. QED
    BY <1>1, <1>2 DEF CasStep

(* Every step of Next keeps IInv.                                          *)
LEMMA IInvStep == IInv /\ [Next]_vars => IInv'
  <1> SUFFICES ASSUME IInv, [Next]_vars PROVE IInv'
    OBVIOUS
  <1>1. ASSUME NEW t \in Threads, NEW l \in Locks, NEW m \in Modes, Acquire(t, l, m)
        PROVE  IInv'
    <2>1. /\ held[t][l] < MaxDepth
          /\ want' = [want EXCEPT ![t] = [lock |-> l, mode |-> m]]
          /\ pc[t] \in {"run", "spin"}
          /\ CasStep(t, l, m)
          /\ UNCHANGED <<times, held, crits>>
      BY <1>1 DEF Acquire
    <2>2. QED
      BY <2>1, CasStepInv, Zenon
  <1>2. ASSUME NEW t \in Threads, Retry(t)
        PROVE  IInv'
    <2>1. /\ want[t].lock \in Locks
          /\ want[t].mode \in Modes
          /\ held[t][want[t].lock] < MaxDepth
          /\ want = [want EXCEPT ![t] = [lock |-> want[t].lock, mode |-> want[t].mode]]
      BY <1>2 DEF Retry, IInv, TypeOK
    <2>2. QED
      BY <1>2, <2>1, CasStepInv DEF Retry
  <1>3. ASSUME NEW t \in Threads, AddCount(t)
        PROVE  IInv'
    <2> DEFINE l == want[t].lock
    <2>1. /\ l \in Locks
          /\ holder[l] = t
          /\ times[l] = held[t][l]
          /\ held[t][l] < MaxDepth
      BY <1>3 DEF AddCount, IInv, TypeOK, Owns
    <2>2. QED
      BY <1>3, <2>1 DEF AddCount, IInv, TypeOK, Owns
  <1>4. ASSUME NEW t \in Threads, NEW l \in Locks, Release(t, l)
        PROVE  IInv'
    <2>1. /\ holder[l] = t
          /\ times[l] = held[t][l]
          /\ held[t][l] > 0
      BY <1>4 DEF Release, IInv, TypeOK, Owns
    <2>2. QED
      BY <1>4, <2>1 DEF Release, ReleaseCounter, IInv, TypeOK, Owns
  <1>5. ASSUME NEW t \in Threads, NEW l \in Locks, ReleaseCritical(t, l)
        PROVE  IInv'
    <2>1. /\ holder[l] = t
          /\ times[l] = held[t][l]
          /\ held[t][l] > 0
      BY <1>5 DEF ReleaseCritical, IInv, TypeOK, Owns
    <2>2. QED
      BY <1>5, <2>1 DEF ReleaseCritical, ReleaseCounter, IInv, TypeOK, Owns
  <1>6. CASE Preempt
    BY <1>6 DEF Preempt, IInv, TypeOK, Owns
  <1>7. CASE UNCHANGED vars
    BY <1>7 DEF vars, IInv, TypeOK, Owns
  <1>8. QED
    BY <1>1, <1>2, <1>3, <1>4, <1>5, <1>6, <1>7 DEF Next

(* The type invariant holds in every reachable state.                      *)
THEOREM TypeCorrect == Spec => []TypeOK
  <1>1. IInv => TypeOK
    BY DEF IInv
  <1>2. QED
    BY <1>1, IInvInit, IInvStep, PTL DEF Spec

(* Mutual exclusion of every Mutex: no two threads own one lock, whatever  *)
(* the interleaving of acquire, try_acquire, the counter window, release   *)
(* and preemption.                                                         *)
THEOREM MutualExclusionHolds == Spec => []MutualExclusion
  <1>1. IInv => MutualExclusion
    BY DEF IInv, MutualExclusion
  <1>2. QED
    BY <1>1, IInvInit, IInvStep, PTL DEF Spec

(* The holder field and the recursion counter agree: a free lock has       *)
(* count zero and no owner, and a held lock's counter equals its holder's  *)
(* acquisitions, so it takes that many releases to free it.                *)
THEOREM CounterMatchesOwnerHolds == Spec => []CounterMatchesOwner
  <1>1. IInv => CounterMatchesOwner
    BY DEF IInv, CounterMatchesOwner
  <1>2. QED
    BY <1>1, IInvInit, IInvStep, PTL DEF Spec

-----------------------------------------------------------------------------
(* Under IInv every open count lies within the nesting bound.              *)
LEMMA OpenBound ==
  ASSUME IInv, NEW t \in Threads, NEW l \in Locks
  PROVE  Open(t, l) \in 0 .. MaxDepth
  BY DEF IInv, TypeOK, Open, Pend

(* With the critical count at zero no section is open.                     *)
LEMMA NoneOpen ==
  ASSUME IInv, CritInv, crit = 0, NEW t \in Threads, NEW l \in Locks
  PROVE  Open(t, l) = 0
  <1>1. CritTokens = {}
    BY FS_EmptySet DEF CritInv
  <1>2. Open(t, l) \in 0 .. MaxDepth
    BY OpenBound
  <1>3. Open(t, l) > 0 => <<t, l, 1>> \in CritTokens
    BY <1>2 DEF CritTokens
  <1>4. QED
    BY <1>1, <1>2, <1>3

(* A step that changes no open count keeps the set of sections.            *)
LEMMA TokensSame ==
  ASSUME \A u \in Threads, k \in Locks : Open(u, k)' = Open(u, k)
  PROVE  CritTokens' = CritTokens
  BY DEF CritTokens

(* A step that opens one section of t on l adds exactly its token.         *)
LEMMA TokensAdd ==
  ASSUME NEW t \in Threads, NEW l \in Locks,
         \A u \in Threads, k \in Locks : <<u, k>> # <<t, l>> => Open(u, k)' = Open(u, k),
         Open(t, l) \in 0 .. MaxDepth - 1, Open(t, l)' = Open(t, l) + 1
  PROVE  /\ CritTokens' = CritTokens \cup {<<t, l, Open(t, l) + 1>>}
         /\ <<t, l, Open(t, l) + 1>> \notin CritTokens
  BY DEF CritTokens

(* A step that closes one section of t on l removes exactly its token.     *)
LEMMA TokensRemove ==
  ASSUME NEW t \in Threads, NEW l \in Locks,
         \A u \in Threads, k \in Locks : <<u, k>> # <<t, l>> => Open(u, k)' = Open(u, k),
         Open(t, l) \in 1 .. MaxDepth, Open(t, l)' = Open(t, l) - 1
  PROVE  /\ CritTokens' = CritTokens \ {<<t, l, Open(t, l)>>}
         /\ <<t, l, Open(t, l)>> \in CritTokens
  BY DEF CritTokens

(* CritInv holds initially: no section is open and the count is zero.      *)
LEMMA CritInvInit == Init => CritInv
  <1> SUFFICES ASSUME Init PROVE CritInv
    OBVIOUS
  <1>1. CritTokens = {}
    BY DEF Init, CritTokens, Open, Pend
  <1>2. QED
    BY <1>1, FS_EmptySet DEF Init, CritInv, Open, Pend

(* A pass of the acquire loop by the running thread t, whose pc is run or  *)
(* spin, keeps CritInv: a successful compare-exchange in EnterCritical     *)
(* mode opens a section, a yield happens only with none open.              *)
LEMMA CasStepCrit ==
  ASSUME IInv, CritInv, NEW t \in Threads, NEW l \in Locks, NEW m \in Modes,
         cpu = t, pc[t] \in {"run", "spin"}, held[t][l] < MaxDepth,
         want' = [want EXCEPT ![t] = [lock |-> l, mode |-> m]],
         CasStep(t, l, m), UNCHANGED <<times, held, crits>>
  PROVE  CritInv'
  <1>1. \A k \in Locks : Pend(t, k) = 0
    BY DEF Pend
  <1>2. \A u \in Threads \ {t}, k \in Locks : Open(u, k)' = Open(u, k)
    BY DEF CasStep, Open, Pend, IInv, TypeOK
  <1>3. CASE /\ holder[l] \in {NoThread, t}
             /\ holder' = [holder EXCEPT ![l] = t]
             /\ crit' = IF m = "EnterCritical" THEN crit + 1 ELSE crit
             /\ pc' = [pc EXCEPT ![t] = "add"]
             /\ UNCHANGED cpu
    <2>1. CASE m = "EnterCritical"
      <3>1. Open(t, l)' = Open(t, l) + 1
            /\ \A k \in Locks \ {l} : Open(t, k)' = Open(t, k)
        BY <1>1, <1>3, <2>1 DEF Open, Pend, IInv, TypeOK
      <3>2. Open(t, l) \in 0 .. MaxDepth - 1
        BY <1>1 DEF Open, IInv, TypeOK
      <3>3. /\ CritTokens' = CritTokens \cup {<<t, l, Open(t, l) + 1>>}
            /\ <<t, l, Open(t, l) + 1>> \notin CritTokens
        BY <1>2, <3>1, <3>2, TokensAdd
      <3>4. IsFiniteSet(CritTokens') /\ Cardinality(CritTokens') = crit + 1
        BY <3>3, FS_AddElement DEF CritInv
      <3>5. QED
        BY <1>2, <1>3, <2>1, <3>1, <3>4 DEF CritInv, Open, IInv, TypeOK
    <2>2. CASE m # "EnterCritical"
      <3>1. \A k \in Locks : Open(t, k)' = Open(t, k)
        BY <1>1, <1>3, <2>2 DEF Open, Pend, IInv, TypeOK
      <3>2. CritTokens' = CritTokens
        BY <1>2, <3>1, TokensSame
      <3>3. QED
        BY <1>2, <1>3, <2>2, <3>1, <3>2 DEF CritInv
    <2>3. QED
      BY <2>1, <2>2
  <1>4. CASE /\ holder[l] \notin {NoThread, t}
             /\ pc' = [pc EXCEPT ![t] = IF m = "Try" THEN "run" ELSE "spin"]
             /\ UNCHANGED <<holder, crit>>
             /\ (m = "Try" => UNCHANGED cpu)
             /\ (m # "Try" => crit = 0)
    <2>1. \A k \in Locks : Open(t, k)' = Open(t, k)
      BY <1>1, <1>4 DEF Open, Pend, IInv, TypeOK
    <2>2. CritTokens' = CritTokens
      BY <1>2, <2>1, TokensSame
    <2>3. CASE m = "Try"
      BY <1>2, <1>4, <2>1, <2>2, <2>3 DEF CritInv
    <2>4. CASE m # "Try"
      <3>1. \A u \in Threads, k \in Locks : Open(u, k)' = 0
        BY <1>2, <1>4, <2>1, <2>4, NoneOpen
      <3>2. QED
        BY <1>4, <2>2, <3>1 DEF CritInv
    <2>5. QED
      BY <2>3, <2>4
  <1>5. QED
    BY <1>3, <1>4 DEF CasStep

(* Every step keeps CritInv.                                                *)
LEMMA CritInvStep == IInv /\ CritInv /\ [Next]_vars => CritInv'
  <1> SUFFICES ASSUME IInv, CritInv, [Next]_vars PROVE CritInv'
    OBVIOUS
  <1>1. ASSUME NEW t \in Threads, NEW l \in Locks, NEW m \in Modes, Acquire(t, l, m)
        PROVE  CritInv'
    BY <1>1, CasStepCrit DEF Acquire
  <1>2. ASSUME NEW t \in Threads, Retry(t)
        PROVE  CritInv'
    <2>1. /\ want[t].lock \in Locks
          /\ want[t].mode \in Modes
          /\ held[t][want[t].lock] < MaxDepth
          /\ want = [want EXCEPT ![t] = [lock |-> want[t].lock, mode |-> want[t].mode]]
      BY <1>2 DEF Retry, IInv, TypeOK
    <2>2. QED
      BY <1>2, <2>1, CasStepCrit DEF Retry
  <1>3. ASSUME NEW t \in Threads, AddCount(t)
        PROVE  CritInv'
    <2>1. \A u \in Threads, k \in Locks : Open(u, k)' = Open(u, k)
      BY <1>3 DEF AddCount, Open, Pend, IInv, TypeOK
    <2>2. CritTokens' = CritTokens
      BY <2>1, TokensSame
    <2>3. QED
      BY <1>3, <2>1, <2>2 DEF AddCount, CritInv
  <1>4. ASSUME NEW t \in Threads, NEW l \in Locks, Release(t, l)
        PROVE  CritInv'
    <2>1. \A u \in Threads, k \in Locks : Open(u, k)' = Open(u, k)
      BY <1>4 DEF Release, Open, Pend
    <2>2. CritTokens' = CritTokens
      BY <2>1, TokensSame
    <2>3. QED
      BY <1>4, <2>1, <2>2 DEF Release, CritInv
  <1>5. ASSUME NEW t \in Threads, NEW l \in Locks, ReleaseCritical(t, l)
        PROVE  CritInv'
    <2>1. /\ \A u \in Threads, k \in Locks : <<u, k>> # <<t, l>> => Open(u, k)' = Open(u, k)
          /\ Open(t, l)' = Open(t, l) - 1
          /\ Open(t, l) \in 1 .. MaxDepth
      BY <1>5 DEF ReleaseCritical, Open, Pend, IInv, TypeOK
    <2>2. /\ CritTokens' = CritTokens \ {<<t, l, Open(t, l)>>}
          /\ <<t, l, Open(t, l)>> \in CritTokens
      BY <2>1, TokensRemove
    <2>3. IsFiniteSet(CritTokens') /\ Cardinality(CritTokens') = crit - 1
      BY <1>5, <2>2, FS_RemoveElement DEF ReleaseCritical, CritInv
    <2>4. QED
      BY <1>5, <2>1, <2>3 DEF ReleaseCritical, CritInv
  <1>6. CASE Preempt
    <2>1. \A u \in Threads, k \in Locks : Open(u, k) = 0
      BY <1>6, NoneOpen DEF Preempt, InterruptsEnabled
    <2>2. \A u \in Threads, k \in Locks : Open(u, k)' = Open(u, k)
      BY <1>6 DEF Preempt, Open, Pend
    <2>3. CritTokens' = CritTokens
      BY <2>2, TokensSame
    <2>4. QED
      BY <1>6, <2>1, <2>2, <2>3 DEF Preempt, CritInv
  <1>7. CASE UNCHANGED vars
    <2>1. \A u \in Threads, k \in Locks : Open(u, k)' = Open(u, k)
      BY <1>7 DEF vars, Open, Pend
    <2>2. QED
      BY <1>7, <2>1, TokensSame DEF vars, CritInv
  <1>8. QED
    BY <1>1, <1>2, <1>3, <1>4, <1>5, <1>6, <1>7 DEF Next

(* A thread inside a ScopedCriticalLocker is never preempted: whatever the *)
(* interleaving of acquire_and_enter_critical, the counter window, the     *)
(* releases and timer ticks, a thread with an open critical acquisition is *)
(* the one on the CPU.                                                     *)
THEOREM CriticalHolderNotPreemptedHolds == Spec => []CriticalHolderNotPreempted
  <1>1. Init => IInv /\ CritInv
    BY IInvInit, CritInvInit
  <1>2. IInv /\ CritInv /\ [Next]_vars => (IInv /\ CritInv)'
    BY IInvStep, CritInvStep
  <1>3. IInv /\ CritInv => CriticalHolderNotPreempted
    BY DEF IInv, TypeOK, CritInv, Open, Pend, CriticalHolderNotPreempted
  <1>4. QED
    BY <1>1, <1>2, <1>3, PTL DEF Spec

(* g_critical_count is exactly the number of critical sections opened by  *)
(* acquire_and_enter_critical and not yet closed by ScopedCriticalLocker:: *)
(* release, counting one whose m_times_locked.add is still to come, and    *)
(* every open section is the running thread's, in every reachable state.   *)
THEOREM CritInvHolds == Spec => []CritInv
  <1>1. Init => IInv /\ CritInv
    BY IInvInit, CritInvInit
  <1>2. IInv /\ CritInv /\ [Next]_vars => (IInv /\ CritInv)'
    BY IInvStep, CritInvStep
  <1>3. QED
    BY <1>1, <1>2, PTL DEF Spec

(* The inductive invariant of these proofs holds in every reachable       *)
(* state: every owner, counting one in its counter window, is the holder,  *)
(* and a held lock's counter equals its holder's completed acquisitions.  *)
THEOREM IInvHolds == Spec => []IInv
  BY IInvInit, IInvStep, PTL DEF Spec


-----------------------------------------------------------------------------
(* Refinement of RecursiveLock.  AbsCount is the abstract count under the  *)
(* refinement mapping of Mutex: m_times_locked plus the increment that a   *)
(* holder between its compare-exchange and m_times_locked.add still owes.  *)
AbsCount == [l \in Locks |-> times[l] + PendingAdd(l)]

(* The initial Mutex state is an initial state of the abstract lock.       *)
LEMMA RefInit == Init => Abstract!Init
  BY DEF Init, Abstract!Init, PendingAdd

(* A pass of the acquire loop is the abstract Acquire when its compare-    *)
(* exchange succeeds and a stutter otherwise.                              *)
LEMMA CasStepRef ==
  ASSUME IInv, NEW t \in Threads, NEW l \in Locks, NEW m \in Modes,
         pc[t] \in {"run", "spin"},
         want' = [want EXCEPT ![t] = [lock |-> l, mode |-> m]],
         CasStep(t, l, m), UNCHANGED <<times, held, crits>>
  PROVE  [Abstract!Next]_<<holder, AbsCount>>
  <1>1. CASE /\ holder[l] \in {NoThread, t}
             /\ holder' = [holder EXCEPT ![l] = t]
             /\ pc' = [pc EXCEPT ![t] = "add"]
    <2>1. PendingAdd(l) = 0 /\ PendingAdd(l)' = 1
      BY <1>1 DEF PendingAdd, IInv, TypeOK
    <2>2. \A k \in Locks \ {l} : PendingAdd(k)' = PendingAdd(k)
      BY <1>1 DEF PendingAdd, IInv, TypeOK
    <2>3. \A k \in Locks : times'[k] + PendingAdd(k)' =
                             IF k = l THEN times[k] + PendingAdd(k) + 1
                                      ELSE times[k] + PendingAdd(k)
      BY <2>1, <2>2 DEF IInv, TypeOK
    <2>4. Abstract!Acquire(t, l)
      BY <1>1, <2>3 DEF Abstract!Acquire
    <2>5. QED
      BY <2>4 DEF Abstract!Next
  <1>2. CASE /\ UNCHANGED holder
             /\ pc'[t] \in {"run", "spin"}
             /\ \A u \in Threads \ {t} : pc'[u] = pc[u]
    <2>1. \A k \in Locks : PendingAdd(k)' = PendingAdd(k)
      BY <1>2 DEF PendingAdd, IInv, TypeOK
    <2>2. UNCHANGED <<holder, AbsCount>>
      BY <1>2, <2>1 DEF AbsCount
    <2>3. QED
      BY <2>2
  <1>3. QED
    BY <1>1, <1>2 DEF CasStep, IInv, TypeOK

(* The body of Mutex::release, run by a thread t that holds l and is not  *)
(* inside an acquire, is the abstract Release.                            *)
LEMMA ReleaseRef ==
  ASSUME IInv, NEW t \in Threads, NEW l \in Locks,
         pc[t] = "run", held[t][l] > 0,
         times' = [times EXCEPT ![l] = @ - 1],
         holder' = IF times[l] = 1 THEN [holder EXCEPT ![l] = NoThread] ELSE holder,
         UNCHANGED <<pc, want>>
  PROVE  Abstract!Release(t, l)
  <1>1. holder[l] = t /\ times[l] = held[t][l]
    BY DEF IInv, TypeOK, Owns
  <1>2. \A k \in Locks : PendingAdd(k) = PendingAdd(k)'
    BY <1>1 DEF PendingAdd, IInv, TypeOK
  <1>3. PendingAdd(l) = 0
    BY <1>1 DEF PendingAdd
  <1>4. times[l] + PendingAdd(l) = times[l] /\ times[l] \in 1 .. MaxDepth
    BY <1>1, <1>3 DEF IInv, TypeOK
  <1>5. holder' = [holder EXCEPT ![l] = IF times[l] = 1 THEN NoThread ELSE t]
    BY <1>1 DEF IInv, TypeOK
  <1> DEFINE C == [k \in Locks |-> times[k] + PendingAdd(k)]
  <1>6. C' = [C EXCEPT ![l] = @ - 1]
    <2>1. DOMAIN C' = Locks /\ DOMAIN C = Locks
      OBVIOUS
    <2>2. \A k \in Locks : C'[k] = IF k = l THEN C[k] - 1 ELSE C[k]
      BY <1>2, <1>3, <1>4 DEF IInv, TypeOK
    <2>3. QED
      BY <2>1, <2>2
  <1>7. C[l] > 0 /\ (C[l] = 1 <=> times[l] = 1)
    BY <1>4
  <1>8. QED
    BY <1>1, <1>5, <1>6, <1>7 DEF Abstract!Release

(* Every Mutex step, taken from a state where IInv holds, is an abstract   *)
(* Acquire, an abstract Release or a stutter of the abstract lock.         *)
LEMMA RefStep == IInv /\ [Next]_vars => [Abstract!Next]_<<holder, AbsCount>>
  <1> SUFFICES ASSUME IInv, [Next]_vars PROVE [Abstract!Next]_<<holder, AbsCount>>
    OBVIOUS
  <1>1. ASSUME NEW t \in Threads, NEW l \in Locks, NEW m \in Modes, Acquire(t, l, m)
        PROVE  [Abstract!Next]_<<holder, AbsCount>>
    BY <1>1, CasStepRef DEF Acquire
  <1>2. ASSUME NEW t \in Threads, Retry(t)
        PROVE  [Abstract!Next]_<<holder, AbsCount>>
    <2>1. /\ want[t].lock \in Locks
          /\ want[t].mode \in Modes
          /\ want = [want EXCEPT ![t] = [lock |-> want[t].lock, mode |-> want[t].mode]]
      BY <1>2 DEF Retry, IInv, TypeOK
    <2>2. QED
      BY <1>2, <2>1, CasStepRef DEF Retry
  <1>3. ASSUME NEW t \in Threads, AddCount(t)
        PROVE  UNCHANGED <<holder, AbsCount>>
    <2> DEFINE l == want[t].lock
    <2>1. l \in Locks /\ holder[l] = t
      BY <1>3 DEF AddCount, IInv, TypeOK, Owns
    <2>2. PendingAdd(l) = 1 /\ PendingAdd(l)' = 0
      BY <1>3, <2>1 DEF AddCount, PendingAdd, IInv, TypeOK
    <2>3. \A k \in Locks \ {l} : PendingAdd(k)' = PendingAdd(k)
      BY <1>3 DEF AddCount, PendingAdd, IInv, TypeOK
    <2>4. QED
      BY <1>3, <2>1, <2>2, <2>3 DEF AddCount, AbsCount, IInv, TypeOK
  <1>4. ASSUME NEW t \in Threads, NEW l \in Locks, Release(t, l) \/ ReleaseCritical(t, l)
        PROVE  [Abstract!Next]_<<holder, AbsCount>>
    <2>1. /\ pc[t] = "run" /\ held[t][l] > 0
          /\ times' = [times EXCEPT ![l] = @ - 1]
          /\ holder' = IF times[l] = 1 THEN [holder EXCEPT ![l] = NoThread] ELSE holder
          /\ UNCHANGED <<pc, want>>
      BY <1>4 DEF Release, ReleaseCritical, ReleaseCounter, IInv, TypeOK
    <2>2. Abstract!Release(t, l)
      BY <2>1, ReleaseRef
    <2>3. QED
      BY <2>2 DEF Abstract!Next
  <1>5. CASE Preempt \/ UNCHANGED vars
    BY <1>5 DEF Preempt, vars, AbsCount, PendingAdd
  <1>6. QED
    BY <1>1, <1>2, <1>3, <1>4, <1>5 DEF Next

(* The duckOS Mutex implements the abstract recursive lock: under the      *)
(* mapping owner = m_holding_thread and count = m_times_locked plus the    *)
(* owed increment, every behaviour of acquire, try_acquire,                *)
(* acquire_and_enter_critical, release and preemption is a behaviour of    *)
(* RecursiveLock.                                                          *)
THEOREM MutexImplementsRecursiveLock == Spec => ImplementsRecursiveLock
  <1>1. [][Next]_vars /\ []IInv => [][Abstract!Next]_<<holder, AbsCount>>
    BY RefStep, PTL
  <1>2. QED
    BY <1>1, RefInit, IInvHolds, PTL DEF Spec, ImplementsRecursiveLock, Abstract!Spec, Abstract!vars, AbsCount
=============================================================================
