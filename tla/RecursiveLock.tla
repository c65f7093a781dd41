---------------------------- MODULE RecursiveLock ----------------------------
(***************************************************************************)
(* What a duckOS Mutex promises (spec.md 4.4): a recursive lock with an    *)
(* owner and a recursion count.  A thread may take a lock that is free or  *)
(* that it already owns; each release undoes one acquisition, and the lock *)
(* becomes free when the count drops back to zero.  Every step is atomic.  *)
(***************************************************************************)
EXTENDS Naturals

CONSTANTS Threads, Locks, NoThread

VARIABLES owner, count

vars == <<owner, count>>

Init == /\ owner = [l \in Locks |-> NoThread]
        /\ count = [l \in Locks |-> 0]

Acquire(t, l) == /\ owner[l] \in {NoThread, t}
                 /\ owner' = [owner EXCEPT ![l] = t]
                 /\ count' = [count EXCEPT ![l] = @ + 1]

Release(t, l) == /\ owner[l] = t
                 /\ count[l] > 0
                 /\ count' = [count EXCEPT ![l] = @ - 1]
                 /\ owner' = [owner EXCEPT ![l] = IF count[l] = 1 THEN NoThread ELSE t]

Next == \E t \in Threads, l \in Locks : Acquire(t, l) \/ Release(t, l)

Spec == Init /\ [][Next]_vars
=============================================================================
