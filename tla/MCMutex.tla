------------------------------- MODULE MCMutex -------------------------------
(* Model-checking instance of Mutex: two threads, two locks, nesting 2.    *)
EXTENDS Mutex

MCThreads == {"t1", "t2"}
MCLocks == {"l1", "l2"}
=============================================================================
