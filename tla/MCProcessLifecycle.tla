------------------------- MODULE MCProcessLifecycle -------------------------
(* Model-checking instances of ProcessLifecycle: a process with one thread *)
(* and two senders of SIGSTOP / SIGCONT (every order of its death, the     *)
(* reap and the signals), and a process with two threads whose deaths and  *)
(* stops interleave.                                                       *)
EXTENDS ProcessLifecycle

OneThread == {"t1"}
TwoThreads == {"t1", "t2"}
OneSender == {"s1"}
TwoSenders == {"s1", "s2"}
=============================================================================
