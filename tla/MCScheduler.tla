----------------------------- MODULE MCScheduler -----------------------------
(* Model-checking instance of Scheduler: kidle in the kernel process and   *)
(* two threads of one user process, so that blocking, waking, signals,     *)
(* stop/cont and add_process all interleave.  MaxQueue bounds the length   *)
(* of the run queue (it only matters if entries are duplicated).           *)
EXTENDS Scheduler

MCThreads == {"idle", "a", "b"}
MCProcs == {"kernel", "p1"}
MCProcOf == [t \in MCThreads |-> IF t = "idle" THEN "kernel" ELSE "p1"]
MCScanOrder == <<"idle", "a", "b">>
MaxQueue == 3

QueueBound == Len(queue) <= MaxQueue
=============================================================================
