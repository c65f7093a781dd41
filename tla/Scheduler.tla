------------------------------ MODULE Scheduler ------------------------------
(***************************************************************************)
(* The duckOS TaskManager (kernel/tasking/TaskManager.cpp): the run queue  *)
(* that g_next_thread walks, cur_thread, the preemption algorithm with its *)
(* opportunistic unblock pass, lazy eviction in pick_next_thread, the      *)
(* signal-handler context switch, and add_process under g_process_lock.    *)
(*                                                                         *)
(* One CPU.  preempt runs inside the tasking lock with interrupts off, so  *)
(* it is one atomic step; it is entered by the timer tick (tick -> yield,  *)
(* deferred through yield_async to the interrupt exit) or by a voluntary   *)
(* yield of the running thread, which have the same effect.                *)
(*                                                                         *)
(* The Thread class is not part of the sources; its operations that the    *)
(* scheduler depends on (block, unblock, die, stop, handle_signal, return  *)
(* from a handler, can_be_run = state ALIVE) are modelled from spec.md     *)
(* 4.1 and 4.3.  Register contexts are abstracted to what each one holds:  *)
(* "normal" code, a "handler" that is prepared or running, or a handler    *)
(* that has "finished" and must never be resumed.                          *)
(***************************************************************************)
EXTENDS Naturals, Sequences

CONSTANTS Threads,    \* thread ids (tids)
          Idle,       \* the kidle thread, tid = kernel_process->pid()
          Procs,      \* processes
          ProcOf,     \* the process of each thread
          ScanOrder,  \* order of the unblock scan: process table, then _tids
          NoThread    \* no thread

ASSUME SchedulerAssumption ==
    /\ Idle \in Threads
    /\ NoThread \notin Threads
    /\ ProcOf \in [Threads -> Procs]
    /\ \A p \in Procs : \E t \in Threads : ProcOf[t] = p   \* a process has its main thread
    /\ ScanOrder \in Seq(Threads)
    /\ \A t \in Threads : \E i \in 1..Len(ScanOrder) : ScanOrder[i] = t
    /\ \A i, j \in 1..Len(ScanOrder) : ScanOrder[i] = ScanOrder[j] => i = j

ThreadStates == {"New", "Alive", "Blocked", "Stopped", "Dead"}
Contexts == {"normal", "handler", "finished"}

VARIABLES tstate,       \* Thread::state, "New" before add_process
          ready,        \* the thread's blocker reports should_unblock
          queue,        \* the chain from g_next_thread
          cur,          \* cur_thread
          plock,        \* holder of g_process_lock
          adding,       \* adding[u]: thread u is inside add_process for that thread
          sigPending,   \* Thread::ready_to_handle_signal
          inHandler,    \* Thread::in_signal_handler
          justFinished, \* Thread::just_finished_signal
          cpuCtx,       \* the context the CPU executes for cur
          normCtx,      \* the context saved in Thread::registers
          sigCtx,       \* the context saved in Thread::signal_registers
          lastActive    \* Process::_last_active_thread

vars == <<tstate, ready, queue, cur, plock, adding, sigPending, inHandler,
          justFinished, cpuCtx, normCtx, sigCtx, lastActive>>
sigVars == <<sigPending, inHandler, justFinished, cpuCtx, normCtx, sigCtx>>

(* Thread::can_be_run.                                                     *)
CanRun(t) == tstate[t] = "Alive"

(* The threads in the chain.                                               *)
Queued == {queue[i] : i \in 1..Len(queue)}

(* TaskManager::queue_thread: append a thread to the tail of the chain,    *)
(* unless it is the idle thread or is not ALIVE (warned and ignored).      *)
QueueThread(q, t, st) == IF t = Idle \/ st[t] # "Alive" THEN q ELSE Append(q, t)

(* queue_thread applied to the threads of a sequence, in order.            *)
QueueAll(q, ts, st) ==
    LET F[i \in 0..Len(ts)] == IF i = 0 THEN q ELSE QueueThread(F[i - 1], ts[i], st)
    IN  F[Len(ts)]

(* The threads of ts that are in W, in the order of ts: the scan of the   *)
(* process table and of each process's threads.  This is SelectSeq(ts,     *)
(* LAMBDA t : t \in W), written out with the standard module's definition. *)
ThreadsIn(ts, W) ==
    LET F[i \in 0..Len(ts)] == IF i = 0 THEN << >>
                               ELSE IF ts[i] \in W THEN Append(F[i - 1], ts[i])
                               ELSE F[i - 1]
    IN  F[Len(ts)]

(* The index of the first runnable entry of the chain, 0 if none.          *)
FirstRunnable(q, st) ==
    IF \E i \in 1..Len(q) : st[q[i]] = "Alive"
      THEN CHOOSE i \in 1..Len(q) : st[q[i]] = "Alive" /\ \A j \in 1..i - 1 : st[q[j]] # "Alive"
      ELSE 0

Init == /\ tstate = [t \in Threads |-> IF t = Idle THEN "Alive" ELSE "New"]
        /\ ready = [t \in Threads |-> FALSE]
        /\ queue = <<>>
        /\ cur = Idle
        /\ plock = NoThread
        /\ adding = [t \in Threads |-> NoThread]
        /\ sigPending = [t \in Threads |-> FALSE]
        /\ inHandler = [t \in Threads |-> FALSE]
        /\ justFinished = [t \in Threads |-> FALSE]
        /\ cpuCtx = "normal"
        /\ normCtx = [t \in Threads |-> "normal"]
        /\ sigCtx = [t \in Threads |-> "normal"]
        /\ lastActive = [p \in Procs |-> CHOOSE t \in Threads : ProcOf[t] = p]

(***************************************************************************)
(* TaskManager::preempt, run by the timer tick or a yield of cur_thread.   *)
(*  1. If g_process_lock.try_acquire succeeds (it is free, or the old      *)
(*     thread itself holds it), every BLOCKED thread whose blocker is      *)
(*     ready is unblocked: made ALIVE and queued (Thread::unblock).        *)
(*  2. pick_next_thread drops non-runnable entries from the head; with an  *)
(*     empty chain it keeps a runnable cur_thread or else runs kidle       *)
(*     (the idle thread is never blocked, so KTHREAD_DEADLOCK is not hit). *)
(*  3. The context to save into is chosen from the old thread's            *)
(*     in_signal_handler before the flags change.  A finished handler      *)
(*     forces a switch and clears the flags; a pending signal of the next  *)
(*     thread forces a switch and enters its handler.                      *)
(*  4. On a switch: record the last active thread, re-queue the old thread *)
(*     if it is runnable and not kidle, save the CPU context into the slot *)
(*     chosen in 3 and resume the next thread from the slot its            *)
(*     in_signal_handler now selects.                                      *)
(* The result of the unblock pass and of the pick is each bound once, with *)
(* \E over a one-element set, so that the later conjuncts share it.        *)
(***************************************************************************)
(* A variant of the unblock pass that makes the threads ALIVE without      *)
(* queueing them; NoLostThread and WokenThreadRuns must detect it.         *)
UnblockPassNoQueue(st) ==
    LET woken == {t \in Threads : st[t] = "Blocked" /\ ready[t]}
    IN  [st |-> [t \in Threads |-> IF t \in woken THEN "Alive" ELSE st[t]], q |-> queue]

UnblockPass(st) ==
    LET woken == {t \in Threads : st[t] = "Blocked" /\ ready[t]}
        st1 == [t \in Threads |-> IF t \in woken THEN "Alive" ELSE st[t]]
    IN  [st |-> st1,
         q |-> QueueAll(queue, ThreadsIn(ScanOrder, woken), st1)]

(* A variant of pick_next_thread that keeps a runnable current thread      *)
(* before consulting the queue; QueuedThreadRuns must detect the           *)
(* starvation it causes.                                                   *)
PickNextCurFirst(q, st) ==
    LET i == FirstRunnable(q, st)
    IN  IF st[cur] = "Alive" THEN [next |-> cur, q |-> q]
        ELSE IF i = 0 THEN [next |-> Idle, q |-> <<>>]
        ELSE [next |-> q[i], q |-> SubSeq(q, i + 1, Len(q))]

PickNext(q, st) ==
    LET i == FirstRunnable(q, st)
    IN  IF i = 0
          THEN [next |-> IF st[cur] = "Alive" THEN cur ELSE Idle, q |-> <<>>]
          ELSE [next |-> q[i], q |-> SubSeq(q, i + 1, Len(q))]

(* A variant that reads in_signal_handler after the just-finished flag     *)
(* has cleared it; ContextValid must detect the context it corrupts.       *)
SaveToSignalSlotLate(old) == inHandler[old] /\ ~justFinished[old]

(* old_esp: the outgoing context is saved into signal_registers when the   *)
(* old thread is in its signal handler, else into registers.               *)
SaveToSignalSlot(old) == inHandler[old]

Preempt ==
    LET old == cur
    IN  \E pass \in {IF plock \in {NoThread, old} THEN UnblockPass(tstate)
                                                 ELSE [st |-> tstate, q |-> queue]} :
        \E pick \in {PickNext(pass.q, pass.st)} :
        LET st == pass.st
            next == pick.next
            saveSig == SaveToSignalSlot(old)
            inH1 == IF justFinished[old] THEN [inHandler EXCEPT ![old] = FALSE] ELSE inHandler
            inH2 == IF sigPending[next] THEN [inH1 EXCEPT ![next] = TRUE] ELSE inH1
            switch == next # old \/ justFinished[old] \/ sigPending[next]
            normSaved == IF switch /\ ~saveSig THEN [normCtx EXCEPT ![old] = cpuCtx] ELSE normCtx
            sigSaved == IF switch /\ saveSig THEN [sigCtx EXCEPT ![old] = cpuCtx] ELSE sigCtx
        IN  /\ st[next] = "Alive"
            /\ tstate' = st
            /\ queue' = IF switch /\ old # Idle /\ st[old] = "Alive"
                          THEN QueueThread(pick.q, old, st)
                          ELSE pick.q
            /\ cur' = next
            /\ justFinished' = [justFinished EXCEPT ![old] = FALSE]
            /\ sigPending' = [sigPending EXCEPT ![next] = FALSE]
            /\ inHandler' = inH2
            /\ normCtx' = normSaved
            /\ sigCtx' = sigSaved
            /\ cpuCtx' = IF ~switch THEN cpuCtx
                         ELSE IF inH2[next] THEN sigSaved[next] ELSE normSaved[next]
            /\ lastActive' = IF switch THEN [lastActive EXCEPT ![ProcOf[next]] = next]
                                       ELSE lastActive
            /\ UNCHANGED <<ready, plock, adding>>

(* TaskManager::add_process, first half: take g_process_lock (a contended  *)
(* acquire only yields, which is Preempt) and insert the new process,      *)
(* whose main thread t is constructed ALIVE.                               *)
AddProcessLocked(t) ==
    /\ tstate[cur] = "Alive"
    /\ adding[cur] = NoThread
    /\ tstate[t] = "New"
    /\ plock = NoThread
    /\ plock' = cur
    /\ tstate' = [tstate EXCEPT ![t] = "Alive"]
    /\ adding' = [adding EXCEPT ![cur] = t]
    /\ UNCHANGED <<ready, queue, cur, sigVars, lastActive>>

(* add_process, second half: release g_process_lock, queue the thread.     *)
AddProcessQueue ==
    /\ adding[cur] # NoThread
    /\ plock' = NoThread
    /\ queue' = QueueThread(queue, adding[cur], tstate)
    /\ adding' = [adding EXCEPT ![cur] = NoThread]
    /\ UNCHANGED <<tstate, ready, cur, sigVars, lastActive>>

(* Thread::block: the running thread records a blocker that is not ready  *)
(* and becomes BLOCKED; it then yields (Preempt).                          *)
Block ==
    /\ cur # Idle
    /\ tstate[cur] = "Alive"
    /\ adding[cur] = NoThread
    /\ tstate' = [tstate EXCEPT ![cur] = "Blocked"]
    /\ ready' = [ready EXCEPT ![cur] = FALSE]
    /\ UNCHANGED <<queue, cur, plock, adding, sigVars, lastActive>>

(* The condition of a blocked thread's blocker becomes true (an event, an  *)
(* exiting child, or Thread::interrupt waking it early).                   *)
Satisfy(t) ==
    /\ tstate[t] = "Blocked"
    /\ ~ready[t]
    /\ ready' = [ready EXCEPT ![t] = TRUE]
    /\ UNCHANGED <<tstate, queue, cur, plock, adding, sigVars, lastActive>>

(* The running thread dies (Thread::die) or stops on a stop request.       *)
Exit(s) ==
    /\ cur # Idle
    /\ tstate[cur] = "Alive"
    /\ adding[cur] = NoThread
    /\ tstate' = [tstate EXCEPT ![cur] = s]
    /\ UNCHANGED <<ready, queue, cur, plock, adding, sigVars, lastActive>>

(* Process::cont on a STOPPED process (all its live threads stopped): set  *)
(* every thread ALIVE and queue it, in _tids order.                        *)
Cont(p) ==
    LET mine == {t \in Threads : ProcOf[t] = p /\ tstate[t] \notin {"New", "Dead"}}
        st == [t \in Threads |-> IF t \in mine THEN "Alive" ELSE tstate[t]]
    IN  /\ tstate[cur] = "Alive"
        /\ mine # {}
        /\ \A t \in mine : tstate[t] = "Stopped"
        /\ tstate' = st
        /\ queue' = QueueAll(queue, ThreadsIn(ScanOrder, mine), st)
        /\ UNCHANGED <<ready, cur, plock, adding, sigVars, lastActive>>

(* Thread::handle_signal accepting a signal for a live thread that is not  *)
(* in a handler and has none pending: the handler context is prepared in  *)
(* signal_registers and ready_to_handle_signal is set.                     *)
RaiseSignal(t) ==
    /\ t # Idle
    /\ tstate[t] \in {"Alive", "Blocked"}
    /\ ~inHandler[t]
    /\ ~sigPending[t]
    /\ sigPending' = [sigPending EXCEPT ![t] = TRUE]
    /\ sigCtx' = [sigCtx EXCEPT ![t] = "handler"]
    /\ UNCHANGED <<tstate, ready, queue, cur, plock, adding, inHandler,
                   justFinished, cpuCtx, normCtx, lastActive>>

(* The running thread returns from its signal handler (sigreturn): it      *)
(* sets just_finished_signal and yields (Preempt).                         *)
FinishSignal ==
    /\ tstate[cur] = "Alive"
    /\ inHandler[cur]
    /\ ~justFinished[cur]
    /\ justFinished' = [justFinished EXCEPT ![cur] = TRUE]
    /\ cpuCtx' = "finished"
    /\ UNCHANGED <<tstate, ready, queue, cur, plock, adding, sigPending,
                   inHandler, normCtx, sigCtx, lastActive>>

Next == \/ Preempt
        \/ \E t \in Threads : AddProcessLocked(t) \/ Satisfy(t) \/ RaiseSignal(t)
        \/ AddProcessQueue
        \/ Block
        \/ Exit("Dead") \/ Exit("Stopped")
        \/ \E p \in Procs : Cont(p)
        \/ FinishSignal

(* The timer interrupt fires whenever interrupts are enabled, so preempt   *)
(* keeps being taken; a thread inside add_process keeps executing it when  *)
(* it is on the CPU.                                                       *)
Fairness == /\ WF_vars(Preempt)
            /\ SF_vars(AddProcessQueue)

Spec == Init /\ [][Next]_vars
FairSpec == Spec /\ Fairness

-----------------------------------------------------------------------------
(* Every variable has its type.                                            *)
TypeOK ==
    /\ tstate \in [Threads -> ThreadStates]
    /\ ready \in [Threads -> BOOLEAN]
    /\ queue \in Seq(Threads \ {Idle})
    /\ cur \in Threads
    /\ plock \in Threads \cup {NoThread}
    /\ adding \in [Threads -> Threads \cup {NoThread}]
    /\ sigPending \in [Threads -> BOOLEAN]
    /\ inHandler \in [Threads -> BOOLEAN]
    /\ justFinished \in [Threads -> BOOLEAN]
    /\ cpuCtx \in Contexts
    /\ normCtx \in [Threads -> Contexts]
    /\ sigCtx \in [Threads -> Contexts]
    /\ lastActive \in [Procs -> Threads]

(* No runnable thread is lost: every ALIVE thread other than kidle is      *)
(* running, in the run queue, or inside the add_process that will queue   *)
(* it.  A thread that is not reachable this way would never run again.     *)
NoLostThread ==
    \A t \in Threads \ {Idle} :
        tstate[t] = "Alive" => t = cur \/ t \in Queued \/ \E u \in Threads : adding[u] = t

(* The signal contexts stay consistent through every switch: the normal   *)
(* register slot always holds normal code, the CPU runs a handler exactly  *)
(* when cur is in_signal_handler, a finished handler is executed only      *)
(* until the yield that ends it, and a thread switched out inside its      *)
(* handler is resumed from a live handler context.                        *)
ContextValid ==
    /\ \A t \in Threads : normCtx[t] = "normal"
    /\ inHandler[cur] <=> cpuCtx \in {"handler", "finished"}
    /\ cpuCtx = "finished" => justFinished[cur]
    /\ \A t \in Threads \ {cur} : inHandler[t] => sigCtx[t] = "handler"

(* spec.md 8: a thread appears in the run queue at most once.             *)
NoDuplicateInQueue ==
    \A i, j \in 1..Len(queue) : queue[i] = queue[j] => i = j

(* A thread whose blocker has become ready eventually runs.                *)
WokenThreadRuns ==
    \A t \in Threads : (tstate[t] = "Blocked" /\ ready[t]) ~> cur = t

(* Round robin: a runnable thread in the queue eventually runs, or stops   *)
(* being runnable.                                                         *)
QueuedThreadRuns ==
    \A t \in Threads : (t \in Queued /\ CanRun(t)) ~> (cur = t \/ ~CanRun(t))
=============================================================================
