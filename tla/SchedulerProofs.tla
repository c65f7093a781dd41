--------------------------- MODULE SchedulerProofs ---------------------------
(***************************************************************************)
(* Proofs about the TaskManager model: the signal contexts stay           *)
(* consistent through every preempt (ContextValid) and no runnable thread  *)
(* is lost (NoLostThread), for every set of threads, processes and scan   *)
(* order.  QueueAll and ThreadsIn are recursive functions; the lemmas of   *)
(* the first part show that they exist and what they return, by induction *)
(* over the well-founded order < on Nat.                                   *)
(***************************************************************************)
EXTENDS Scheduler, WellFoundedInduction, TLAPS

-----------------------------------------------------------------------------
(* The inductive invariant.  Beyond the type and the two properties, it    *)
(* says that only cur_thread can have just_finished_signal set (preempt    *)
(* clears the old thread's flag on every pass) and that it is then still   *)
(* in its handler, and that a pending signal belongs to a thread outside   *)
(* a handler whose signal_registers hold the prepared handler.  Without    *)
(* these, a preempt could resume a finished handler or a stale context.    *)
SigFlags ==
    \A t \in Threads :
        /\ justFinished[t] => t = cur /\ inHandler[t]
        /\ sigPending[t] => ~inHandler[t] /\ sigCtx[t] = "handler"

IInv == TypeOK /\ ContextValid /\ SigFlags /\ NoLostThread

-----------------------------------------------------------------------------
(* kidle is a thread and NoThread is not.                                  *)
LEMMA IdleNoThread ==
    Idle \in Threads /\ NoThread \notin Threads
  BY SchedulerAssumption

-----------------------------------------------------------------------------
(* ThreadsIn and QueueAll both fold a sequence s onto a base sequence b,   *)
(* appending the elements of s that are in a set W.  FiltBody is the step *)
(* of that fold, Filt its result.                                          *)
FiltBody(F, b, s, W, i) ==
    IF i = 0 THEN b ELSE IF s[i] \in W THEN Append(F[i - 1], s[i]) ELSE F[i - 1]

FiltF(b, s, W) == CHOOSE F : F = [i \in 0..Len(s) |-> FiltBody(F, b, s, W, i)]
Filt(b, s, W) == FiltF(b, s, W)[Len(s)]

(* The elements of a sequence, and the elements of s in W up to index i.   *)
SeqSet(q) == {q[i] : i \in 1..Len(q)}
Hits(s, W, i) == {s[j] : j \in {k \in 1..i : s[k] \in W}}

(* The threads that queue_thread accepts.                                  *)
Runnable(st) == {t \in Threads \ {Idle} : st[t] = "Alive"}

(* The fold exists on 0..n for every n: extend a solution on 0..m-1 by     *)
(* one step.                                                               *)
LEMMA FiltFEq ==
    ASSUME NEW b, NEW S, NEW s \in Seq(S), NEW W
    PROVE  \A i \in 0..Len(s) : FiltF(b, s, W)[i] = FiltBody(FiltF(b, s, W), b, s, W, i)
  <1> DEFINE Ok(m) == \E f : f = [i \in 0..m |-> FiltBody(f, b, s, W, i)]
  <1>1. Ok(0)
    <2> DEFINE f0 == [i \in 0..0 |-> b]
    <2>1. f0 = [i \in 0..0 |-> FiltBody(f0, b, s, W, i)]
      BY DEF FiltBody
    <2>2. QED
      BY <2>1
  <1>2. ASSUME NEW m \in Nat \ {0}, Ok(m - 1) PROVE Ok(m)
    <2>1. PICK f : f = [i \in 0..m - 1 |-> FiltBody(f, b, s, W, i)]
      BY <1>2
    <2> DEFINE g == [i \in 0..m |-> IF i < m THEN f[i] ELSE FiltBody(f, b, s, W, m)]
    <2>2. \A i \in 0..m : g[i] = FiltBody(g, b, s, W, i)
      <3> SUFFICES ASSUME NEW i \in 0..m PROVE g[i] = FiltBody(g, b, s, W, i)
        OBVIOUS
      <3>1. CASE i = 0
        BY <2>1, <3>1 DEF FiltBody
      <3>2. CASE i # 0 /\ i < m
        <4>1. g[i] = f[i] /\ g[i - 1] = f[i - 1]
          BY <3>2
        <4>2. f[i] = FiltBody(f, b, s, W, i)
          BY <2>1, <3>2
        <4>3. FiltBody(f, b, s, W, i) = FiltBody(g, b, s, W, i)
          BY <3>2, <4>1 DEF FiltBody
        <4>4. QED
          BY <4>1, <4>2, <4>3
      <3>3. CASE i = m
        BY <3>3 DEF FiltBody
      <3>4. QED
        BY <3>1, <3>2, <3>3
    <2>3. g = [i \in 0..m |-> FiltBody(g, b, s, W, i)]
      BY <2>2
    <2>4. QED
      BY <2>3
  <1>3. \A m \in Nat : Ok(m)
    <2> SUFFICES ASSUME \E m \in Nat : ~Ok(m) PROVE FALSE
      OBVIOUS
    <2> DEFINE Bad == {m \in Nat : ~Ok(m)}
    <2>1. Bad \subseteq Nat /\ Bad # {}
      OBVIOUS
    <2>2. PICK m \in Bad : \A k \in Bad : ~(<<k, m>> \in OpToRel(<, Nat))
      BY <2>1, NatLessThanWellFounded, WFMin
    <2>3. m # 0
      BY <1>1, <2>2
    <2>4. Ok(m - 1)
      <3>1. m - 1 \in Nat /\ m - 1 < m
        BY <2>3
      <3>2. <<m - 1, m>> \in OpToRel(<, Nat)
        BY <3>1 DEF OpToRel
      <3>3. m - 1 \notin Bad
        BY <2>2, <3>2
      <3>4. QED
        BY <3>1, <3>3
    <2>5. QED
      BY <1>2, <2>2, <2>3, <2>4
  <1> DEFINE F == FiltF(b, s, W)
  <1>4. \E f : f = [i \in 0..Len(s) |-> FiltBody(f, b, s, W, i)]
    BY <1>3, Len(s) \in Nat
  <1>5. F = [i \in 0..Len(s) |-> FiltBody(F, b, s, W, i)]
    BY <1>4 DEF FiltF
  <1>6. QED
    BY <1>5, Zenon

(* The two equations of the fold, one lemma each so that they can be cited *)
(* at any b, s and W.                                                      *)
LEMMA FiltFZero ==
    ASSUME NEW b, NEW S, NEW s \in Seq(S), NEW W
    PROVE  FiltF(b, s, W)[0] = b
  <1>1. 0 \in 0..Len(s)
    OBVIOUS
  <1>2. FiltF(b, s, W)[0] = FiltBody(FiltF(b, s, W), b, s, W, 0)
    BY <1>1, FiltFEq
  <1>3. QED
    BY <1>2 DEF FiltBody

LEMMA FiltFSucc ==
    ASSUME NEW b, NEW S, NEW s \in Seq(S), NEW W, NEW i \in 1..Len(s)
    PROVE  FiltF(b, s, W)[i] = IF s[i] \in W THEN Append(FiltF(b, s, W)[i - 1], s[i])
                                             ELSE FiltF(b, s, W)[i - 1]
  <1>1. i \in 0..Len(s) /\ i # 0
    OBVIOUS
  <1>2. FiltF(b, s, W)[i] = FiltBody(FiltF(b, s, W), b, s, W, i)
    BY <1>1, FiltFEq
  <1>3. QED
    BY <1>1, <1>2 DEF FiltBody

(* The elements of Append(q, e).                                           *)
LEMMA SeqSetAppend ==
    ASSUME NEW S, NEW q \in Seq(S), NEW e
    PROVE  SeqSet(Append(q, e)) = SeqSet(q) \cup {e}
  BY DEF SeqSet

(* What step i of the fold holds: a sequence over T and the elements of s *)
(* in W, with the base and the elements of s in W up to i.                 *)
FiltOK(b, s, W, T, S, i) ==
    /\ FiltF(b, s, W)[i] \in Seq(T \cup (S \cap W))
    /\ SeqSet(FiltF(b, s, W)[i]) = SeqSet(b) \cup Hits(s, W, i)

(* Every step of the fold keeps a sequence over T and the elements of s    *)
(* in W, and holds exactly the base and the elements of s in W so far.     *)
LEMMA FiltSteps ==
    ASSUME NEW T, NEW S, NEW b \in Seq(T), NEW s \in Seq(S), NEW W
    PROVE  \A i \in 0..Len(s) : FiltOK(b, s, W, T, S, i)
  <1> USE DEF FiltOK
  <1> DEFINE F == FiltF(b, s, W)
  <1> DEFINE U == T \cup (S \cap W)
             Good(i) == F[i] \in Seq(U) /\ SeqSet(F[i]) = SeqSet(b) \cup Hits(s, W, i)
  <1>1. Good(0)
    <2>1. F[0] = b
      BY FiltFZero
    <2>2. Hits(s, W, 0) = {}
      BY DEF Hits
    <2>3. QED
      BY <2>1, <2>2
  <1>2. ASSUME NEW i \in 1..Len(s), Good(i - 1) PROVE Good(i)
    <2>2. s[i] \in S
      OBVIOUS
    <2>3. CASE s[i] \in W
      <3>1. F[i] = Append(F[i - 1], s[i])
        BY <2>3, FiltFSucc
      <3>2. F[i] \in Seq(U)
        BY <1>2, <2>2, <2>3, <3>1
      <3>3. SeqSet(F[i]) = SeqSet(F[i - 1]) \cup {s[i]}
        BY <1>2, <3>1, SeqSetAppend
      <3>4. Hits(s, W, i) = Hits(s, W, i - 1) \cup {s[i]}
        BY <2>3 DEF Hits
      <3>5. QED
        BY <1>2, <3>2, <3>3, <3>4
    <2>4. CASE s[i] \notin W
      <3>1. F[i] = F[i - 1]
        BY <2>4, FiltFSucc
      <3>2. Hits(s, W, i) = Hits(s, W, i - 1)
        BY <2>4 DEF Hits
      <3>3. QED
        BY <1>2, <3>1, <3>2
    <2>5. QED
      BY <2>3, <2>4
  <1>3. \A i \in 0..Len(s) : Good(i)
    <2> SUFFICES ASSUME \E i \in 0..Len(s) : ~Good(i) PROVE FALSE
      OBVIOUS
    <2> DEFINE Bad == {i \in 0..Len(s) : ~Good(i)}
    <2>1. Bad \subseteq Nat /\ Bad # {}
      OBVIOUS
    <2>2. PICK i \in Bad : \A k \in Bad : ~(<<k, i>> \in OpToRel(<, Nat))
      BY <2>1, NatLessThanWellFounded, WFMin
    <2>3. i # 0
      BY <1>1, <2>2
    <2>4. Good(i - 1)
      <3>1. i - 1 \in 0..Len(s) /\ i - 1 < i
        BY <2>3
      <3>2. <<i - 1, i>> \in OpToRel(<, Nat)
        BY <3>1 DEF OpToRel
      <3>3. i - 1 \notin Bad
        BY <2>2, <3>2
      <3>4. QED
        BY <3>1, <3>3
    <2>5. i \in 0..Len(s) /\ ~Good(i)
      BY <2>2, Zenon
    <2>7. i \in 1..Len(s)
      BY <2>3, <2>5
    <2>6. QED
      BY <1>2, <2>4, <2>5, <2>7
  <1>4. QED
    BY <1>3

(* What the fold returns: a sequence over T and the elements of s in W,    *)
(* holding the base and exactly the elements of s that are in W.           *)
FoldOK(b, s, W, T, S) ==
    /\ Filt(b, s, W) \in Seq(T \cup (S \cap W))
    /\ SeqSet(Filt(b, s, W)) = SeqSet(b) \cup (SeqSet(s) \cap W)

LEMMA FiltResult ==
    ASSUME NEW T, NEW S, NEW b \in Seq(T), NEW s \in Seq(S), NEW W
    PROVE  FoldOK(b, s, W, T, S)
  <1>1. FiltOK(b, s, W, T, S, Len(s))
    <2>1. Len(s) \in 0..Len(s)
      OBVIOUS
    <2>2. QED
      BY <2>1, FiltSteps
  <1>2. Hits(s, W, Len(s)) = SeqSet(s) \cap W
    BY DEF Hits, SeqSet
  <1>3. QED
    BY <1>1, <1>2 DEF Filt, FiltOK, FoldOK

(* ThreadsIn is the fold from the empty sequence.                          *)
LEMMA ThreadsInIs ==
    ASSUME NEW ts, NEW W
    PROVE  ThreadsIn(ts, W) = Filt(<< >>, ts, W)
  BY DEF ThreadsIn, Filt, FiltF, FiltBody

(* QueueAll is the fold that keeps the threads queue_thread accepts.       *)
LEMMA QueueAllIs ==
    ASSUME NEW q, NEW ts \in Seq(Threads), NEW st
    PROVE  QueueAll(q, ts, st) = Filt(q, ts, Runnable(st))
  <1>1. \A F : [i \in 0..Len(ts) |-> IF i = 0 THEN q ELSE QueueThread(F[i - 1], ts[i], st)]
               = [i \in 0..Len(ts) |-> FiltBody(F, q, ts, Runnable(st), i)]
    BY DEF QueueThread, FiltBody, Runnable
  <1>2. QED
    BY <1>1 DEF QueueAll, Filt, FiltF

(* What the unblock pass of preempt and Process::cont do to the chain:     *)
(* queue_thread on the threads of W in scan order leaves a chain without   *)
(* kidle that holds the old entries and exactly the threads of W that are  *)
(* ALIVE and not kidle.                                                    *)
QueueScanOK(q, W, st) ==
    LET r == QueueAll(q, ThreadsIn(ScanOrder, W), st)
    IN  /\ r \in Seq(Threads \ {Idle})
        /\ SeqSet(r) = SeqSet(q) \cup (W \cap Runnable(st))

LEMMA QueueScan ==
    ASSUME NEW q \in Seq(Threads \ {Idle}), NEW W, NEW st
    PROVE  QueueScanOK(q, W, st)
  <1> DEFINE ts == ThreadsIn(ScanOrder, W)
             r == QueueAll(q, ts, st)
  <1>1. ScanOrder \in Seq(Threads) /\ SeqSet(ScanOrder) = Threads
    <2>1. ScanOrder \in Seq(Threads)
      BY SchedulerAssumption
    <2>2. SeqSet(ScanOrder) \subseteq Threads
      BY <2>1 DEF SeqSet
    <2>3. Threads \subseteq SeqSet(ScanOrder)
      BY SchedulerAssumption DEF SeqSet
    <2>4. QED
      BY <2>1, <2>2, <2>3
  <1>2. ts \in Seq(Threads) /\ SeqSet(ts) = Threads \cap W
    <2>1. ts = Filt(<< >>, ScanOrder, W)
      BY ThreadsInIs
    <2>2. << >> \in Seq(Threads) /\ SeqSet(<< >>) = {}
      BY DEF SeqSet
    <2>3. FoldOK(<< >>, ScanOrder, W, Threads, Threads)
      BY <1>1, <2>2, FiltResult
    <2>4. QED
      BY <1>1, <2>1, <2>2, <2>3 DEF FoldOK
  <1>3. r = Filt(q, ts, Runnable(st))
    BY <1>2, QueueAllIs
  <1>4. FoldOK(q, ts, Runnable(st), Threads \ {Idle}, Threads)
    BY <1>2, FiltResult
  <1>5. Runnable(st) \subseteq Threads \ {Idle}
    BY DEF Runnable
  <1>6. QED
    BY <1>2, <1>3, <1>4, <1>5 DEF FoldOK, QueueScanOK

(* Entry j of the chain after entry i is entry j - i of its tail.         *)
LEMMA SubSeqTail ==
    ASSUME NEW S, NEW q \in Seq(S), NEW i \in 1..Len(q), NEW j \in i + 1..Len(q)
    PROVE  SubSeq(q, i + 1, Len(q))[j - i] = q[j]
  OBVIOUS

(* What pick_next_thread returns from a chain without kidle: the next      *)
(* thread, the rest of the chain (still without kidle), and no ALIVE entry *)
(* dropped: every runnable thread of the chain is either the one picked or *)
(* still queued.                                                           *)
PickOK(q, st) ==
    LET p == PickNext(q, st)
    IN  /\ p.q \in Seq(Threads \ {Idle})
        /\ p.next \in Threads
        /\ \A t \in SeqSet(q) : st[t] = "Alive" => t = p.next \/ t \in SeqSet(p.q)

LEMMA PickNextOK ==
    ASSUME NEW q \in Seq(Threads \ {Idle}), NEW st \in [Threads -> ThreadStates],
           cur \in Threads
    PROVE  PickOK(q, st)
  <1> DEFINE Run == {j \in 1..Len(q) : st[q[j]] = "Alive"}
  <1>1. CASE Run # {}
    <2>0. Run \subseteq Nat /\ Run # {}
      BY <1>1
    <2>1. PICK k \in Run : \A j \in Run : ~(<<j, k>> \in OpToRel(<, Nat))
      BY <2>0, NatLessThanWellFounded, WFMin
    <2>2. \E m \in 1..Len(q) : st[q[m]] = "Alive" /\ \A j \in 1..m - 1 : st[q[j]] # "Alive"
      <3>1. \A j \in 1..k - 1 : st[q[j]] # "Alive"
        <4> SUFFICES ASSUME NEW j \in 1..k - 1, st[q[j]] = "Alive" PROVE FALSE
          OBVIOUS
        <4>1. j \in Run /\ <<j, k>> \in OpToRel(<, Nat)
          BY DEF OpToRel
        <4>2. QED
          BY <2>1, <4>1
      <3>2. QED
        BY <3>1
    <2>3. PICK i \in 1..Len(q) : /\ i = FirstRunnable(q, st)
                                 /\ st[q[i]] = "Alive"
                                 /\ \A j \in 1..i - 1 : st[q[j]] # "Alive"
      BY <2>2 DEF FirstRunnable
    <2>4. PickNext(q, st) = [next |-> q[i], q |-> SubSeq(q, i + 1, Len(q))]
      BY <2>3 DEF PickNext
    <2>5. SubSeq(q, i + 1, Len(q)) \in Seq(Threads \ {Idle})
      BY <2>3
    <2>6. \A t \in SeqSet(q) : st[t] = "Alive" => t = q[i] \/ t \in SeqSet(SubSeq(q, i + 1, Len(q)))
      <3> SUFFICES ASSUME NEW j \in 1..Len(q), st[q[j]] = "Alive"
                   PROVE  q[j] = q[i] \/ q[j] \in SeqSet(SubSeq(q, i + 1, Len(q)))
        BY DEF SeqSet
      <3>1. ~(j < i)
        BY <2>3
      <3>2. CASE j = i
        BY <3>2
      <3>3. CASE j > i
        <4>1. j - i \in 1..Len(SubSeq(q, i + 1, Len(q)))
          BY <2>3, <3>3
        <4>4. j \in i + 1..Len(q) /\ q \in Seq(Threads \ {Idle})
          BY <3>3
        <4>5. SubSeq(q, i + 1, Len(q))[j - i] = q[j]
          BY <4>4, SubSeqTail, Zenon
        <4>3. QED
          BY <4>1, <4>5 DEF SeqSet
      <3>4. QED
        BY <2>3, <3>1, <3>2, <3>3
    <2>7. QED
      BY <2>3, <2>4, <2>5, <2>6 DEF PickOK
  <1>2. CASE Run = {}
    <2>1. FirstRunnable(q, st) = 0
      BY <1>2 DEF FirstRunnable
    <2>2. PickNext(q, st) = [next |-> IF st[cur] = "Alive" THEN cur ELSE Idle, q |-> << >>]
      BY <2>1 DEF PickNext
    <2>3. \A t \in SeqSet(q) : st[t] # "Alive"
      BY <1>2 DEF SeqSet
    <2>4. QED
      BY <2>2, <2>3, IdleNoThread DEF PickOK
  <1>3. QED
    BY <1>1, <1>2

-----------------------------------------------------------------------------
(* The first step of preempt: the unblock pass when g_process_lock can be  *)
(* taken, else the state as it is.  PassOK says that the pass loses no     *)
(* runnable thread: one that is ALIVE afterwards is still running, in the  *)
(* chain it returns, or inside add_process.                                *)
PassOf == IF plock \in {NoThread, cur} THEN UnblockPass(tstate)
                                       ELSE [st |-> tstate, q |-> queue]

PassOK(pass) ==
    /\ pass.st \in [Threads -> ThreadStates]
    /\ pass.q \in Seq(Threads \ {Idle})
    /\ \A t \in Threads \ {Idle} :
          pass.st[t] = "Alive" =>
             t = cur \/ t \in SeqSet(pass.q) \/ \E u \in Threads : adding[u] = t

LEMMA PassIsOK ==
    ASSUME TypeOK, NoLostThread
    PROVE  PassOK(PassOf)
  <1>1. CASE plock \in {NoThread, cur}
    <2> DEFINE W == {t \in Threads : tstate[t] = "Blocked" /\ ready[t]}
               st1 == [t \in Threads |-> IF t \in W THEN "Alive" ELSE tstate[t]]
               r == QueueAll(queue, ThreadsIn(ScanOrder, W), st1)
    <2>1. PassOf = [st |-> st1, q |-> r]
      BY <1>1 DEF PassOf, UnblockPass
    <2>2. QueueScanOK(queue, W, st1)
      BY QueueScan DEF TypeOK
    <2>3. r \in Seq(Threads \ {Idle}) /\ SeqSet(r) = SeqSet(queue) \cup (W \cap Runnable(st1))
      BY <2>2 DEF QueueScanOK
    <2>4. st1 \in [Threads -> ThreadStates]
      BY DEF TypeOK, ThreadStates
    <2>5. ASSUME NEW t \in Threads \ {Idle}, st1[t] = "Alive"
          PROVE  t = cur \/ t \in SeqSet(r) \/ \E u \in Threads : adding[u] = t
      <3>1. CASE t \in W
        <4>1. t \in Runnable(st1)
          BY <2>5 DEF Runnable
        <4>2. QED
          BY <2>3, <3>1, <4>1
      <3>2. CASE t \notin W
        <4>1. tstate[t] = "Alive"
          BY <2>5, <3>2
        <4>2. t = cur \/ t \in SeqSet(queue) \/ \E u \in Threads : adding[u] = t
          BY <4>1 DEF NoLostThread, Queued, SeqSet
        <4>3. QED
          BY <2>3, <4>2
      <3>3. QED
        BY <3>1, <3>2
    <2>6. QED
      BY <2>1, <2>3, <2>4, <2>5 DEF PassOK
  <1>2. CASE plock \notin {NoThread, cur}
    <2>1. PassOf = [st |-> tstate, q |-> queue]
      BY <1>2 DEF PassOf
    <2>2. QED
      BY <2>1 DEF PassOK, TypeOK, NoLostThread, Queued, SeqSet
  <1>3. QED
    BY <1>1, <1>2

(* The body of Preempt for a given pass and pick, with cur for the old     *)
(* thread.                                                                 *)
PreemptBody(pass, pick) ==
    LET st == pass.st
        next == pick.next
        saveSig == SaveToSignalSlot(cur)
        inH1 == IF justFinished[cur] THEN [inHandler EXCEPT ![cur] = FALSE] ELSE inHandler
        inH2 == IF sigPending[next] THEN [inH1 EXCEPT ![next] = TRUE] ELSE inH1
        switch == next # cur \/ justFinished[cur] \/ sigPending[next]
        normSaved == IF switch /\ ~saveSig THEN [normCtx EXCEPT ![cur] = cpuCtx] ELSE normCtx
        sigSaved == IF switch /\ saveSig THEN [sigCtx EXCEPT ![cur] = cpuCtx] ELSE sigCtx
    IN  /\ st[next] = "Alive"
        /\ tstate' = st
        /\ queue' = IF switch /\ cur # Idle /\ st[cur] = "Alive"
                      THEN QueueThread(pick.q, cur, st)
                      ELSE pick.q
        /\ cur' = next
        /\ justFinished' = [justFinished EXCEPT ![cur] = FALSE]
        /\ sigPending' = [sigPending EXCEPT ![next] = FALSE]
        /\ inHandler' = inH2
        /\ normCtx' = normSaved
        /\ sigCtx' = sigSaved
        /\ cpuCtx' = IF ~switch THEN cpuCtx
                     ELSE IF inH2[next] THEN sigSaved[next] ELSE normSaved[next]
        /\ lastActive' = IF switch THEN [lastActive EXCEPT ![ProcOf[next]] = next]
                                   ELSE lastActive
        /\ UNCHANGED <<ready, plock, adding>>

LEMMA PreemptIs ==
    ASSUME Preempt
    PROVE  PreemptBody(PassOf, PickNext(PassOf.q, PassOf.st))
  <1>1. \E pass \in {PassOf} : \E pick \in {PickNext(pass.q, pass.st)} : PreemptBody(pass, pick)
    BY Zenon DEF Preempt, PreemptBody, PassOf
  <1>2. QED
    BY <1>1, Zenon

(* Preempt keeps the invariant.  The queue part rests on PassOK and        *)
(* PickOK; the context part on the case analysis of the switch: the slot  *)
(* the old thread is saved into is chosen from in_signal_handler before   *)
(* just_finished_signal clears it, and a thread resumed inside its        *)
(* handler finds a prepared or live handler in signal_registers.           *)
LEMMA PreemptStep ==
    ASSUME IInv, NEW pass, PassOK(pass), PreemptBody(pass, PickNext(pass.q, pass.st))
    PROVE  IInv'
  <1> DEFINE st == pass.st
             pick == PickNext(pass.q, pass.st)
             next == pick.next
             saveSig == inHandler[cur]
             inH1 == IF justFinished[cur] THEN [inHandler EXCEPT ![cur] = FALSE] ELSE inHandler
             inH2 == IF sigPending[next] THEN [inH1 EXCEPT ![next] = TRUE] ELSE inH1
             switch == next # cur \/ justFinished[cur] \/ sigPending[next]
             normSaved == IF switch /\ ~saveSig THEN [normCtx EXCEPT ![cur] = cpuCtx] ELSE normCtx
             sigSaved == IF switch /\ saveSig THEN [sigCtx EXCEPT ![cur] = cpuCtx] ELSE sigCtx
  <1>0. TypeOK /\ ContextValid /\ SigFlags /\ NoLostThread
    BY DEF IInv
  <1>1. PickOK(pass.q, st)
    BY <1>0, PickNextOK DEF PassOK, TypeOK
  <1>2. /\ pick.q \in Seq(Threads \ {Idle})
        /\ next \in Threads
        /\ \A t \in SeqSet(pass.q) : st[t] = "Alive" => t = next \/ t \in SeqSet(pick.q)
    BY <1>1 DEF PickOK
  <1>3. /\ st[next] = "Alive"
        /\ tstate' = st
        /\ queue' = IF switch /\ cur # Idle /\ st[cur] = "Alive"
                      THEN QueueThread(pick.q, cur, st)
                      ELSE pick.q
        /\ cur' = next
        /\ justFinished' = [justFinished EXCEPT ![cur] = FALSE]
        /\ sigPending' = [sigPending EXCEPT ![next] = FALSE]
        /\ inHandler' = inH2
        /\ normCtx' = normSaved
        /\ sigCtx' = sigSaved
        /\ cpuCtx' = IF ~switch THEN cpuCtx
                     ELSE IF inH2[next] THEN sigSaved[next] ELSE normSaved[next]
        /\ lastActive' = IF switch THEN [lastActive EXCEPT ![ProcOf[next]] = next]
                                   ELSE lastActive
        /\ UNCHANGED <<ready, plock, adding>>
    BY DEF PreemptBody, SaveToSignalSlot
  <1>4. /\ queue' \in Seq(Threads \ {Idle})
        /\ SeqSet(pick.q) \subseteq SeqSet(queue')
        /\ switch /\ cur # Idle /\ st[cur] = "Alive" => cur \in SeqSet(queue')
    <2>1. CASE switch /\ cur # Idle /\ st[cur] = "Alive"
      <3>1. queue' = Append(pick.q, cur)
        BY <1>3, <2>1 DEF QueueThread
      <3>2. QED
        BY <1>0, <1>2, <2>1, <3>1, SeqSetAppend DEF TypeOK
    <2>2. CASE ~(switch /\ cur # Idle /\ st[cur] = "Alive")
      BY <1>2, <1>3, <2>2
    <2>3. QED
      BY <2>1, <2>2
  <1>5. TypeOK'
    <2>1. inH2 \in [Threads -> BOOLEAN]
      BY <1>0, <1>2 DEF TypeOK
    <2>2. normSaved \in [Threads -> Contexts] /\ sigSaved \in [Threads -> Contexts]
      BY <1>0 DEF TypeOK
    <2>3. cpuCtx' \in Contexts
      BY <1>0, <1>2, <1>3, <2>2 DEF TypeOK
    <2>4. lastActive' \in [Procs -> Threads]
      BY <1>0, <1>2, <1>3, SchedulerAssumption DEF TypeOK
    <2>5. QED
      BY <1>0, <1>2, <1>3, <1>4, <2>1, <2>2, <2>3, <2>4 DEF TypeOK, PassOK
  <1>6. NoLostThread'
    <2> SUFFICES ASSUME NEW t \in Threads \ {Idle}, st[t] = "Alive"
                 PROVE  t = next \/ t \in SeqSet(queue') \/ \E u \in Threads : adding[u] = t
      BY <1>3 DEF NoLostThread, Queued, SeqSet
    <2>1. t = cur \/ t \in SeqSet(pass.q) \/ \E u \in Threads : adding[u] = t
      BY DEF PassOK
    <2>2. CASE t = cur
      BY <1>4, <2>2
    <2>3. CASE t \in SeqSet(pass.q)
      BY <1>2, <1>4, <2>3
    <2>4. QED
      BY <2>1, <2>2, <2>3
  <1>7. ContextValid' /\ SigFlags'
    <2>0. /\ \A t \in Threads : normCtx[t] = "normal"
          /\ inHandler[cur] <=> cpuCtx \in {"handler", "finished"}
          /\ cpuCtx = "finished" => justFinished[cur]
          /\ \A t \in Threads \ {cur} : inHandler[t] => sigCtx[t] = "handler"
          /\ \A t \in Threads : justFinished[t] => t = cur /\ inHandler[t]
          /\ \A t \in Threads : sigPending[t] => ~inHandler[t] /\ sigCtx[t] = "handler"
      BY <1>0 DEF ContextValid, SigFlags
    <2>1. SigFlags'
      <3> SUFFICES ASSUME NEW t \in Threads
                   PROVE  /\ justFinished'[t] => t = next /\ inH2[t]
                          /\ sigPending'[t] => ~inH2[t] /\ sigSaved[t] = "handler"
        BY <1>3 DEF SigFlags
      <3>1. justFinished'[t] => justFinished[t] /\ t # cur
        BY <1>0, <1>3 DEF TypeOK
      <3>2. sigPending'[t] => sigPending[t] /\ t # next
        BY <1>0, <1>2, <1>3 DEF TypeOK
      <3>3. sigPending[t] /\ t # next => ~inH2[t]
        BY <1>0, <1>2, <2>0 DEF TypeOK
      <3>4. sigPending[t] => sigSaved[t] = "handler"
        BY <1>0, <2>0 DEF TypeOK
      <3>5. QED
        BY <2>0, <3>1, <3>2, <3>3, <3>4
    <2>2. CASE ~switch
      <3>1. next = cur /\ ~justFinished[cur] /\ ~sigPending[cur]
        BY <2>2
      <3>2. inH2 = inHandler /\ normSaved = normCtx /\ sigSaved = sigCtx
        BY <3>1
      <3>3. justFinished' = justFinished
        BY <1>0, <1>3, <3>1 DEF TypeOK
      <3>4. /\ normCtx' = normCtx /\ inHandler' = inHandler /\ sigCtx' = sigCtx
            /\ cpuCtx' = cpuCtx /\ cur' = cur
        BY <1>3, <2>2, <3>1, <3>2
      <3>5. QED
        BY <1>0, <2>1, <3>3, <3>4 DEF ContextValid
    <2>3. CASE switch
      <3>1. \A t \in Threads : normSaved[t] = "normal"
        <4>1. ~inHandler[cur] => cpuCtx = "normal"
          BY <1>0, <2>0 DEF TypeOK, Contexts
        <4>2. QED
          BY <1>0, <2>0, <4>1 DEF TypeOK
      <3>2. inH2[next] => sigSaved[next] = "handler"
        <4>1. CASE sigPending[next]
          <5>1. ~inHandler[next] /\ sigCtx[next] = "handler"
            BY <1>2, <2>0, <4>1
          <5>2. sigSaved[next] = sigCtx[next]
            BY <1>0, <1>2, <5>1 DEF TypeOK
          <5>3. QED
            BY <5>1, <5>2
        <4>2. CASE ~sigPending[next] /\ next # cur
          <5>1. inH2[next] = inHandler[next]
            BY <1>0, <1>2, <4>2 DEF TypeOK
          <5>2. sigSaved[next] = sigCtx[next]
            BY <1>0, <1>2, <4>2 DEF TypeOK
          <5>3. QED
            BY <1>2, <2>0, <4>2, <5>1, <5>2
        <4>3. CASE ~sigPending[next] /\ next = cur
          <5>1. justFinished[cur]
            BY <2>3, <4>3
          <5>2. ~inH2[next]
            BY <1>0, <4>3, <5>1 DEF TypeOK
          <5>3. QED
            BY <5>2
        <4>4. QED
          BY <4>1, <4>2, <4>3
      <3>3. cpuCtx' = IF inH2[next] THEN sigSaved[next] ELSE normSaved[next]
        BY <1>3, <2>3
      <3>4. /\ inH2[next] <=> cpuCtx' \in {"handler", "finished"}
            /\ cpuCtx' # "finished"
        BY <1>2, <3>1, <3>2, <3>3
      <3>5. \A t \in Threads \ {next} : inH2[t] => sigSaved[t] = "handler"
        <4> SUFFICES ASSUME NEW t \in Threads \ {next}, inH2[t]
                     PROVE  sigSaved[t] = "handler"
          OBVIOUS
        <4>1. inH2[t] = inH1[t]
          BY <1>0, <1>2 DEF TypeOK
        <4>2. CASE t = cur
          <5>1. ~justFinished[cur] /\ inHandler[cur]
            BY <1>0, <4>1, <4>2 DEF TypeOK
          <5>2. cpuCtx = "handler"
            BY <2>0, <5>1
          <5>3. sigSaved[cur] = cpuCtx
            BY <1>0, <2>3, <5>1 DEF TypeOK
          <5>4. QED
            BY <4>2, <5>2, <5>3
        <4>3. CASE t # cur
          <5>1. inHandler[t]
            BY <1>0, <4>1, <4>3 DEF TypeOK
          <5>2. sigSaved[t] = sigCtx[t]
            BY <1>0, <4>3 DEF TypeOK
          <5>3. QED
            BY <2>0, <4>3, <5>1, <5>2
        <4>4. QED
          BY <4>2, <4>3
      <3>6. /\ normCtx' = normSaved /\ inHandler' = inH2 /\ sigCtx' = sigSaved
            /\ cur' = next
        BY <1>3
      <3>7. QED
        BY <2>1, <3>1, <3>4, <3>5, <3>6 DEF ContextValid
    <2>4. QED
      BY <2>1, <2>2, <2>3
  <1>8. QED
    BY <1>5, <1>6, <1>7 DEF IInv

-----------------------------------------------------------------------------
(* TaskManager::init: kidle is the only ALIVE thread and runs normal code. *)
LEMMA IInvInit ==
    Init => IInv
  <1> SUFFICES ASSUME Init PROVE IInv
    OBVIOUS
  <1>1. \A p \in Procs : (CHOOSE t \in Threads : ProcOf[t] = p) \in Threads
    BY SchedulerAssumption
  <1>2. TypeOK
    <2>1. lastActive \in [Procs -> Threads]
      BY <1>1 DEF Init
    <2>2. tstate \in [Threads -> ThreadStates] /\ queue \in Seq(Threads \ {Idle})
      BY DEF Init, ThreadStates
    <2>3. /\ ready \in [Threads -> BOOLEAN] /\ sigPending \in [Threads -> BOOLEAN]
          /\ inHandler \in [Threads -> BOOLEAN] /\ justFinished \in [Threads -> BOOLEAN]
          /\ adding \in [Threads -> Threads \cup {NoThread}]
          /\ plock \in Threads \cup {NoThread} /\ cur \in Threads
      BY IdleNoThread DEF Init
    <2>4. cpuCtx \in Contexts /\ normCtx \in [Threads -> Contexts] /\ sigCtx \in [Threads -> Contexts]
      BY DEF Init, Contexts
    <2>5. QED
      BY <2>1, <2>2, <2>3, <2>4 DEF TypeOK
  <1>3. NoLostThread /\ ContextValid /\ SigFlags
    BY IdleNoThread DEF Init, NoLostThread, ContextValid, SigFlags
  <1>4. QED
    BY <1>2, <1>3 DEF IInv

(* add_process under g_process_lock: the new thread is ALIVE and held by   *)
(* the adding thread until it is queued.                                   *)
LEMMA AddProcessLockedStep ==
    ASSUME IInv, NEW t \in Threads, AddProcessLocked(t)
    PROVE  IInv'
  <1>1. TypeOK'
    BY DEF IInv, TypeOK, AddProcessLocked, ThreadStates, sigVars
  <1>2. NoLostThread'
    <2> SUFFICES ASSUME NEW x \in Threads \ {Idle}, tstate'[x] = "Alive"
                 PROVE  x = cur \/ x \in Queued \/ \E u \in Threads : adding'[u] = x
      BY DEF AddProcessLocked, NoLostThread, Queued
    <2>1. CASE x = t
      BY <2>1 DEF IInv, TypeOK, AddProcessLocked
    <2>2. CASE x # t
      <3>1. x = cur \/ x \in Queued \/ \E u \in Threads : adding[u] = x
        BY <2>2 DEF IInv, TypeOK, AddProcessLocked, NoLostThread
      <3>2. \A u \in Threads : adding[u] = x => adding'[u] = x
        BY IdleNoThread DEF IInv, TypeOK, AddProcessLocked
      <3>3. QED
        BY <3>1, <3>2
    <2>3. QED
      BY <2>1, <2>2
  <1>3. QED
    BY <1>1, <1>2 DEF IInv, AddProcessLocked, ContextValid, SigFlags, sigVars

(* The second half of add_process queues the thread it added.              *)
LEMMA AddProcessQueueStep ==
    ASSUME IInv, AddProcessQueue
    PROVE  IInv'
  <1> DEFINE a == adding[cur]
  <1>0. TypeOK /\ NoLostThread /\ a \in Threads
    BY DEF IInv, TypeOK, AddProcessQueue
  <1>1. /\ queue' \in Seq(Threads \ {Idle})
        /\ SeqSet(queue) \subseteq SeqSet(queue')
        /\ a # Idle /\ tstate[a] = "Alive" => a \in SeqSet(queue')
    <2>1. CASE a # Idle /\ tstate[a] = "Alive"
      <3>1. queue' = Append(queue, a)
        BY <2>1 DEF AddProcessQueue, QueueThread
      <3>2. QED
        BY <1>0, <2>1, <3>1, SeqSetAppend DEF TypeOK
    <2>2. CASE ~(a # Idle /\ tstate[a] = "Alive")
      BY <1>0, <2>2 DEF AddProcessQueue, QueueThread, TypeOK
    <2>3. QED
      BY <2>1, <2>2
  <1>2. TypeOK'
    BY <1>0, <1>1 DEF TypeOK, AddProcessQueue, sigVars
  <1>3. NoLostThread'
    <2> SUFFICES ASSUME NEW x \in Threads \ {Idle}, tstate[x] = "Alive"
                 PROVE  x = cur \/ x \in SeqSet(queue') \/ \E u \in Threads : adding'[u] = x
      BY DEF AddProcessQueue, NoLostThread, Queued, SeqSet
    <2>1. x = cur \/ x \in SeqSet(queue) \/ \E u \in Threads : adding[u] = x
      BY <1>0 DEF NoLostThread, Queued, SeqSet
    <2>2. ASSUME NEW u \in Threads, adding[u] = x PROVE x \in SeqSet(queue') \/ adding'[u] = x
      <3>1. CASE u = cur
        BY <1>1, <2>2, <3>1
      <3>2. CASE u # cur
        BY <1>0, <2>2, <3>2 DEF AddProcessQueue, TypeOK
      <3>3. QED
        BY <3>1, <3>2
    <2>3. QED
      BY <1>1, <2>1, <2>2
  <1>4. QED
    BY <1>2, <1>3 DEF IInv, AddProcessQueue, ContextValid, SigFlags, sigVars

(* Thread::block, Thread::die and stop make the running thread not ALIVE;  *)
(* a blocker becoming ready changes no ALIVE state.                        *)
LEMMA LeaveStep ==
    ASSUME IInv, \/ Block
                 \/ \E t \in Threads : Satisfy(t)
                 \/ Exit("Dead") \/ Exit("Stopped")
    PROVE  IInv'
  <1>1. UNCHANGED <<queue, cur, plock, adding, sigVars, lastActive>>
    BY DEF Block, Satisfy, Exit
  <1>2. tstate' \in [Threads -> ThreadStates] /\ ready' \in [Threads -> BOOLEAN]
    BY DEF IInv, TypeOK, Block, Satisfy, Exit, ThreadStates
  <1>3. \A t \in Threads : tstate'[t] = "Alive" => tstate[t] = "Alive"
    BY DEF IInv, TypeOK, Block, Satisfy, Exit
  <1>4. QED
    BY <1>1, <1>2, <1>3 DEF IInv, TypeOK, NoLostThread, Queued, ContextValid, SigFlags, sigVars

(* Process::cont sets the stopped threads ALIVE and queues them.           *)
LEMMA ContStep ==
    ASSUME IInv, NEW p \in Procs, Cont(p)
    PROVE  IInv'
  <1> DEFINE mine == {t \in Threads : ProcOf[t] = p /\ tstate[t] \notin {"New", "Dead"}}
             st == [t \in Threads |-> IF t \in mine THEN "Alive" ELSE tstate[t]]
  <1>1. tstate' = st /\ queue' = QueueAll(queue, ThreadsIn(ScanOrder, mine), st)
    BY DEF Cont
  <1>2. QueueScanOK(queue, mine, st)
    BY QueueScan DEF IInv, TypeOK
  <1>3. queue' \in Seq(Threads \ {Idle}) /\ SeqSet(queue') = SeqSet(queue) \cup (mine \cap Runnable(st))
    BY <1>1, <1>2 DEF QueueScanOK
  <1>4. TypeOK'
    BY <1>1, <1>3 DEF IInv, TypeOK, Cont, ThreadStates, sigVars
  <1>5. NoLostThread'
    <2> SUFFICES ASSUME NEW x \in Threads \ {Idle}, st[x] = "Alive"
                 PROVE  x = cur \/ x \in SeqSet(queue') \/ \E u \in Threads : adding[u] = x
      BY <1>1 DEF Cont, NoLostThread, Queued, SeqSet
    <2>1. CASE x \in mine
      BY <1>3, <2>1 DEF Runnable
    <2>2. CASE x \notin mine
      <3>1. tstate[x] = "Alive"
        BY <2>2
      <3>2. QED
        BY <1>3, <3>1 DEF IInv, NoLostThread, Queued, SeqSet
    <2>3. QED
      BY <2>1, <2>2
  <1>6. QED
    BY <1>4, <1>5 DEF IInv, Cont, ContextValid, SigFlags, sigVars

(* Thread::handle_signal prepares the handler context of a thread outside  *)
(* a handler.                                                              *)
LEMMA RaiseSignalStep ==
    ASSUME IInv, NEW t \in Threads, RaiseSignal(t)
    PROVE  IInv'
  <1>1. TypeOK'
    BY DEF IInv, TypeOK, RaiseSignal, Contexts
  <1>2. ContextValid' /\ SigFlags'
    BY DEF IInv, TypeOK, RaiseSignal, ContextValid, SigFlags
  <1>3. NoLostThread'
    BY DEF IInv, RaiseSignal, NoLostThread, Queued
  <1>4. QED
    BY <1>1, <1>2, <1>3 DEF IInv

(* sigreturn: the running thread's handler has finished.                   *)
LEMMA FinishSignalStep ==
    ASSUME IInv, FinishSignal
    PROVE  IInv'
  <1>1. TypeOK'
    BY DEF IInv, TypeOK, FinishSignal, Contexts
  <1>2. ContextValid' /\ SigFlags'
    BY DEF IInv, TypeOK, FinishSignal, ContextValid, SigFlags
  <1>3. NoLostThread'
    BY DEF IInv, FinishSignal, NoLostThread, Queued
  <1>4. QED
    BY <1>1, <1>2, <1>3 DEF IInv

LEMMA IInvStep ==
    IInv /\ [Next]_vars => IInv'
  <1> SUFFICES ASSUME IInv, [Next]_vars PROVE IInv'
    OBVIOUS
  <1>1. CASE Preempt
    <2>1. PassOK(PassOf)
      BY PassIsOK DEF IInv
    <2>2. PreemptBody(PassOf, PickNext(PassOf.q, PassOf.st))
      BY <1>1, PreemptIs
    <2>3. QED
      BY <2>1, <2>2, PreemptStep
  <1>2. CASE \E t \in Threads : AddProcessLocked(t)
    BY <1>2, AddProcessLockedStep
  <1>3. CASE AddProcessQueue
    BY <1>3, AddProcessQueueStep
  <1>4. CASE \/ Block
             \/ \E t \in Threads : Satisfy(t)
             \/ Exit("Dead") \/ Exit("Stopped")
    BY <1>4, LeaveStep
  <1>5. CASE \E p \in Procs : Cont(p)
    BY <1>5, ContStep
  <1>6. CASE \E t \in Threads : RaiseSignal(t)
    BY <1>6, RaiseSignalStep
  <1>7. CASE FinishSignal
    BY <1>7, FinishSignalStep
  <1>8. CASE UNCHANGED vars
    BY <1>8 DEF vars, IInv, TypeOK, NoLostThread, Queued, ContextValid, SigFlags
  <1>9. QED
    BY <1>1, <1>2, <1>3, <1>4, <1>5, <1>6, <1>7, <1>8 DEF Next

-----------------------------------------------------------------------------
(* The inductive invariant holds in every reachable state.                 *)
THEOREM IInvHolds == Spec => []IInv
  BY IInvInit, IInvStep, PTL DEF Spec

(* No runnable thread is lost by preempt, pick_next_thread, add_process,   *)
(* block, die, stop or Process::cont: every ALIVE thread other than kidle  *)
(* is running, in the chain from g_next_thread, or inside the add_process  *)
(* that will queue it, for every set of threads, processes and scan order. *)
THEOREM NoLostThreadHolds == Spec => []NoLostThread
  <1>1. IInv => NoLostThread
    BY DEF IInv
  <1>2. QED
    BY <1>1, IInvHolds, PTL

(* The signal contexts of preempt stay consistent in every reachable       *)
(* state: registers hold normal code, the CPU runs a handler exactly when  *)
(* cur_thread is in_signal_handler, a finished handler runs only until     *)
(* its yield, and a thread switched out in its handler resumes a live one. *)
THEOREM ContextValidHolds == Spec => []ContextValid
  <1>1. IInv => ContextValid
    BY DEF IInv
  <1>2. QED
    BY <1>1, IInvHolds, PTL
=============================================================================
