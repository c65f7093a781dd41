------------------------ MODULE NetworkManagerProofs ------------------------
(***************************************************************************)
(* Proofs that the packet path of the NetworkManager keeps its types,      *)
(* never lets an interrupt refill the buffer that handle_packet is reading *)
(* and keeps packet->used equal to ownership of a buffer, for every number *)
(* of adapters, every set of buffers and every bound on arrivals.          *)
(*                                                                         *)
(* The invariants are not inductive alone: a Receive into an unused       *)
(* buffer must not duplicate it in a queue, and a Dequeue must remove the  *)
(* buffer from every queue.  NetIInv adds that each adapter's queue holds  *)
(* only that adapter's buffers, each at most once; that the buffer being   *)
(* handled is in no queue; and that a used buffer holds a received frame.  *)
(***************************************************************************)
EXTENDS NetworkManager, TLAPS

USE NetAssumption

Ifaces == 1 .. NIfaces

(* A sequence without repetitions. *)
NoDup(s) == \A j, k \in 1 .. Len(s) : s[j] = s[k] => j = k

(* Each adapter's queue holds only its own buffers, none twice. *)
QueuesWellFormed ==
    \A i \in Ifaces :
        /\ \A j \in 1 .. Len(queue[i]) : BufIface[queue[i][j]] = i
        /\ NoDup(queue[i])

(* The buffer handle_packet works on was dequeued: it is in no queue. *)
CurDequeued ==
    pc \in {"handle", "release"} =>
        /\ cur \in Buffers
        /\ \A i \in Ifaces : cur \notin Range(queue[i])

(* A used buffer holds a frame that was received. *)
UsedHoldsFrame ==
    /\ data \in [Buffers -> [id : 0 .. arrived, kind : Kinds]]
    /\ \A b \in Buffers : used[b] => data[b].id \in 1 .. arrived

NetIInv ==
    /\ TypeOK
    /\ QueuesWellFormed
    /\ CurDequeued
    /\ UsedHoldsFrame
    /\ PacketNotOverwritten
    /\ BufferAccounting

-----------------------------------------------------------------------------
(* Appending an element that is not yet in a sequence without repetitions *)
(* keeps it without repetitions and adds the element to its range.        *)
LEMMA AppendFresh ==
  ASSUME NEW S, NEW q \in Seq(S), NEW x \in S, NoDup(q), x \notin Range(q)
  PROVE  /\ Append(q, x) \in Seq(S)
         /\ NoDup(Append(q, x))
         /\ Range(Append(q, x)) = Range(q) \cup {x}
  BY DEF NoDup, Range

(* Removing the head of a non-empty sequence without repetitions removes  *)
(* exactly that element from its range.                                   *)
LEMMA TailNoDup ==
  ASSUME NEW S, NEW q \in Seq(S), q # <<>>, NoDup(q)
  PROVE  /\ Tail(q) \in Seq(S)
         /\ NoDup(Tail(q))
         /\ Range(Tail(q)) = Range(q) \ {Head(q)}
         /\ Head(q) \in S
  <1>1. /\ Len(q) \in Nat \ {0}
        /\ Tail(q) \in Seq(S)
        /\ Len(Tail(q)) = Len(q) - 1
        /\ \A j \in 1 .. Len(q) - 1 : Tail(q)[j] = q[j + 1]
        /\ Head(q) = q[1] /\ Head(q) \in S
    OBVIOUS
  <1>2. NoDup(Tail(q))
    BY <1>1 DEF NoDup
  <1>3. ASSUME NEW x \in Range(Tail(q)) PROVE x \in Range(q) \ {Head(q)}
    BY <1>1 DEF NoDup, Range
  <1>4. ASSUME NEW x \in Range(q) \ {Head(q)} PROVE x \in Range(Tail(q))
    <2>1. PICK k \in 1 .. Len(q) : x = q[k]
      BY <1>4 DEF Range
    <2>2. k # 1
      BY <1>1, <1>4, <2>1
    <2>3. k - 1 \in 1 .. Len(Tail(q)) /\ Tail(q)[k - 1] = x
      BY <1>1, <2>1, <2>2
    <2>4. DOMAIN Tail(q) = 1 .. Len(Tail(q))
      BY <1>1
    <2>5. QED
      BY <2>3, <2>4 DEF Range
  <1>5. QED
    BY <1>1, <1>2, <1>3, <1>4

-----------------------------------------------------------------------------
(* NetIInv holds initially: every queue is empty and no buffer is used.   *)
LEMMA NetIInvInit == Init => NetIInv
  <1> SUFFICES ASSUME Init PROVE NetIInv
    OBVIOUS
  <1>1. \A i \in Ifaces : queue[i] = <<>> /\ Range(queue[i]) = {}
    BY DEF Init, Range, Ifaces
  <1>2. TypeOK
    <2>1. queue \in [1 .. NIfaces -> Seq(Buffers)] /\ used \in [Buffers -> BOOLEAN]
      BY DEF Init
    <2>2. iface \in 1 .. NIfaces + 1 /\ arrived \in 0 .. MaxArrivals
      BY DEF Init
    <2>3. QED
      BY <2>1, <2>2 DEF Init, TypeOK
  <1>3. UsedHoldsFrame
    BY DEF Init, UsedHoldsFrame
  <1>4. QueuesWellFormed
    BY <1>1 DEF Init, QueuesWellFormed, NoDup
  <1>6. BufferAccounting
    <2>1. \A b \in Buffers : BufIface[b] \in Ifaces
      BY DEF Ifaces
    <2>2. QED
      BY <1>1, <2>1 DEF Init, BufferAccounting
  <1>5. QED
    BY <1>2, <1>3, <1>4, <1>6 DEF Init, NetIInv, CurDequeued, PacketNotOverwritten

(* A buffer lies only in the queue of its own adapter. *)
LEMMA OnlyOwnQueue ==
  ASSUME NetIInv, NEW b \in Buffers, NEW i \in Ifaces, b \in Range(queue[i])
  PROVE  BufIface[b] = i
  BY DEF NetIInv, QueuesWellFormed, Range, TypeOK, Ifaces

(* An interrupt filling an unused buffer keeps NetIInv. *)
LEMMA ReceiveInv ==
  ASSUME NetIInv, NEW b \in Buffers, NEW k \in Kinds, Receive(b, k)
  PROVE  NetIInv'
  <1> DEFINE i == BufIface[b]
  <1>1. i \in Ifaces /\ queue[i] \in Seq(Buffers)
    BY DEF NetIInv, TypeOK, Ifaces
  <1>2. \A j \in Ifaces : b \notin Range(queue[j])
    BY OnlyOwnQueue, <1>1 DEF Receive, NetIInv, BufferAccounting
  <1>3. /\ queue'[i] \in Seq(Buffers)
        /\ NoDup(queue'[i])
        /\ Range(queue'[i]) = Range(queue[i]) \cup {b}
        /\ \A j \in Ifaces \ {i} : queue'[j] = queue[j]
    BY <1>1, <1>2, AppendFresh DEF Receive, NetIInv, QueuesWellFormed, TypeOK, Ifaces
  <1>4. pc \in {"handle", "release"} => cur # b
    BY DEF Receive, NetIInv, BufferAccounting
  <1>5. TypeOK'
    BY <1>1, <1>3 DEF Receive, NetIInv, TypeOK, Ifaces
  <1>6. QueuesWellFormed'
    <2>1. SUFFICES ASSUME NEW j \in Ifaces
                   PROVE  /\ \A x \in 1 .. Len(queue'[j]) : BufIface[queue'[j][x]] = j
                          /\ NoDup(queue'[j])
      BY DEF QueuesWellFormed
    <2>2. CASE j = i
      <3>1. queue'[i] = Append(queue[i], b)
        BY <1>1 DEF Receive, NetIInv, TypeOK, Ifaces
      <3>2. \A x \in 1 .. Len(queue[i]) : BufIface[queue[i][x]] = i
        BY <1>1 DEF NetIInv, QueuesWellFormed
      <3>3. \A x \in 1 .. Len(queue'[i]) : BufIface[queue'[i][x]] = i
        BY <1>1, <3>1, <3>2
      <3>4. QED
        BY <1>3, <2>2, <3>3
    <2>3. CASE j # i
      BY <1>3, <2>3 DEF NetIInv, QueuesWellFormed
    <2>4. QED
      BY <2>2, <2>3
  <1>7. CurDequeued'
    BY <1>3, <1>4 DEF Receive, NetIInv, CurDequeued
  <1>8. UsedHoldsFrame'
    BY DEF Receive, NetIInv, UsedHoldsFrame, TypeOK
  <1>9. PacketNotOverwritten'
    BY <1>4 DEF Receive, NetIInv, PacketNotOverwritten, CurDequeued
  <1>10. BufferAccounting'
    BY <1>1, <1>3 DEF Receive, NetIInv, BufferAccounting, TypeOK, Ifaces
  <1>11. QED
    BY <1>5, <1>6, <1>7, <1>8, <1>9, <1>10 DEF NetIInv

(* dequeue_packet taking the head of the current adapter's queue keeps    *)
(* NetIInv: the buffer leaves every queue and becomes the one handled.    *)
LEMMA DequeueInv ==
  ASSUME NetIInv, Dequeue
  PROVE  NetIInv'
  <1> DEFINE q == queue[iface]
             h == Head(q)
  <1>1. iface \in Ifaces /\ q \in Seq(Buffers) /\ q # <<>> /\ NoDup(q)
    BY DEF Dequeue, NetIInv, TypeOK, QueuesWellFormed, Ifaces
  <1>2. /\ Tail(q) \in Seq(Buffers)
        /\ NoDup(Tail(q))
        /\ Range(Tail(q)) = Range(q) \ {h}
        /\ h \in Buffers
    BY <1>1, TailNoDup
  <1>3. h \in Range(q) /\ BufIface[h] = iface
    <2>1. h = q[1] /\ 1 \in 1 .. Len(q)
      BY <1>1
    <2>2. QED
      BY <1>1, <2>1 DEF NetIInv, QueuesWellFormed, Range
  <1>4. \A j \in Ifaces : h \notin Range(queue'[j])
    <2>1. \A j \in Ifaces \ {iface} : h \notin Range(queue[j])
      BY <1>2, <1>3, OnlyOwnQueue
    <2>2. QED
      BY <1>1, <1>2, <2>1 DEF Dequeue, NetIInv, TypeOK, Ifaces
  <1>5. TypeOK'
    BY <1>1, <1>2 DEF Dequeue, NetIInv, TypeOK, Ifaces
  <1>6. QueuesWellFormed'
    <2>1. \A j \in 1 .. Len(Tail(q)) : Tail(q)[j] = q[j + 1] /\ j + 1 \in 1 .. Len(q)
      BY <1>1
    <2>2. \A j \in 1 .. Len(Tail(q)) : BufIface[Tail(q)[j]] = iface
      BY <1>1, <2>1 DEF NetIInv, QueuesWellFormed
    <2>3. queue' = [queue EXCEPT ![iface] = Tail(q)] /\ queue \in [Ifaces -> Seq(Buffers)]
      BY DEF Dequeue, NetIInv, TypeOK, Ifaces
    <2>4. QED
      BY <1>2, <2>2, <2>3 DEF NetIInv, QueuesWellFormed
  <1>7. CurDequeued' /\ PacketNotOverwritten'
    BY <1>2, <1>4 DEF Dequeue, CurDequeued, PacketNotOverwritten
  <1>8. UsedHoldsFrame'
    BY DEF Dequeue, NetIInv, UsedHoldsFrame
  <1>9. BufferAccounting'
    <2>1. SUFFICES ASSUME NEW b \in Buffers
                   PROVE  used'[b] <=> (b \in Range(queue'[BufIface[b]])
                                        \/ (pc' \in {"handle", "release"} /\ cur' = b))
      BY DEF BufferAccounting
    <2>2. CASE b = h
      BY <1>3, <1>4, <2>2 DEF Dequeue, NetIInv, BufferAccounting, Ifaces
    <2>3. CASE b # h
      <3>1. b \in Range(queue'[BufIface[b]]) <=> b \in Range(queue[BufIface[b]])
        BY <1>1, <1>2, <2>3 DEF Dequeue, NetIInv, TypeOK, Ifaces
      <3>2. QED
        BY <2>3, <3>1 DEF Dequeue, NetIInv, BufferAccounting
    <2>4. QED
      BY <2>2, <2>3
  <1>10. QED
    BY <1>5, <1>6, <1>7, <1>8, <1>9 DEF NetIInv

(* handle_packet records the id of a frame that was received.             *)
LEMMA HandleInv ==
  ASSUME NetIInv, Handle
  PROVE  NetIInv'
  <1>1. cur \in Buffers /\ used[cur]
    BY DEF Handle, NetIInv, CurDequeued, BufferAccounting
  <1>2. data[cur].id \in 1 .. MaxArrivals
    BY <1>1 DEF NetIInv, UsedHoldsFrame, TypeOK
  <1>3. TypeOK'
    BY <1>2 DEF Handle, NetIInv, TypeOK
  <1>4. QED
    BY <1>3 DEF Handle, NetIInv, QueuesWellFormed, CurDequeued, UsedHoldsFrame,
                PacketNotOverwritten, BufferAccounting

(* packet->used = false after handle_packet frees a buffer in no queue.   *)
LEMMA ReleaseInv ==
  ASSUME NetIInv, Release
  PROVE  NetIInv'
  <1>1. cur \in Buffers /\ \A i \in Ifaces : cur \notin Range(queue[i])
    BY DEF Release, NetIInv, CurDequeued
  <1>2. TypeOK'
    BY <1>1 DEF Release, NetIInv, TypeOK
  <1>3. BufferAccounting'
    <2>1. SUFFICES ASSUME NEW b \in Buffers
                   PROVE  used'[b] <=> (b \in Range(queue'[BufIface[b]])
                                        \/ (pc' \in {"handle", "release"} /\ cur' = b))
      BY DEF BufferAccounting
    <2>2. BufIface[b] \in Ifaces
      BY DEF Ifaces
    <2>3. QED
      BY <1>1, <2>2 DEF Release, NetIInv, BufferAccounting, TypeOK
  <1>4. UsedHoldsFrame'
    BY DEF Release, NetIInv, UsedHoldsFrame, TypeOK
  <1>5. QED
    BY <1>2, <1>3, <1>4 DEF Release, NetIInv, QueuesWellFormed, CurDequeued, PacketNotOverwritten

(* A step of the flag, the thread state or the scan position that touches *)
(* no queue, buffer or packet, taken outside handle_packet, keeps NetIInv. *)
LEMMA QuietStep ==
  ASSUME NetIInv, UNCHANGED <<queue, used, data, cur, arrived, taken, handled>>,
         pc \notin {"handle", "release"}, pc' \in {"block", "clear", "scan"},
         iface' \in 1 .. NIfaces + 1, ready' \in BOOLEAN, tstate' \in {"Alive", "Blocked"}
  PROVE  NetIInv'
  <1>1. TypeOK'
    BY DEF NetIInv, TypeOK
  <1>2. QueuesWellFormed' /\ UsedHoldsFrame'
    BY DEF NetIInv, QueuesWellFormed, UsedHoldsFrame
  <1>3. CurDequeued' /\ PacketNotOverwritten'
    BY DEF CurDequeued, PacketNotOverwritten
  <1>4. BufferAccounting'
    BY DEF NetIInv, BufferAccounting
  <1>5. QED
    BY <1>1, <1>2, <1>3, <1>4 DEF NetIInv

(* Every step keeps NetIInv. *)
LEMMA NetIInvStep == NetIInv /\ [Next]_vars => NetIInv'
  <1> SUFFICES ASSUME NetIInv, [Next]_vars PROVE NetIInv'
    OBVIOUS
  <1>1. ASSUME NEW b \in Buffers, NEW k \in Kinds, Receive(b, k) PROVE NetIInv'
    BY <1>1, ReceiveInv
  <1>2. CASE Wake \/ Block \/ EndScan \/ Clear \/ NextIface
    <2>1. CASE Wake
      BY <2>1 DEF Wake, NetIInv, TypeOK, QueuesWellFormed, CurDequeued,
                  UsedHoldsFrame, PacketNotOverwritten, BufferAccounting
    <2>2. CASE Block
      <3>1. /\ UNCHANGED <<queue, used, data, cur, arrived, taken, handled>>
            /\ pc \notin {"handle", "release"}
            /\ pc' \in {"block", "clear", "scan"}
            /\ iface' \in 1 .. NIfaces + 1
            /\ ready' \in BOOLEAN
            /\ tstate' \in {"Alive", "Blocked"}
        BY <2>2 DEF Block, NetIInv, TypeOK
      <3>2. QED
        BY <3>1, QuietStep
    <2>3. CASE EndScan
      <3>1. /\ UNCHANGED <<queue, used, data, cur, arrived, taken, handled>>
            /\ pc \notin {"handle", "release"}
            /\ pc' \in {"block", "clear", "scan"}
            /\ iface' \in 1 .. NIfaces + 1
            /\ ready' \in BOOLEAN
            /\ tstate' \in {"Alive", "Blocked"}
        BY <2>3 DEF EndScan, NetIInv, TypeOK
      <3>2. QED
        BY <3>1, QuietStep
    <2>4. CASE Clear
      <3>1. /\ UNCHANGED <<queue, used, data, cur, arrived, taken, handled>>
            /\ pc \notin {"handle", "release"}
            /\ pc' \in {"block", "clear", "scan"}
            /\ iface' \in 1 .. NIfaces + 1
            /\ ready' \in BOOLEAN
            /\ tstate' \in {"Alive", "Blocked"}
        <4>1. UNCHANGED <<queue, used, data, cur, arrived, taken, handled>>
          BY <2>4 DEF Clear
        <4>2. pc \notin {"handle", "release"} /\ pc' \in {"block", "clear", "scan"}
          BY <2>4 DEF Clear
        <4>3. iface' \in 1 .. NIfaces + 1
          BY <2>4 DEF Clear
        <4>4. ready' \in BOOLEAN /\ tstate' \in {"Alive", "Blocked"}
          BY <2>4 DEF Clear, NetIInv, TypeOK
        <4>5. QED
          BY <4>1, <4>2, <4>3, <4>4
      <3>2. QED
        BY <3>1, QuietStep
    <2>5. CASE NextIface
      <3>1. /\ UNCHANGED <<queue, used, data, cur, arrived, taken, handled>>
            /\ pc \notin {"handle", "release"}
            /\ pc' \in {"block", "clear", "scan"}
            /\ iface' \in 1 .. NIfaces + 1
            /\ ready' \in BOOLEAN
            /\ tstate' \in {"Alive", "Blocked"}
        BY <2>5 DEF NextIface, NetIInv, TypeOK
      <3>2. QED
        BY <3>1, QuietStep
    <2>6. QED
      BY <1>2, <2>1, <2>2, <2>3, <2>4, <2>5
  <1>4. CASE Dequeue
    BY <1>4, DequeueInv
  <1>5. CASE Handle
    BY <1>5, HandleInv
  <1>6. CASE Release
    BY <1>6, ReleaseInv
  <1>7. CASE UNCHANGED vars
    BY <1>7 DEF vars, NetIInv, TypeOK, QueuesWellFormed, CurDequeued,
                UsedHoldsFrame, PacketNotOverwritten, BufferAccounting
  <1>8. QED
    BY <1>1, <1>2, <1>4, <1>5, <1>6, <1>7 DEF Next, Thread

-----------------------------------------------------------------------------
(* The NetworkManager's variables keep their types in every run, for any  *)
(* number of adapters, buffers and arrivals.                              *)
THEOREM NetTypeCorrect == Spec => []TypeOK
  BY NetIInvInit, NetIInvStep, PTL DEF Spec, NetIInv

(* While handle_packet runs on a buffer, no adapter interrupt refills it: *)
(* the buffer still holds the frame do_task dequeued, whatever interrupts *)
(* arrive between dequeue_packet and packet->used = false.                *)
THEOREM PacketNotOverwrittenHolds == Spec => []PacketNotOverwritten
  BY NetIInvInit, NetIInvStep, PTL DEF Spec, NetIInv

(* packet->used is true exactly for the buffers that are queued or being  *)
(* handled, in every interleaving of interrupts with do_task.             *)
THEOREM BufferAccountingHolds == Spec => []BufferAccounting
  BY NetIInvInit, NetIInvStep, PTL DEF Spec, NetIInv
=============================================================================
