--------------------------- MODULE NetworkManager ---------------------------
(***************************************************************************)
(* The packet path of src/kernel/net/NetworkManager.cpp: network adapters  *)
(* receive frames into buffers in their interrupt handlers, queue them and *)
(* call wakeup(), which sets the ready flag of m_blocker; the kernel       *)
(* thread of the NetworkManager (do_task) blocks on m_blocker, clears the  *)
(* flag, and                                                               *)
(* drains every adapter's queue, handling each packet and then marking its *)
(* buffer unused.  The adapters are not part of the sources: Receive is    *)
(* the contract do_task relies on (a buffer is filled only while unused,   *)
(* queued, then wakeup() is called), made atomic by the interrupt.  The    *)
(* thread's steps interleave with interrupts anywhere, and it is woken by  *)
(* the scheduler's unblock pass once the flag is set.  A packet is         *)
(* abstracted to an arrival number and a kind; handle_packet is abstracted *)
(* to whether it sends a reply.                                            *)
(***************************************************************************)
EXTENDS Naturals, Sequences

CONSTANTS NIfaces,       \* number of adapters in NetworkAdapter::interfaces()
          Buffers,       \* receive buffers of all adapters
          BufIface,      \* the adapter that owns each buffer
          Kinds,         \* frame kinds (EtherProto / ARPOp / IPv4Proto)
          ArpRequest,    \* the one kind that handle_arp answers
          NoBuf,
          MaxArrivals    \* bound on the frames received in a run

ASSUME NetAssumption ==
    /\ NIfaces \in Nat \ {0} /\ BufIface \in [Buffers -> 1 .. NIfaces]
    /\ ArpRequest \in Kinds /\ NoBuf \notin Buffers /\ MaxArrivals \in Nat

VARIABLES ready,    \* m_blocker's ready flag
          tstate,   \* the NetworkManager thread: "Alive" or "Blocked"
          pc,       \* where the thread is in do_task
          iface,    \* the adapter the for loop is at
          cur,      \* the packet being handled
          queue,    \* each adapter's queue of filled buffers
          used,     \* packet->used
          data,     \* what each buffer holds: [id, kind]
          arrived,  \* frames received so far; the last one's id
          taken,    \* id of the packet the thread dequeued
          handled,  \* ids of the packets handle_packet has run on
          replies   \* ids of the packets answered with an ARP reply

vars == <<ready, tstate, pc, iface, cur, queue, used, data, arrived, taken, handled, replies>>

Init == /\ ready = FALSE /\ tstate = "Alive" /\ pc = "block"
        /\ iface = 1 /\ cur = NoBuf
        /\ queue = [i \in 1 .. NIfaces |-> <<>>]
        /\ used = [b \in Buffers |-> FALSE]
        /\ data = [b \in Buffers |-> [id |-> 0, kind |-> ArpRequest]]
        /\ arrived = 0 /\ taken = 0 /\ handled = {} /\ replies = {}

(* An adapter's interrupt: a frame of kind k lands in unused buffer b,    *)
(* which is queued, and wakeup() sets m_blocker ready.                    *)
Receive(b, k) ==
    /\ ~used[b] /\ arrived < MaxArrivals
    /\ used' = [used EXCEPT ![b] = TRUE]
    /\ data' = [data EXCEPT ![b] = [id |-> arrived + 1, kind |-> k]]
    /\ queue' = [queue EXCEPT ![BufIface[b]] = Append(@, b)]
    /\ arrived' = arrived + 1
    /\ ready' = TRUE
    /\ UNCHANGED <<tstate, pc, iface, cur, taken, handled, replies>>

(* current_thread()->block(m_blocker). *)
Block == /\ pc = "block" /\ tstate = "Alive"
         /\ tstate' = "Blocked" /\ pc' = "clear"
         /\ UNCHANGED <<ready, iface, cur, queue, used, data, arrived, taken, handled, replies>>

(* The unblock pass of TaskManager::preempt: a blocked thread whose       *)
(* blocker is ready is made Alive.                                        *)
Wake == /\ tstate = "Blocked" /\ ready
        /\ tstate' = "Alive"
        /\ UNCHANGED <<ready, pc, iface, cur, queue, used, data, arrived, taken, handled, replies>>

ClearFromZero == /\ pc = "clear" /\ tstate = "Alive"
                 /\ ready' = FALSE /\ pc' = "scan" /\ iface' = 0
                 /\ UNCHANGED <<tstate, cur, queue, used, data, arrived, taken, handled, replies>>
(* m_blocker.set_ready(false), then the for loop starts at the first adapter. *)
Clear == /\ pc = "clear" /\ tstate = "Alive"
         /\ ready' = FALSE /\ pc' = "scan" /\ iface' = 1
         /\ UNCHANGED <<tstate, cur, queue, used, data, arrived, taken, handled, replies>>

DequeueAndFree ==
    /\ pc = "scan" /\ iface <= NIfaces /\ queue[iface] # <<>>
    /\ cur' = Head(queue[iface]) /\ queue' = [queue EXCEPT ![iface] = Tail(@)]
    /\ taken' = data[Head(queue[iface])].id /\ pc' = "handle"
    /\ used' = [used EXCEPT ![Head(queue[iface])] = FALSE]
    /\ UNCHANGED <<ready, tstate, iface, data, arrived, handled, replies>>
(* packet = iface->dequeue_packet() returned a packet. *)
Dequeue ==
    /\ pc = "scan" /\ iface <= NIfaces /\ queue[iface] # <<>>
    /\ cur' = Head(queue[iface]) /\ queue' = [queue EXCEPT ![iface] = Tail(@)]
    /\ taken' = data[Head(queue[iface])].id /\ pc' = "handle"
    /\ UNCHANGED <<ready, tstate, iface, used, data, arrived, handled, replies>>

(* dequeue_packet() returned null: the for loop moves to the next adapter. *)
NextIface == /\ pc = "scan" /\ iface <= NIfaces /\ queue[iface] = <<>>
             /\ iface' = iface + 1
             /\ UNCHANGED <<ready, tstate, pc, cur, queue, used, data, arrived, taken, handled, replies>>

EndScanClearing == /\ pc = "scan" /\ iface > NIfaces
                   /\ pc' = "block" /\ ready' = FALSE
                   /\ UNCHANGED <<tstate, iface, cur, queue, used, data, arrived, taken, handled, replies>>
(* The for loop is done; the while loop blocks again. *)
EndScan == /\ pc = "scan" /\ iface > NIfaces
           /\ pc' = "block"
           /\ UNCHANGED <<ready, tstate, iface, cur, queue, used, data, arrived, taken, handled, replies>>

(* handle_packet's dispatch: only an ARP request gets an answer           *)
(* (send_arp_packet); every other kind is logged or ignored.              *)
Replies(k) == k = ArpRequest

(* handle_packet(iface, packet), on what the buffer holds now. *)
Handle == /\ pc = "handle"
          /\ handled' = handled \cup {data[cur].id}
          /\ replies' = IF Replies(data[cur].kind) THEN replies \cup {data[cur].id} ELSE replies
          /\ pc' = "release"
          /\ UNCHANGED <<ready, tstate, iface, cur, queue, used, data, arrived, taken>>

ReleaseKeepUsed == /\ pc = "release" /\ cur' = NoBuf /\ pc' = "scan"
                   /\ UNCHANGED <<ready, tstate, iface, queue, used, data, arrived, taken, handled, replies>>
(* packet->used = false. *)
Release == /\ pc = "release"
           /\ used' = [used EXCEPT ![cur] = FALSE] /\ cur' = NoBuf /\ pc' = "scan"
           /\ UNCHANGED <<ready, tstate, iface, queue, data, arrived, taken, handled, replies>>

Thread == Block \/ Clear \/ Dequeue \/ NextIface \/ EndScan \/ Handle \/ Release

Next == \/ \E b \in Buffers, k \in Kinds : Receive(b, k)
        \/ Wake
        \/ Thread

Spec == Init /\ [][Next]_vars

(* The thread runs whenever it is Alive (it is a kernel thread in the run *)
(* queue, and the scheduler runs every queued thread), and the timer's    *)
(* preempt runs the unblock pass again and again.                         *)
FairSpec == Spec /\ WF_vars(Thread) /\ WF_vars(Wake)

-----------------------------------------------------------------------------
Range(s) == {s[i] : i \in DOMAIN s}

(* The variables have their types. *)
TypeOK ==
    /\ ready \in BOOLEAN /\ tstate \in {"Alive", "Blocked"}
    /\ pc \in {"block", "clear", "scan", "handle", "release"}
    /\ iface \in 1 .. NIfaces + 1 /\ cur \in Buffers \cup {NoBuf}
    /\ queue \in [1 .. NIfaces -> Seq(Buffers)] /\ used \in [Buffers -> BOOLEAN]
    /\ arrived \in 0 .. MaxArrivals /\ handled \subseteq 1 .. MaxArrivals

(* While handle_packet runs, the buffer still holds the frame that was    *)
(* dequeued: no interrupt refills it, because its used flag is cleared    *)
(* only after the handler returns.                                        *)
PacketNotOverwritten == pc \in {"handle", "release"} => data[cur].id = taken

(* packet->used is set exactly on the buffers that are queued or being    *)
(* handled: none leaks, none is refilled while still owned.               *)
BufferAccounting ==
    \A b \in Buffers :
        used[b] <=> (b \in Range(queue[BufIface[b]]) \/ (pc \in {"handle", "release"} /\ cur = b))

(* Every frame received is eventually handled: a wakeup() can come at any *)
(* point of do_task, and none is lost between the drain and the block.    *)
EveryPacketHandled == \A n \in 1 .. MaxArrivals : (n <= arrived) ~> (n \in handled)
=============================================================================
