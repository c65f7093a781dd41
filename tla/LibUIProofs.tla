------------------------------ MODULE LibUIProofs ------------------------------
(***************************************************************************)
(* Proofs about the window bookkeeping of libui, for every set of window   *)
(* and widget ids, of widgets, and every bound on the events.              *)
(*  - The type invariant, and WindowCount: num_windows is the number of    *)
(*    live entries of the windows map, whatever the destroy events of      *)
(*    widget ids and the null insertions of operator[] have done to it.    *)
(* Neither is inductive alone.  The inductive invariant IInv adds that a   *)
(* live entry holds the Window registered under its own id, an id the      *)
(* server has handed out: so a fresh id has no live entry when             *)
(* __register_window counts it, and the live entries are a subset of the   *)
(* finite WinIds, which bounds num_windows.                                *)
(***************************************************************************)
EXTENDS LibUI, FiniteSetTheorems, TLAPS

(* The ids whose entry in a windows map m is a live Window. *)
LiveWins(m) == {id \in Ids : m[id] \in WinIds}

(* Every live entry holds the Window of its own id, handed out earlier. *)
LiveOwnId == \A id \in Ids : windows[id] \in WinIds => windows[id] = id /\ id \in used

IInv == TypeOK /\ WindowCount /\ LiveOwnId

EventRec == [kind : Kinds, id : Ids]

-----------------------------------------------------------------------------
(* A lookup with operator[] keeps the type of a map, and never makes an    *)
(* entry live or dead: it only inserts nullptr.                            *)
LEMMA TouchKeepsLive ==
    ASSUME NEW S, NEW m \in [Ids -> S], NEW k \in Ids, Null \in S
    PROVE  /\ Touch(m, k) \in [Ids -> S]
           /\ \A x \in Ids : Touch(m, k)[x] \in WinIds <=> m[x] \in WinIds
  <1>1. Missing \notin WinIds /\ Null \notin WinIds
    BY LibUIAssumption DEF Ids
  <1>2. CASE m[k] = Missing
    BY <1>1, <1>2 DEF Touch
  <1>3. CASE m[k] # Missing
    BY <1>3 DEF Touch
  <1>4. QED
    BY <1>2, <1>3

(* Two maps with the same live ids have the same live entries. *)
LEMMA SameLive ==
    ASSUME NEW m, NEW n, \A x \in Ids : m[x] \in WinIds <=> n[x] \in WinIds
    PROVE  LiveWins(m) = LiveWins(n)
  BY DEF LiveWins

(* When every live entry holds its own id, the live entries are a finite   *)
(* subset of WinIds, so their number is at most Cardinality(WinIds).      *)
LEMMA LiveBound ==
    ASSUME NEW m \in [Ids -> {Missing, Null} \cup WinIds],
           \A id \in Ids : m[id] \in WinIds => m[id] = id
    PROVE  /\ IsFiniteSet(LiveWins(m))
           /\ Cardinality(LiveWins(m)) \in 0 .. Cardinality(WinIds)
  <1>1. LiveWins(m) \subseteq WinIds
    BY DEF LiveWins
  <1>2. IsFiniteSet(LiveWins(m)) /\ Cardinality(LiveWins(m)) <= Cardinality(WinIds)
    BY <1>1, LibUIAssumption, FS_Subset
  <1>3. Cardinality(LiveWins(m)) \in Nat
    BY <1>2, FS_CardinalityType
  <1>4. QED
    BY <1>2, <1>3

(* What handling one event does to the windows map and the counter: a     *)
(* lookup only, or the deregistration of a live window.                   *)
LEMMA HandleWindows ==
    ASSUME NEW e \in EventRec, shouldExit \in BOOLEAN, Handle(e)
    PROVE  /\ \/ windows' = Touch(windows, e.id) /\ numWindows' = numWindows
              \/ windows' = windows /\ numWindows' = numWindows
              \/ /\ windows[e.id] \in WinIds
                 /\ windows' = [windows EXCEPT ![e.id] = Missing]
                 /\ numWindows' = numWindows - 1
           /\ \/ widgets' = widgets
              \/ widgets' = Touch(widgets, e.id)
              \/ widgets' = [widgets EXCEPT ![e.id] = Missing]
           /\ shouldExit' \in BOOLEAN
  <1>1. CASE e.kind \in {"key", "move", "button", "scroll"} /\ InputEvent(e)
             /\ UNCHANGED <<numWindows, shouldExit>>
    BY <1>1 DEF InputEvent
  <1>2. CASE e.kind = "leave" /\ LeaveEvent(e) /\ UNCHANGED <<numWindows, shouldExit>>
    BY <1>2 DEF LeaveEvent
  <1>3. CASE e.kind = "resize" /\ ResizeEvent(e) /\ UNCHANGED <<numWindows, shouldExit>>
    BY <1>3 DEF ResizeEvent
  <1>4. CASE e.kind = "destroy" /\ DestroyEvent(e)
    BY <1>4 DEF DestroyEvent, DeregisterWindow
  <1>5. QED
    BY <1>1, <1>2, <1>3, <1>4 DEF Handle

-----------------------------------------------------------------------------
(* IInv holds in the initial state: both maps empty, no window counted. *)
LEMMA IInvInit == Init => IInv
  <1> SUFFICES ASSUME Init PROVE IInv
    OBVIOUS
  <1>1. LiveWins(windows) = {}
    BY LibUIAssumption DEF Init, LiveWins, Ids
  <1>2. Cardinality(LiveWins(windows)) = 0
    BY <1>1, FS_EmptySet
  <1>3. Cardinality(WinIds) \in Nat
    BY LibUIAssumption, FS_CardinalityType
  <1>4. TypeOK
    <2>1. pending \in Seq([kind : Kinds, id : Ids])
      BY DEF Init
    <2>2. windows \in [Ids -> {Missing, Null} \cup WinIds]
          /\ widgets \in [Ids -> {Missing, Null} \cup Widgets]
      BY DEF Init
    <2>3. numWindows \in 0 .. Cardinality(WinIds)
      BY <1>3 DEF Init
    <2>4. sent \in 0 .. MaxEvents
      BY LibUIAssumption DEF Init
    <2>5. QED
      BY <2>1, <2>2, <2>3, <2>4 DEF Init, TypeOK
  <1>5. QED
    BY <1>2, <1>4, LibUIAssumption DEF Init, IInv, WindowCount, LiveOwnId, LiveWins, Ids

(* A step that leaves the live entries as they were keeps num_windows     *)
(* counting them and within its bound.                                    *)
LEMMA CountKept ==
    ASSUME IInv, windows' \in [Ids -> {Missing, Null} \cup WinIds],
           \A id \in Ids : windows'[id] \in WinIds => windows'[id] = id,
           LiveWins(windows') = LiveWins(windows), numWindows' = numWindows
    PROVE  WindowCount' /\ numWindows' \in 0 .. Cardinality(WinIds)
  BY DEF IInv, TypeOK, WindowCount, LiveWins

(* Every step keeps IInv. *)
LEMMA IInvStep == IInv /\ [Next]_vars => IInv'
  <1> SUFFICES ASSUME IInv, [Next]_vars PROVE IInv'
    OBVIOUS
  <1> DEFINE WinT == {Missing, Null} \cup WinIds
             WidT == {Missing, Null} \cup Widgets
  <1>1. ASSUME NEW id \in Ids, RegisterWindow(id) PROVE IInv'
    <2>1. id \notin LiveWins(windows)
      BY <1>1 DEF RegisterWindow, IInv, LiveOwnId, LiveWins
    <2>2. LiveWins(windows') = LiveWins(windows) \cup {id}
      BY <1>1 DEF RegisterWindow, IInv, TypeOK, LiveWins
    <2>3. IsFiniteSet(LiveWins(windows))
      BY LiveBound DEF IInv, TypeOK, LiveOwnId
    <2>4. Cardinality(LiveWins(windows')) = Cardinality(LiveWins(windows)) + 1
      BY <2>1, <2>2, <2>3, FS_AddElement
    <2>5. WindowCount'
      BY <1>1, <2>4 DEF RegisterWindow, IInv, WindowCount, LiveWins
    <2>6. windows' \in [Ids -> WinT] /\ LiveOwnId'
      BY <1>1 DEF RegisterWindow, IInv, TypeOK, LiveOwnId
    <2>7. numWindows' \in 0 .. Cardinality(WinIds)
      BY <2>5, <2>6, LiveBound DEF WindowCount, LiveWins, LiveOwnId
    <2>8. QED
      BY <1>1, <2>5, <2>6, <2>7 DEF RegisterWindow, IInv, TypeOK
  <1>2. ASSUME NEW id \in Ids, RegisterWidget(id) PROVE IInv'
    BY <1>2, LibUIAssumption DEF RegisterWidget, IInv, TypeOK, WindowCount, LiveOwnId
  <1>3. ASSUME NEW id \in Ids, NEW k \in Kinds, ServerEvent(id, k) PROVE IInv'
    <2>1. pending' \in Seq([kind : Kinds, id : Ids])
      BY <1>3 DEF ServerEvent, IInv, TypeOK
    <2>2. sent' \in 0 .. MaxEvents
      BY <1>3, LibUIAssumption DEF ServerEvent, IInv, TypeOK
    <2>8. open' \subseteq used'
      BY <1>3 DEF ServerEvent, IInv, TypeOK
    <2>3. UNCHANGED <<windows, numWindows, widgets, shouldExit, pc, used>>
      BY <1>3 DEF ServerEvent
    <2>4. TypeOK'
      BY <2>1, <2>2, <2>8, <2>3 DEF IInv, TypeOK
    <2>5. WindowCount'
      BY <2>3 DEF IInv, WindowCount
    <2>6. LiveOwnId'
      BY <2>3 DEF IInv, LiveOwnId
    <2>7. QED
      BY <2>4, <2>5, <2>6 DEF IInv
  <1>4. CASE Run \/ Repaint \/ Poll \/ Drained
    BY <1>4 DEF Run, Repaint, Poll, Drained, IInv, TypeOK, WindowCount, LiveOwnId
  <1>5. CASE Dispatch
    <2> DEFINE e == Head(pending)
    <2>1. e \in EventRec /\ pending' = Tail(pending) /\ Handle(e)
          /\ UNCHANGED <<pc, open, used, sent>>
      <3>1. pending # <<>> /\ pending \in Seq(EventRec)
        BY <1>5 DEF Dispatch, IInv, TypeOK, EventRec
      <3>2. e \in EventRec
        BY <3>1
      <3>3. QED
        BY <1>5, <3>2 DEF Dispatch
    <2>2. pending' \in Seq(EventRec)
      BY <1>5, <2>1 DEF Dispatch, IInv, TypeOK, EventRec
    <2>3. widgets' \in [Ids -> WidT]
      <3>1. CASE widgets' = Touch(widgets, e.id)
        BY <2>1, <3>1, TouchKeepsLive DEF IInv, TypeOK, EventRec
      <3>2. QED
        BY <2>1, <3>1, HandleWindows DEF IInv, TypeOK, EventRec
    <2>4. shouldExit' \in BOOLEAN
      BY <2>1, HandleWindows DEF IInv, TypeOK
    <2>5. windows' \in [Ids -> WinT] /\ LiveOwnId'
          /\ WindowCount' /\ numWindows' \in 0 .. Cardinality(WinIds)
      <3>1. CASE windows' = Touch(windows, e.id) /\ numWindows' = numWindows
        <4>1. Null \in WinT /\ e.id \in Ids /\ windows \in [Ids -> WinT]
          BY <2>1 DEF IInv, TypeOK, EventRec
        <4>2. windows' \in [Ids -> WinT]
          BY <3>1, <4>1, TouchKeepsLive
        <4>3. \A x \in Ids : windows'[x] \in WinIds <=> windows[x] \in WinIds
          BY <3>1, <4>1, TouchKeepsLive
        <4>4. Missing \notin WinIds
          BY LibUIAssumption DEF Ids
        <4>5. \A x \in Ids : windows[x] \in WinIds => windows'[x] = windows[x]
          BY <3>1, <4>1, <4>4 DEF Touch
        <4>6. LiveOwnId'
          BY <2>1, <4>3, <4>5 DEF IInv, LiveOwnId
        <4>7. LiveWins(windows') = LiveWins(windows)
          BY <4>3, SameLive
        <4>8. QED
          BY <3>1, <4>2, <4>6, <4>7, CountKept DEF LiveOwnId
      <3>2. CASE windows' = windows /\ numWindows' = numWindows
        BY <2>1, <3>2, CountKept DEF IInv, TypeOK, LiveOwnId
      <3>3. CASE /\ windows[e.id] \in WinIds
                 /\ windows' = [windows EXCEPT ![e.id] = Missing]
                 /\ numWindows' = numWindows - 1
        <4>1. Missing \notin WinIds
          BY LibUIAssumption DEF Ids
        <4>2. e.id \in LiveWins(windows)
          BY <2>1, <3>3 DEF EventRec, LiveWins
        <4>3. LiveWins(windows') = LiveWins(windows) \ {e.id}
          BY <2>1, <3>3, <4>1 DEF IInv, TypeOK, LiveWins, EventRec
        <4>4. IsFiniteSet(LiveWins(windows))
          BY LiveBound DEF IInv, TypeOK, LiveOwnId
        <4>5. Cardinality(LiveWins(windows')) = Cardinality(LiveWins(windows)) - 1
          BY <4>2, <4>3, <4>4, FS_RemoveElement
        <4>6. WindowCount'
          BY <3>3, <4>5 DEF IInv, WindowCount, LiveWins
        <4>7. windows' \in [Ids -> WinT] /\ LiveOwnId'
          BY <2>1, <3>3, <4>1 DEF IInv, TypeOK, LiveOwnId, EventRec
        <4>8. numWindows' \in 0 .. Cardinality(WinIds)
          BY <4>6, <4>7, LiveBound DEF WindowCount, LiveWins, LiveOwnId
        <4>9. QED
          BY <4>6, <4>7, <4>8
      <3>4. QED
        BY <2>1, <3>1, <3>2, <3>3, HandleWindows DEF IInv, TypeOK
    <2>6. QED
      BY <2>1, <2>2, <2>3, <2>4, <2>5 DEF IInv, TypeOK, EventRec
  <1>6. CASE UNCHANGED vars
    BY <1>6 DEF vars, IInv, TypeOK, WindowCount, LiveOwnId
  <1>7. QED
    BY <1>1, <1>2, <1>3, <1>4, <1>5, <1>6 DEF Next, Loop

-----------------------------------------------------------------------------
(* The maps, the counter, the loop and the queue keep their types in     *)
(* every reachable state of the libui event loop.                         *)
THEOREM LibUITypeCorrect == Spec => []TypeOK
  <1>1. Spec => []IInv
    BY IInvInit, IInvStep, PTL DEF Spec
  <1>2. QED
    BY <1>1, PTL DEF IInv

(* num_windows always counts exactly the live entries of the windows map, *)
(* through every interleaving of registrations, server events and the    *)
(* handlers of handle_pond_events.                                        *)
THEOREM WindowCountHolds == Spec => []WindowCount
  <1>1. Spec => []IInv
    BY IInvInit, IInvStep, PTL DEF Spec
  <1>2. QED
    BY <1>1, PTL DEF IInv

==============================================================================
