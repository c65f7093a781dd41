------------------------------- MODULE LibUI --------------------------------
(***************************************************************************)
(* The event loop of libui (src/libraries/libui/libui.cpp).  An app keeps  *)
(* two std::maps from Pond window ids to its Window objects (windows) and  *)
(* to widgets that have a Pond window of their own (widgets), and counts   *)
(* its windows in num_windows.  UI::run calls update() until should_exit:  *)
(* update repaints every widget of the map, polls the Pond connection, and *)
(* handle_pond_events drains the events the Pond server has queued,       *)
(* dispatching each on its window id.  A std::map lookup with operator[]  *)
(* inserts a null entry for a missing key; the maps are modelled as total  *)
(* functions whose value is Missing (no key), Null (a key holding nullptr) *)
(* or the object.  A Window is named by its id.  The Pond server is not    *)
(* part of the sources: it sends input events for the windows it has open, *)
(* and a destroy event when it closes one, after which it sends no more    *)
(* events for it.  What a handler does is abstracted to whether it         *)
(* returns true (consumed).                                               *)
(***************************************************************************)
EXTENDS Naturals, Sequences, FiniteSets

CONSTANTS WinIds,        \* Pond ids of the app's Windows
          WidIds,        \* Pond ids of widgets registered with __register_widget
          Widgets,       \* widget objects
          Parent,        \* Widget::parent()
          ParentWindow,  \* Widget::parent_window() of a root widget
          WidgetAt,      \* the widget registered under each widget id
          Kinds,         \* the event types the server sends
          MaxEvents,     \* bound on the events the server sends in a run
          NoWidget, NoWindow, Missing, Null

EventKinds == {"key", "move", "button", "scroll", "leave", "destroy", "resize"}
Ids == WinIds \cup WidIds

ASSUME LibUIAssumption ==
    /\ WinIds \cap WidIds = {}
    /\ Parent \in [Widgets -> Widgets \cup {NoWidget}]
    /\ ParentWindow \in [Widgets -> WinIds \cup {NoWindow}]
    /\ WidgetAt \in [WidIds -> Widgets]
    /\ Kinds \subseteq EventKinds /\ MaxEvents \in Nat
    /\ IsFiniteSet(WinIds)
    /\ {Missing, Null} \cap (Ids \cup Widgets \cup {NoWidget, NoWindow}) = {}

VARIABLES windows,      \* std::map<int, Window*> windows
          numWindows,   \* num_windows
          widgets,      \* std::map<int, Widget*> widgets
          shouldExit,   \* should_exit
          pc,           \* where the app's thread is in UI::run / update
          pending,      \* events queued on the Pond connection
          open,         \* ids the server has open
          used,         \* ids the server has handed out
          sent,         \* events sent so far
          last          \* the last event dispatched and the handlers it reached

vars == <<windows, numWindows, widgets, shouldExit, pc, pending, open, used, sent, last>>

(* A map lookup with operator[]: a missing key is inserted with nullptr. *)
Touch(m, id) == IF m[id] = Missing THEN [m EXCEPT ![id] = Null] ELSE m

(* The widget, its parent, and so on up to its root widget. *)
Chain[w \in Widgets] == IF Parent[w] = NoWidget THEN <<w>> ELSE <<w>> \o Chain[Parent[w]]

Call(x, r) == [to |-> x, ret |-> r]

NoEvent == [ev |-> [kind |-> "none", id |-> NoWindow], calls |-> <<>>]

(* The globals and UI::init: no windows, no widgets, the Pond poll added. *)
Init == /\ windows = [id \in Ids |-> Missing] /\ widgets = [id \in Ids |-> Missing]
        /\ numWindows = 0 /\ shouldExit = FALSE /\ pc = "setup"
        /\ pending = <<>> /\ open = {} /\ used = {} /\ sent = 0 /\ last = NoEvent

(* UI::__register_window, called when the app creates a Window: the       *)
(* server hands out a fresh id.  App code runs before UI::run and inside   *)
(* the handlers of handle_pond_events.                                     *)
RegisterWindow(id) ==
    /\ pc \in {"setup", "events"} /\ id \in WinIds \ used
    /\ windows' = [windows EXCEPT ![id] = id] /\ numWindows' = numWindows + 1
    /\ open' = open \cup {id} /\ used' = used \cup {id}
    /\ UNCHANGED <<widgets, shouldExit, pc, pending, sent, last>>

(* UI::__register_widget. *)
RegisterWidget(id) ==
    /\ pc \in {"setup", "events"} /\ id \in WidIds \ used
    /\ widgets' = [widgets EXCEPT ![id] = WidgetAt[id]]
    /\ open' = open \cup {id} /\ used' = used \cup {id}
    /\ UNCHANGED <<windows, numWindows, shouldExit, pc, pending, sent, last>>

(* The Pond server queues an input event for a window it has open, or     *)
(* closes one and queues its destroy event.                               *)
ServerEvent(id, k) ==
    /\ id \in open /\ k \in Kinds /\ sent < MaxEvents
    /\ pending' = Append(pending, [kind |-> k, id |-> id]) /\ sent' = sent + 1
    /\ open' = IF k = "destroy" THEN open \ {id} ELSE open
    /\ UNCHANGED <<windows, numWindows, widgets, shouldExit, pc, used, last>>

-----------------------------------------------------------------------------
(* What the handlers of a widget-window event can be: the loop calls the  *)
(* widget and its parents until one returns true; PEVENT_KEY then calls    *)
(* the root widget once more, and the root's parent_window() gets the      *)
(* event if nobody consumed it.                                            *)
Propagate(w, kind) ==
    LET ch == Chain[w]
        root == ch[Len(ch)]
        win == ParentWindow[root]
        toWin == IF win # NoWindow THEN <<Call(win, FALSE)>> ELSE <<>>
        none == [i \in 1 .. Len(ch) |-> Call(ch[i], FALSE)]
    IN {[i \in 1 .. k |-> Call(ch[i], i = k)] : k \in 1 .. Len(ch)}
       \cup IF kind = "key"
              THEN {none \o <<Call(root, TRUE)>>, none \o <<Call(root, FALSE)>> \o toWin}
              ELSE {none \o toWin}

Deliver(e, calls) == last' = [ev |-> e, calls |-> calls]

(* PEVENT_KEY, PEVENT_MOUSE_MOVE, PEVENT_MOUSE_BUTTON, PEVENT_MOUSE_SCROLL: *)
(* to the window registered under the id, else to the widget registered    *)
(* under it and up its parents.  Both lookups use operator[].  (The button *)
(* case also asks the server to raise the root window: no state here.)     *)
InputEvent(e) ==
    \/ /\ windows[e.id] \in WinIds
       /\ Deliver(e, <<Call(e.id, FALSE)>>) /\ UNCHANGED <<windows, widgets>>
    \/ /\ windows[e.id] \notin WinIds /\ windows' = Touch(windows, e.id)
       /\ \/ /\ widgets[e.id] \in Widgets /\ UNCHANGED widgets
             /\ \E calls \in Propagate(widgets[e.id], e.kind) : Deliver(e, calls)
          \/ /\ widgets[e.id] \notin Widgets /\ widgets' = Touch(widgets, e.id)
             /\ Deliver(e, <<>>)

(* PEVENT_MOUSE_LEAVE: to the window, else to the widget alone. *)
LeaveEvent(e) ==
    \/ /\ windows[e.id] \in WinIds
       /\ Deliver(e, <<Call(e.id, FALSE)>>) /\ UNCHANGED <<windows, widgets>>
    \/ /\ windows[e.id] \notin WinIds /\ windows' = Touch(windows, e.id)
       /\ widgets' = Touch(widgets, e.id)
       /\ Deliver(e, IF widgets[e.id] \in Widgets THEN <<Call(widgets[e.id], FALSE)>> ELSE <<>>)

(* PEVENT_WINDOW_RESIZE: on_resize and repaint of the window; nothing for *)
(* any other id.                                                          *)
ResizeEvent(e) ==
    /\ windows' = Touch(windows, e.id) /\ UNCHANGED widgets
    /\ Deliver(e, IF windows[e.id] \in WinIds THEN <<Call(e.id, FALSE)>> ELSE <<>>)

DeregisterWindowPostDecrement(id) ==
    /\ windows' = [windows EXCEPT ![id] = Missing] /\ numWindows' = numWindows - 1
    /\ shouldExit' = (shouldExit \/ numWindows = 0)
DeregisterWindowKeepEntry(id) ==
    /\ UNCHANGED windows /\ numWindows' = numWindows - 1
    /\ shouldExit' = (shouldExit \/ numWindows - 1 = 0)
(* UI::__deregister_window: erase, and exit once --num_windows is 0. *)
DeregisterWindow(id) ==
    /\ windows' = [windows EXCEPT ![id] = Missing] /\ numWindows' = numWindows - 1
    /\ shouldExit' = (shouldExit \/ numWindows - 1 = 0)

DestroyEventUnchecked(e) ==
    /\ DeregisterWindow(e.id)
    /\ widgets' = IF widgets[e.id] \in Widgets THEN [widgets EXCEPT ![e.id] = Missing]
                  ELSE Touch(widgets, e.id)
    /\ Deliver(e, <<>>)
(* PEVENT_WINDOW_DESTROY: "if(windows[id])" deregisters the window, then  *)
(* "if(widgets[id])" deregisters the widget (__deregister_widget erases). *)
DestroyEvent(e) ==
    /\ \/ /\ windows[e.id] \in WinIds /\ DeregisterWindow(e.id)
       \/ /\ windows[e.id] \notin WinIds /\ windows' = Touch(windows, e.id)
          /\ UNCHANGED <<numWindows, shouldExit>>
    /\ widgets' = IF widgets[e.id] \in Widgets THEN [widgets EXCEPT ![e.id] = Missing]
                  ELSE Touch(widgets, e.id)
    /\ Deliver(e, <<>>)

Handle(e) ==
    \/ /\ e.kind \in {"key", "move", "button", "scroll"} /\ InputEvent(e)
       /\ UNCHANGED <<numWindows, shouldExit>>
    \/ /\ e.kind = "leave" /\ LeaveEvent(e) /\ UNCHANGED <<numWindows, shouldExit>>
    \/ /\ e.kind = "resize" /\ ResizeEvent(e) /\ UNCHANGED <<numWindows, shouldExit>>
    \/ /\ e.kind = "destroy" /\ DestroyEvent(e)

-----------------------------------------------------------------------------
(* UI::run: "while (!should_exit) update(-1)". *)
Run == /\ pc = "setup" /\ pc' = IF shouldExit THEN "exited" ELSE "repaint"
       /\ UNCHANGED <<windows, numWindows, widgets, shouldExit, pending, open, used, sent, last>>

(* update(): repaint_now() on every widget of the map; a nullptr entry    *)
(* makes it run on a null Widget, which crashes the app.                  *)
Repaint == /\ pc = "repaint"
           /\ pc' = IF \E id \in Ids : widgets[id] = Null THEN "crashed" ELSE "poll"
           /\ UNCHANGED <<windows, numWindows, widgets, shouldExit, pending, open, used, sent, last>>

(* poll(pollfds, -1) returns once the Pond connection is readable. *)
Poll == /\ pc = "poll" /\ pending # <<>> /\ pc' = "events"
        /\ UNCHANGED <<windows, numWindows, widgets, shouldExit, pending, open, used, sent, last>>

(* One turn of handle_pond_events' "while(has_event())". *)
Dispatch == /\ pc = "events" /\ pending # <<>>
            /\ pending' = Tail(pending) /\ Handle(Head(pending))
            /\ UNCHANGED <<pc, open, used, sent>>

(* has_event() is false: update returns, and run tests should_exit. *)
Drained == /\ pc = "events" /\ pending = <<>>
           /\ pc' = IF shouldExit THEN "exited" ELSE "repaint"
           /\ UNCHANGED <<windows, numWindows, widgets, shouldExit, pending, open, used, sent, last>>

Loop == Run \/ Repaint \/ Poll \/ Dispatch \/ Drained

Next == \/ \E id \in Ids : RegisterWindow(id) \/ RegisterWidget(id)
        \/ \E id \in Ids, k \in Kinds : ServerEvent(id, k)
        \/ Loop

Spec == Init /\ [][Next]_vars

(* The app's thread runs its loop whenever it can: it is the only thread  *)
(* of libui, and poll returns once an event is queued.  The server and   *)
(* the user are not assumed to act.                                       *)
FairSpec == Spec /\ WF_vars(Loop)

-----------------------------------------------------------------------------
(* The maps, the counter, the loop and the queue have their types. *)
TypeOK ==
    /\ windows \in [Ids -> {Missing, Null} \cup WinIds]
    /\ widgets \in [Ids -> {Missing, Null} \cup Widgets]
    /\ numWindows \in 0 .. Cardinality(WinIds) /\ shouldExit \in BOOLEAN
    /\ pc \in {"setup", "repaint", "poll", "events", "exited", "crashed"}
    /\ pending \in Seq([kind : Kinds, id : Ids])
    /\ open \subseteq used /\ used \subseteq Ids /\ sent \in 0 .. MaxEvents

(* num_windows counts exactly the live entries of windows, whatever       *)
(* destroy events for widget ids, repeated lookups and null insertions    *)
(* have done to the map.                                                  *)
WindowCount == numWindows = Cardinality({id \in Ids : windows[id] \in WinIds})

(* "Propagate the event through parent widgets / window as appropriate"  *)
(* (handle_pond_events): an input event on a widget's window reaches the *)
(* widget, then each parent in turn, then the root's window, and no       *)
(* handler is called twice for one event (the mouse events do so).       *)
HandlerCalledOnce ==
    \A i, j \in 1 .. Len(last.calls) : last.calls[i].to = last.calls[j].to => i = j

(* Once every window the app opened has been destroyed, UI::run returns.  *)
AppExitsAfterLastWindow ==
    (used \cap WinIds # {} /\ \A id \in Ids : windows[id] \notin WinIds) ~> (pc = "exited")

(* The repaint pass at the top of update() only meets live widgets: a     *)
(* nullptr entry in widgets would have repaint_now() called on null.      *)
RepaintOnlyLiveWidgets == pc = "repaint" => \A id \in Ids : widgets[id] # Null
=============================================================================
