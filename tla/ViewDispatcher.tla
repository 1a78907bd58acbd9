--------------------------- MODULE ViewDispatcher ---------------------------
(***************************************************************************)
(* An application's view dispatcher, applications/gui/view_dispatcher.c,   *)
(* behind the gui and the input service.  The gui thread puts input events *)
(* in the dispatcher's queue, holding gui->mutex and waiting while the     *)
(* queue is full; the application's thread takes them out in               *)
(* view_dispatcher_run, gives them to its views, and after a stop goes on  *)
(* until every key it has seen go down has been released.                  *)
(*                                                                         *)
(* The application allocates a dispatcher, adds its views, runs it, removes*)
(* the views and frees it, again and again.  What its views and callbacks  *)
(* do with an event is free: nothing, switch to a view, close (VIEW_NONE)  *)
(* or stop.  The other view ports belong to other threads, which take the  *)
(* events the gui gives them.                                              *)
(***************************************************************************)
EXTENDS Gui

CONSTANTS Views,
          FirstView,      \* the view the application starts with
          VerticalViews,  \* views with ViewOrientationVertical
          App,            \* the dispatcher's view port, fullscreen
          Desktop,        \* another one: the desktop's
          Menu,           \* and the loader's menu, fullscreen
          QueueSize,      \* of the dispatcher's queue: 16
          MaxEvents       \* bound: steps of the environment in a behaviour

ASSUME ViewDispatcherAssumption ==
    /\ {App, Desktop, Menu} = ViewPorts
    /\ App # Desktop /\ App # Menu /\ Desktop # Menu
    /\ FirstView \in Views
    /\ VerticalViews \subseteq Views
    /\ NULL \notin Views \cup ViewPorts
    /\ QueueSize \in Nat \ {0}
    /\ MaxEvents \in Nat

VARIABLES app,                 \* where the application's thread is
          views,               \* view_dispatcher->views
          current_view,
          ongoing_input_view,
          vd_ongoing_input,    \* view_dispatcher->ongoing_input
          queue,               \* view_dispatcher->queue
          events               \* steps of the environment so far: presses,
                               \* Longs, Repeats, custom events, ticks, and
                               \* what other threads do

dispatcherVars == <<app, views, current_view, ongoing_input_view,
                    vd_ongoing_input, queue>>
vars == <<keyVars, guiVars, dispatcherVars, events>>

Stop == [type |-> "Stop"]
Custom == [type |-> "Custom"]
Input(e) == [type |-> "Input", event |-> e]

\* A step of the environment.
Counted == events < MaxEvents /\ events' = events + 1

\* The system is up, with the keys up and no application of this kind yet.
VDInit ==
    /\ KeyInit /\ stage = [k \in Keys |-> "up"]
    /\ layers = [Desktop |-> <<Desktop>>, Window |-> <<>>,
                 Fullscreen |-> <<Menu>>]
    /\ is_enabled = [p \in ViewPorts |-> p = Desktop]
    /\ vertical = [p \in ViewPorts |-> FALSE]
    /\ attached = [p \in ViewPorts |-> p # App]
    /\ gui_alloc
    /\ app = "none"
    /\ views = {}
    /\ current_view = NULL
    /\ ongoing_input_view = NULL
    /\ vd_ongoing_input = {}
    /\ queue = <<>>
    /\ events = 0

-----------------------------------------------------------------------------
(* The gui thread in the view ports' input callbacks *)

\* The dispatcher's: the message waits for room in the queue.
view_dispatcher_input_callback ==
    /\ gui_target = App
    /\ Len(queue) < QueueSize
    /\ queue' = Append(queue, Input(gui_event))
    /\ gui_unlock
    /\ UNCHANGED <<events, app, views, current_view, ongoing_input_view,
                   vd_ongoing_input>>

OtherInputCallback ==
    /\ gui_target \in {Desktop, Menu}
    /\ gui_unlock
    /\ UNCHANGED <<dispatcherVars, events>>

\* Another thread of the application.
view_dispatcher_send_custom_event ==
    /\ app = "run"
    /\ Counted
    /\ Len(queue) < QueueSize
    /\ queue' = Append(queue, Custom)
    /\ UNCHANGED <<keyVars, guiVars, app, views, current_view,
                   ongoing_input_view, vd_ongoing_input>>

-----------------------------------------------------------------------------
(* The application's thread *)

\* What the gui keeps while the application's thread works on view ports.
guiNow == <<keyVars, lockdown, ongoing_input, gui_mutex, gui, gui_event,
            gui_target>>
guiRest == <<guiNow, events>>

\* view_dispatcher_set_current_view, the queue being q: entering a view sets
\* the view port's orientation, and leaving the last one sends a stop.
SetWithoutStop(v, q) ==
    /\ current_view' = v
    /\ view_port_enabled_set(App, v # NULL)
    /\ vertical' = IF v = NULL THEN vertical
                   ELSE [vertical EXCEPT ![App] = v \in VerticalViews]
    /\ queue' = q

view_dispatcher_set_current_view(v, q) ==
    /\ current_view' = v
    /\ view_port_enabled_set(App, v # NULL)
    /\ vertical' = IF v = NULL THEN vertical
                   ELSE [vertical EXCEPT ![App] = v \in VerticalViews]
    /\ \/ /\ v = NULL
          /\ Len(q) < QueueSize
          /\ queue' = Append(q, Stop)
       \/ /\ v # NULL
          /\ queue' = q

\* What a view or a callback of the application does before it returns; it
\* does not stop a dispatcher that has a stop in its queue already.
Reaction(q) ==
    \/ /\ queue' = q
       /\ UNCHANGED <<current_view, is_enabled, vertical>>
    \/ \E v \in views \cup {NULL} : view_dispatcher_set_current_view(v, q)
    \/ /\ Len(q) < QueueSize                       \* view_dispatcher_stop
       /\ Stop \notin ToSet(q)
       /\ queue' = Append(q, Stop)
       /\ UNCHANGED <<current_view, is_enabled, vertical>>

\* view_dispatcher_alloc, enable_queue and attach_to_gui.
view_dispatcher_attach_to_gui ==
    /\ app = "none"
    /\ app' = "setup"
    /\ gui_add_view_port(App, "Fullscreen")
    /\ view_port_enabled_set(App, FALSE)
    /\ vertical' = [vertical EXCEPT ![App] = FALSE]
    /\ UNCHANGED <<guiRest, ongoing_input_view_port, views, current_view,
                   ongoing_input_view, vd_ongoing_input, queue>>

view_dispatcher_add_view(v) ==
    /\ app = "setup"
    /\ v \notin views
    /\ ~gui_mutex
    /\ views' = views \cup {v}
    /\ UNCHANGED <<keyVars, events, guiVars, app, current_view,
                   ongoing_input_view, vd_ongoing_input, queue>>

view_dispatcher_switch_to_view ==
    /\ app = "setup"
    /\ views = Views
    /\ app' = "run"
    /\ view_dispatcher_set_current_view(FirstView, queue)
    /\ UNCHANGED <<guiRest, layers, attached, ongoing_input_view_port, views,
                   ongoing_input_view, vd_ongoing_input>>

\* A press of the first key chooses the view; its events go to it as long as
\* it is the current one, a release always.
view_dispatcher_handle_input(e, q) ==
    LET ongoing == Pressed(e, vd_ongoing_input)
        view == IF ongoing \ {e.key} = {} /\ e.type = "Press"
                THEN current_view ELSE ongoing_input_view
    IN  /\ vd_ongoing_input' = ongoing
        /\ IF ~Complementary(e, ongoing)
           THEN /\ queue' = q
                /\ UNCHANGED <<ongoing_input_view, current_view, is_enabled,
                               vertical>>
           ELSE /\ ongoing_input_view' = view
                /\ IF \/ current_view # NULL /\ view = current_view
                      \/ view # NULL /\ e.type = "Release"
                   THEN Reaction(q)
                   ELSE /\ queue' = q
                        /\ UNCHANGED <<current_view, is_enabled, vertical>>

\* The wait for a message times out.
view_dispatcher_handle_tick_event ==
    /\ app = "run"
    /\ queue = <<>>
    /\ Counted
    /\ Reaction(queue)
    /\ UNCHANGED <<guiNow, layers, attached, ongoing_input_view_port, app,
                   views, vd_ongoing_input, ongoing_input_view>>

\* view_dispatcher_run: the next message.
view_dispatcher_run ==
    /\ app = "run"
    /\ queue # <<>>
    /\ LET m == Head(queue)
           q == Tail(queue)
       IN  \/ /\ m.type = "Stop"
              /\ app' = "drain"
              /\ queue' = q
              /\ UNCHANGED <<vd_ongoing_input, ongoing_input_view,
                             current_view, is_enabled, vertical>>
           \/ /\ m.type = "Input"
              /\ view_dispatcher_handle_input(m.event, q)
              /\ UNCHANGED app
           \/ /\ m.type = "Custom"
              /\ Reaction(q)
              /\ UNCHANGED <<app, vd_ongoing_input, ongoing_input_view>>
    /\ UNCHANGED <<guiRest, layers, attached, ongoing_input_view_port, views>>

\* "Wait till all input events delivered", then return.
Drain ==
    /\ app = "drain"
    /\ \/ /\ vd_ongoing_input = {}
          /\ app' = "stopped"
          /\ UNCHANGED <<vd_ongoing_input, queue>>
       \/ /\ vd_ongoing_input # {}
          /\ queue # <<>>
          /\ queue' = Tail(queue)
          /\ vd_ongoing_input' = IF Head(queue).type = "Input"
                                 THEN Pressed(Head(queue).event, vd_ongoing_input)
                                 ELSE vd_ongoing_input
          /\ UNCHANGED app
    /\ UNCHANGED <<keyVars, events, guiVars, views, current_view,
                   ongoing_input_view>>

RemoveKeepsOngoingView(v) ==
    /\ app = "stopped"
    /\ v \in views
    /\ ~gui_mutex
    /\ views' = views \ {v}
    /\ IF current_view = v
       THEN view_dispatcher_set_current_view(NULL, queue)
       ELSE UNCHANGED <<current_view, is_enabled, vertical, queue>>
    /\ UNCHANGED <<guiRest, layers, attached, ongoing_input_view_port, app,
                   vd_ongoing_input, ongoing_input_view>>

\* Under the gui's mutex; removing the current view sends one more stop.
view_dispatcher_remove_view(v) ==
    /\ app = "stopped"
    /\ v \in views
    /\ ~gui_mutex
    /\ views' = views \ {v}
    /\ IF current_view = v
       THEN view_dispatcher_set_current_view(NULL, queue)
       ELSE UNCHANGED <<current_view, is_enabled, vertical, queue>>
    /\ ongoing_input_view' =
          IF ongoing_input_view = v THEN NULL ELSE ongoing_input_view
    /\ UNCHANGED <<guiRest, layers, attached, ongoing_input_view_port, app,
                   vd_ongoing_input>>

view_dispatcher_free ==
    /\ app = "stopped"
    /\ views = {}
    /\ gui_remove_view_port(App)
    /\ app' = "none"
    /\ queue' = <<>>
    /\ vd_ongoing_input' = {}
    /\ UNCHANGED <<guiRest, is_enabled, vertical, views, current_view,
                   ongoing_input_view>>

-----------------------------------------------------------------------------
\* The user and the input service, within the bounds.
Presses(k) == Counted /\ Down(k) /\ UNCHANGED <<guiVars, dispatcherVars>>
Holds(k) ==
    /\ Counted
    /\ Long(k) \/ Repeat(k)
    /\ UNCHANGED <<guiVars, dispatcherVars>>
Follows(k) == (Up(k) \/ Due(k)) /\ UNCHANGED <<guiVars, dispatcherVars, events>>

GuiStep ==
    \/ gui_input /\ UNCHANGED <<dispatcherVars, events>>
    \/ view_dispatcher_input_callback
    \/ OtherInputCallback

OtherStep ==
    /\ Counted
    /\ OtherThread(Menu) \/ SystemLocks
    /\ UNCHANGED dispatcherVars

AppRuns == view_dispatcher_run \/ Drain

AppStep ==
    \/ view_dispatcher_attach_to_gui
    \/ \E v \in Views : view_dispatcher_add_view(v) \/ view_dispatcher_remove_view(v)
    \/ view_dispatcher_switch_to_view
    \/ AppRuns
    \/ view_dispatcher_handle_tick_event
    \/ view_dispatcher_free

VDNext ==
    \/ \E k \in Keys : Presses(k) \/ Holds(k) \/ Follows(k)
    \/ GuiStep
    \/ OtherStep
    \/ view_dispatcher_send_custom_event
    \/ AppStep

\* The threads run, and no key is held down for ever; nobody has to press one,
\* and no timer, application or other thread has to do anything.
VDFairness ==
    /\ WF_vars(\E k \in Keys : Follows(k))
    /\ WF_vars(GuiStep)
    /\ WF_vars(AppRuns)

VDSpec == VDInit /\ [][VDNext]_vars /\ VDFairness

-----------------------------------------------------------------------------
(* Properties *)

\* The state of the three services is well formed and the queues keep to their
\* sizes.
VDTypeOK ==
    /\ Len(input_queue) <= InputQueueSize
    /\ \A i \in DOMAIN input_queue : input_queue[i] \in InputEvent
    /\ ongoing_input \subseteq Keys
    /\ gui \in {"wait", "deliver"}
    /\ gui_mutex <=> gui = "deliver"
    /\ gui_event \in InputEvent \cup {NULL}
    /\ gui_target \in ViewPorts \cup {NULL}
    /\ app \in {"none", "setup", "run", "drain", "stopped"}
    /\ Len(queue) <= QueueSize
    /\ vd_ongoing_input \subseteq InputKey

\* The dispatcher's notes of who gets input name views it still has: none is
\* called after view_dispatcher_remove_view, when its owner frees it.  So do the
\* gui's of view ports.
NoStaleView ==
    /\ VDTypeOK
    /\ NoStaleViewPort
    /\ current_view # NULL => current_view \in views
    /\ ongoing_input_view # NULL => ongoing_input_view \in views

Releases(s, k) == \E i \in DOMAIN s :
    s[i].type = "Input" /\ s[i].event = Event(k, "Release")

\* A key that the dispatcher has seen go down will be seen to go up: its
\* release is in the queue or on its way, or the key is down and the gui will
\* send its release here, whoever is on top by then.  The wait at the end of
\* view_dispatcher_run (view_dispatcher.c:97) relies on it.
ReleaseOnItsWay ==
    app \in {"run", "drain"} => \A k \in vd_ongoing_input :
        \/ Releases(queue, k)
        \/ gui = "deliver" /\ gui_target = App /\ gui_event = Event(k, "Release")
        \/ ongoing_input_view_port = App /\ k \in ongoing_input

\* The invariants behind them.  The dispatcher's view port is in the gui from
\* attach to free.
Messages == {Stop, Custom} \cup {Input(e) : e \in InputEvent}

KeysTypeOK ==
    /\ stage \in [Keys -> {"up", "press", "down", "short", "release"}]
    /\ long \in [Keys -> BOOLEAN]
    /\ input_queue \in Seq([key : Keys, type : InputType])
    /\ Len(input_queue) <= InputQueueSize

AppConsistent ==
    /\ app \in {"none", "setup", "run", "drain", "stopped"}
    /\ attached[App] <=> app # "none"
    /\ views \subseteq Views
    /\ {current_view, ongoing_input_view} \subseteq views \cup {NULL}
    /\ vd_ongoing_input \subseteq InputKey
    /\ queue \in Seq(Messages)
    /\ Len(queue) <= QueueSize

VDInv == KeysTypeOK /\ PortsConsistent /\ AppConsistent

\* The release of k comes after message i of the queue.
Comes(k, i) ==
    \/ \E j \in i + 1 .. Len(queue) : queue[j] = Input(Event(k, "Release"))
    \/ gui_target = App /\ gui_event = Event(k, "Release")
    \/ ongoing_input_view_port = App /\ k \in ongoing_input

\* It does for every press the dispatcher has seen or will see.
ReleasesCome ==
    \A k \in InputKey :
        /\ k \in vd_ongoing_input => Comes(k, 0)
        /\ \A i \in 1 .. Len(queue) : queue[i] = Input(Event(k, "Press")) => Comes(k, i)
        /\ gui_target = App /\ gui_event = Event(k, "Press") =>
             ongoing_input_view_port = App /\ k \in ongoing_input

ReleaseInv ==
    /\ \A p \in ViewPorts : ~vertical[p]
    /\ KeysInTurn
    /\ ReleasesCome

\* A dispatcher that was told to stop, or has no view left, returns from
\* view_dispatcher_run once the keys are up, with whatever is in its queue.
RunReturns ==
    (app = "run" /\ current_view = NULL) \/ app = "drain" ~> app = "stopped"
=============================================================================
