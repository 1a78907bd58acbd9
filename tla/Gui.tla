--------------------------------- MODULE Gui ---------------------------------
(***************************************************************************)
(* The gui service, applications/gui/gui.c, and its view ports,            *)
(* view_port.c.  The gui thread takes the input service's events one by    *)
(* one and gives each to a view port, under gui->mutex, which it keeps     *)
(* during the view port's input callback.  Other threads add, remove and   *)
(* reorder view ports under the same mutex; is_enabled and orientation are *)
(* written without it.                                                     *)
(*                                                                         *)
(* Drawing is left out: it keeps the mutex for a while and changes nothing *)
(* that input depends on.                                                  *)
(***************************************************************************)
EXTENDS KeyEvents, SequencesExt

CONSTANTS ViewPorts,  \* addresses of view ports
          NULL

Layers == {"Desktop", "Window", "Fullscreen"}

VARIABLES layers,                   \* gui->layers, the last one on top
          is_enabled,               \* of each view port
          vertical,                 \* of each: ViewPortOrientationVertical
          attached,                 \* view_port->gui is not NULL
          lockdown,
          ongoing_input,            \* keys that are down, by their bits
          ongoing_input_view_port,  \* who got the first of them
          gui_mutex,                \* the gui thread holds gui->mutex
          gui,                      \* where the gui thread is
          gui_event,                \* the event it works on
          gui_target                \* the view port that gets it

portVars == <<layers, is_enabled, vertical, attached, lockdown>>
guiVars == <<portVars, ongoing_input, ongoing_input_view_port, gui_mutex, gui,
             gui_event, gui_target>>

\* The gui before the first input, whatever its view ports are by then.
gui_alloc ==
    /\ lockdown = FALSE
    /\ ongoing_input = {}
    /\ ongoing_input_view_port = NULL
    /\ gui_mutex = FALSE
    /\ gui = "wait"
    /\ gui_event = NULL
    /\ gui_target = NULL

-----------------------------------------------------------------------------
(* View ports *)

gui_view_port_find_enabled(l) ==
    LET on == {i \in DOMAIN layers[l] : is_enabled[layers[l][i]]}
    IN  IF on = {} THEN NULL
        ELSE layers[l][CHOOSE i \in on : \A j \in on : j <= i]

\* The view port on top, as gui_input looks for it.
Above(l, below) ==
    IF gui_view_port_find_enabled(l) # NULL THEN gui_view_port_find_enabled(l) ELSE below
TopViewPort ==
    IF lockdown THEN gui_view_port_find_enabled("Desktop")
    ELSE Above("Fullscreen", Above("Window", gui_view_port_find_enabled("Desktop")))

\* The layers without p, which is in none twice (gui_add_view_port asserts it).
Without(p) ==
    [l \in Layers |->
        IF p \in ToSet(layers[l])
        THEN RemoveAt(layers[l], CHOOSE i \in DOMAIN layers[l] : layers[l][i] = p)
        ELSE layers[l]]
LayerOf(p) == CHOOSE l \in Layers : p \in ToSet(layers[l])

gui_add_view_port(p, l) ==
    /\ ~gui_mutex
    /\ layers' = [layers EXCEPT ![l] = Append(@, p)]
    /\ attached' = [attached EXCEPT ![p] = TRUE]

gui_remove_view_port(p) ==
    /\ ~gui_mutex
    /\ layers' = Without(p)
    /\ attached' = [attached EXCEPT ![p] = FALSE]
    /\ ongoing_input_view_port' =
          IF ongoing_input_view_port = p THEN NULL ELSE ongoing_input_view_port

gui_view_port_send_to_front(p) ==
    /\ ~gui_mutex
    /\ attached[p]
    /\ layers' = [Without(p) EXCEPT ![LayerOf(p)] = Append(@, p)]
    /\ UNCHANGED <<is_enabled, vertical, attached, lockdown>>

gui_view_port_send_to_back(p) ==
    /\ ~gui_mutex
    /\ attached[p]
    /\ layers' = [Without(p) EXCEPT ![LayerOf(p)] = <<p>> \o @]
    /\ UNCHANGED <<is_enabled, vertical, attached, lockdown>>

gui_set_lockdown ==
    /\ ~gui_mutex
    /\ lockdown' = ~lockdown
    /\ UNCHANGED <<layers, is_enabled, vertical, attached>>

view_port_enabled_set(p, enabled) ==
    is_enabled' = [is_enabled EXCEPT ![p] = enabled]

\* What another thread does with its view port p.
OtherThread(p) ==
    /\ \/ gui_view_port_send_to_front(p)
       \/ gui_view_port_send_to_back(p)
       \/ /\ view_port_enabled_set(p, ~is_enabled[p])
          /\ UNCHANGED <<layers, vertical, attached, lockdown>>
    /\ UNCHANGED <<keyVars, ongoing_input, ongoing_input_view_port,
                   gui_mutex, gui, gui_event, gui_target>>

SystemLocks ==
    /\ gui_set_lockdown
    /\ UNCHANGED <<keyVars, ongoing_input, ongoing_input_view_port,
                   gui_mutex, gui, gui_event, gui_target>>

-----------------------------------------------------------------------------
(* gui_input *)

view_port_rotate_buttons(k) ==
    CASE k = "Up" -> "Right" [] k = "Down" -> "Left"
      [] k = "Right" -> "Down" [] k = "Left" -> "Up" [] OTHER -> k

\* The keys that are down after e.
Pressed(e, ongoing) ==
    CASE e.type = "Press" -> ongoing \cup {e.key}
      [] e.type = "Release" -> ongoing \ {e.key}
      [] OTHER -> ongoing

\* "Check input complementarity"
Complementary(e, ongoing) == e.type \in {"Press", "Release"} \/ e.key \in ongoing

\* The first key that goes down chooses the view port for all that follow.
Owner(e) ==
    IF e.type = "Press" /\ ongoing_input \ {e.key} = {}
    THEN TopViewPort ELSE ongoing_input_view_port

TargetOnTop(e) == IF TopViewPort = Owner(e) THEN TopViewPort ELSE NULL

\* Who gets the event: the view port on top if it also got the first press,
\* or for a release the one that did.
Target(e) ==
    IF TopViewPort = Owner(e) \/ e.type = "Release" THEN Owner(e) ELSE NULL

\* view_port_input: the key as it is seen in the orientation of this moment.
view_port_input(p, e) ==
    /\ gui' = "deliver"
    /\ gui_mutex' = TRUE
    /\ gui_target' = p
    /\ gui_event' = IF vertical[p]
                    THEN [e EXCEPT !.key = view_port_rotate_buttons(@)] ELSE e

\* The gui thread takes an event, notes the key, which nobody else looks at,
\* and gets the mutex, which it keeps while a view port has the event.
gui_input ==
    /\ gui = "wait"
    /\ ~gui_mutex
    /\ Take
    /\ LET e == Head(input_queue)
       IN  /\ ongoing_input' = Pressed(e, ongoing_input)
           /\ \/ /\ Complementary(e, ongoing_input)
                 /\ ongoing_input_view_port' = Owner(e)
                 /\ \/ /\ Target(e) # NULL
                       /\ view_port_input(Target(e), e)
                    \/ /\ Target(e) = NULL
                       /\ UNCHANGED <<gui, gui_mutex, gui_target, gui_event>>
              \/ /\ ~Complementary(e, ongoing_input)
                 /\ UNCHANGED <<ongoing_input_view_port, gui, gui_mutex,
                                gui_target, gui_event>>
    /\ UNCHANGED portVars

\* The view port's input callback returns: the gui unlocks and goes on.
gui_unlock ==
    /\ gui = "deliver"
    /\ gui_mutex' = FALSE
    /\ gui' = "wait"
    /\ gui_event' = NULL
    /\ gui_target' = NULL
    /\ UNCHANGED <<keyVars, portVars, ongoing_input, ongoing_input_view_port>>

-----------------------------------------------------------------------------
\* The gui's notes of who gets input name view ports that exist: a callback is
\* never called through one that was removed (furi_check in view_port.c:122).
NoStaleViewPort ==
    /\ ongoing_input_view_port # NULL => attached[ongoing_input_view_port]
    /\ gui_target # NULL => attached[gui_target]

\* The invariant behind it: only view ports that are attached are in a layer,
\* each once, and the gui thread has an event exactly while it has the mutex.
PortsConsistent ==
    /\ layers \in [Layers -> Seq(ViewPorts)]
    /\ {is_enabled, vertical, attached} \subseteq [ViewPorts -> BOOLEAN]
    /\ \A l \in Layers : IsInjective(layers[l])
    /\ \A l \in Layers : \A i \in 1 .. Len(layers[l]) : attached[layers[l][i]]
    /\ ongoing_input \subseteq Keys
    /\ ongoing_input_view_port \in ViewPorts \cup {NULL}
    /\ NoStaleViewPort
    /\ \/ gui = "wait" /\ gui_mutex = FALSE /\ gui_target = NULL /\ gui_event = NULL
       \/ gui = "deliver" /\ gui_mutex = TRUE /\ gui_target \in ViewPorts /\ gui_event \in InputEvent

\* Presses and releases of a key reach the gui in turns: between two presses
\* in the queue is a release, before the first one if the gui has the key as
\* down, and after the last one if the key is up.
Queued(k, t, from, to) == \E i \in from .. to : input_queue[i] = Event(k, t)
KeysInTurn ==
    \A k \in Keys :
        /\ \A i \in 1 .. Len(input_queue) : input_queue[i] = Event(k, "Press") =>
             /\ \A j \in i + 1 .. Len(input_queue) :
                   input_queue[j] = Event(k, "Press") => Queued(k, "Release", i + 1, j - 1)
             /\ k \in ongoing_input => Queued(k, "Release", 1, i - 1)
             /\ stage[k] \in {"up", "press"} => Queued(k, "Release", i + 1, Len(input_queue))
        /\ stage[k] \in {"up", "press"} /\ k \in ongoing_input =>
             Queued(k, "Release", 1, Len(input_queue))
=============================================================================
