---------------------------- MODULE SceneManager ----------------------------
(***************************************************************************)
(* applications/gui/scene_manager.c: the stack of an application's scenes. *)
(* The application is a record c that holds the stack with whatever its    *)
(* scenes' handlers change.                                                *)
(***************************************************************************)
EXTENDS Naturals, SequencesExt

CONSTANTS Enter(_, _),  \* on_enter_handlers, called with the application and a scene
          Exit(_, _)    \* on_exit_handlers

\* The scene whose on_event handler gets the next event.
CurrentScene(c) == Last(c.stack)

scene_manager_next_scene(c, next) ==
    LET left == IF c.stack = <<>> THEN c ELSE Exit(c, CurrentScene(c))
    IN  Enter([left EXCEPT !.stack = Append(@, next)], next)

\* Leaving the first scene ends the application: nothing is entered.
scene_manager_previous_scene(c) ==
    LET left == Exit([c EXCEPT !.stack = Front(@)], CurrentScene(c))
    IN  IF left.stack = <<>> THEN left ELSE Enter(left, CurrentScene(left))

\* Back to the last scene of that name below the current one, if there is one.
scene_manager_search_and_switch_to_previous_scene(c, scene) ==
    LET found == {i \in 1 .. Len(c.stack) - 1 : c.stack[i] = scene}
    IN  IF found = {} THEN c
        ELSE Enter(Exit([c EXCEPT !.stack = SubSeq(@, 1, Max(found))], CurrentScene(c)), scene)
=============================================================================
