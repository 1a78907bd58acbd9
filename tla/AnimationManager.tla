-------------------------- MODULE AnimationManager --------------------------
(***************************************************************************)
(* The desktop's animation manager,                                        *)
(* applications/desktop/animations/animation_manager.c.                    *)
(*                                                                         *)
(* It has no thread of its own: a timer, the storage and dolphin pubsubs   *)
(* and the view's input only notify the desktop thread, which later calls  *)
(* one of the *_process functions.  They work on the manager's record, one *)
(* operator per C function; the threads are in DesktopScenes and           *)
(* LoaderDesktop.                                                          *)
(*                                                                         *)
(* Of an animation only its kind counts: an idle animation, or a blocking  *)
(* one, which asks for the user.  What the SD card, the dolphin and the    *)
(* animation storage answer is chosen anew at each call.                   *)
(***************************************************************************)
EXTENDS Naturals

Kinds == {"none", "idle", "blocking"}
States == {"Idle", "Blocked", "FreezedIdle", "FreezedBlocked"}

\* What the rest of the firmware answers during one call.
World == [sd_status : {"OK", "NOT_READY", "INTERNAL"},
          db_exists : BOOLEAN,
          level_up_is_pending : BOOLEAN,
          valid : BOOLEAN,      \* the idle animation suits the dolphin's mood
          found : BOOLEAN]      \* the frozen animation is still on the card

\* struct AnimationManager, with the idle timer, whether an expiry of it was
\* missed, the level up's one-shot view and the assertion that failed.
AnimationManagerStruct ==
    [state : States, current_animation : Kinds, freezed_animation_name : Kinds,
     timer : BOOLEAN, levelup_pending : BOOLEAN, levelup_active : BOOLEAN,
     one_shot_view : BOOLEAN, sd_shown_sd_ok : BOOLEAN, sd_shown_no_db : BOOLEAN,
     sd_show_url : BOOLEAN, missed : BOOLEAN,
     failed : {"none", "unload", "load", "one shot", "semaphore"}]

\* The first failing assertion is kept: the firmware halts there.
Assert(a, condition, what) ==
    IF condition \/ a.failed # "none" THEN a ELSE [a EXCEPT !.failed = what]

animation_manager_replace_current_animation(a, kind) ==
    [a EXCEPT !.current_animation = kind]

animation_manager_start_new_idle(a) ==
    [animation_manager_replace_current_animation(a, "idle")
        EXCEPT !.state = "Idle", !.timer = TRUE, !.missed = FALSE]

BlockKeepsState(a) ==
    [animation_manager_replace_current_animation(a, "blocking")
        EXCEPT !.timer = FALSE]

\* A blocking animation replaces the current one and stops the idle timer.
Block(a) ==
    [animation_manager_replace_current_animation(a, "blocking")
        EXCEPT !.timer = FALSE, !.state = "Blocked"]

\* The notices about the SD card, each shown once per card.
SdNotice(a, w) ==
    CASE w.sd_status = "INTERNAL" -> <<TRUE, a>>
      [] w.sd_status = "NOT_READY" ->
            <<FALSE, [a EXCEPT !.sd_shown_sd_ok = FALSE,
                               !.sd_shown_no_db = FALSE]>>
      [] w.sd_status = "OK" ->
            IF ~a.sd_shown_sd_ok
            THEN <<TRUE, [a EXCEPT !.sd_shown_sd_ok = TRUE]>>
            ELSE IF ~a.sd_shown_no_db
            THEN IF w.db_exists THEN <<FALSE, a>>
                 ELSE <<TRUE, [a EXCEPT !.sd_shown_no_db = TRUE,
                                        !.sd_show_url = TRUE]>>
            ELSE IF a.sd_show_url
            THEN <<TRUE, [a EXCEPT !.sd_show_url = FALSE]>>
            ELSE <<FALSE, a>>

\* <<blocked, the manager afterwards>>
animation_manager_check_blocking(a, w) ==
    LET notice == SdNotice(a, w)
        mail == ~notice[1] /\ w.level_up_is_pending
        b == [notice[2] EXCEPT !.levelup_pending = mail \/ @]
    IN  IF notice[1] \/ mail THEN <<TRUE, Block(b)>> ELSE <<FALSE, b>>

animation_manager_check_blocking_process(a, w) ==
    IF a.state # "Idle" THEN a
    ELSE LET c == animation_manager_check_blocking(a, w)
         IN  IF c[1] \/ w.valid THEN c[2]
             ELSE animation_manager_start_new_idle(c[2])

animation_manager_new_idle_process(a) ==
    IF a.state = "Idle" THEN animation_manager_start_new_idle(a) ELSE a

InteractSwapsViews(a, w) ==
    IF a.levelup_pending \/ a.levelup_active
    THEN [Assert(a, ~a.one_shot_view, "one shot")
            EXCEPT !.levelup_pending = FALSE, !.levelup_active = ~@,
                   !.one_shot_view = TRUE]
    ELSE a

\* The user presses Right: show the level up, end it, or leave a notice.
animation_manager_interact_process(a, w) ==
    IF a.levelup_pending
    THEN [Assert(a, ~a.one_shot_view, "one shot")
            EXCEPT !.levelup_pending = FALSE, !.levelup_active = TRUE,
                   !.one_shot_view = TRUE]
    ELSE IF a.levelup_active
    THEN [Assert(animation_manager_start_new_idle(a), a.one_shot_view,
                 "one shot")
            EXCEPT !.levelup_active = FALSE, !.one_shot_view = FALSE]
    ELSE IF a.state = "Blocked"
    THEN LET c == animation_manager_check_blocking(a, w)
         IN  IF c[1] THEN c[2] ELSE animation_manager_start_new_idle(c[2])
    ELSE a

animation_manager_is_animation_loaded(a) == a.current_animation # "none"

\* Before an application starts: free the animation, remember its name.
animation_manager_unload_and_stall_animation(a) ==
    LET b == Assert(a, /\ animation_manager_is_animation_loaded(a)
                       /\ a.freezed_animation_name = "none"
                       /\ a.state \in {"Idle", "Blocked"}, "unload")
    IN  [b EXCEPT !.state = IF @ = "Blocked" THEN "FreezedBlocked"
                            ELSE "FreezedIdle",
                  !.timer = IF a.state = "Idle" THEN FALSE ELSE @,
                  !.freezed_animation_name = a.current_animation,
                  !.current_animation = "none"]

RestoreWithoutTimer(a, w) ==
    IF a.state = "FreezedBlocked"
    THEN [animation_manager_replace_current_animation(a, "blocking")
            EXCEPT !.state = "Blocked"]
    ELSE LET c == animation_manager_check_blocking(a, w)
         IN  IF ~c[1] /\ w.found /\ w.valid
             THEN [animation_manager_replace_current_animation(c[2], "idle")
                     EXCEPT !.state = "Idle"]
             ELSE c[2]

\* Bring back the frozen animation, or what the world asks for by now.
Restore(a, w) ==
    IF a.state = "FreezedBlocked"
    THEN [animation_manager_replace_current_animation(a, "blocking")
            EXCEPT !.state = "Blocked"]
    ELSE LET c == animation_manager_check_blocking(a, w)
         IN  IF ~c[1] /\ w.found /\ w.valid
             THEN [animation_manager_replace_current_animation(c[2], "idle")
                     EXCEPT !.state = "Idle", !.timer = TRUE, !.missed = FALSE]
             ELSE c[2]

\* After the application has stopped.
animation_manager_load_and_continue_animation(a, w) ==
    LET b == Assert(a, /\ ~animation_manager_is_animation_loaded(a)
                       /\ a.freezed_animation_name # "none"
                       /\ a.state \in {"FreezedIdle", "FreezedBlocked"},
                    "load")
        r == Restore(b, w)
        s == IF animation_manager_is_animation_loaded(r) THEN r
             ELSE animation_manager_start_new_idle(r)
    IN  [s EXCEPT !.freezed_animation_name = "none"]

\* animation_manager_alloc, after its own check_blocking.
animation_manager_alloc(w) ==
    LET a == [state |-> "Idle", current_animation |-> "none",
              freezed_animation_name |-> "none", timer |-> FALSE,
              levelup_pending |-> FALSE, levelup_active |-> FALSE,
              one_shot_view |-> FALSE, sd_shown_sd_ok |-> TRUE,
              sd_shown_no_db |-> FALSE, sd_show_url |-> FALSE,
              missed |-> FALSE, failed |-> "none"]
        c == animation_manager_check_blocking(a, w)
    IN  IF c[1] THEN c[2] ELSE animation_manager_start_new_idle(c[2])
=============================================================================
