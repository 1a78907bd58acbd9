---------------------------- MODULE DesktopScenes ----------------------------
(***************************************************************************)
(* The desktop's scenes (applications/desktop/scenes and desktop.c) over   *)
(* the scene manager, with the animation manager: the main scene, the lock *)
(* menu, the lock with and without a PIN, the timeout after wrong PINs,    *)
(* the debug scene and the scenes of a boot.                               *)
(*                                                                         *)
(* One thread handles keys and events from one queue.  A key's view posts  *)
(* an event to the end of that queue, so further keys may be handled by    *)
(* the old view, or be seen by it again, before the event is: queue holds  *)
(* the events that wait, and a key is a step that may come at any time.    *)
(* The drawing, the doors and the labels are left out.                     *)
(***************************************************************************)
EXTENDS AnimationManager, Naturals, Sequences

CONSTANTS
    Overtaken,  \* what may overtake what:
                \*   "interact": an application starts before a press in the animation is handled
                \*   "unlock": a Back is handled before the Unlocked of the Back before it
                \*   "setup": keys reach the lock menu after it has started the PIN setup
                \*   "expiry": a boot's scene is left before the PinTimeoutExit posted under it is handled
    MaxQueue,   \* bound: events that wait
    MaxFails,   \* bound: wrong PINs
    MaxDepth    \* bound: scenes on the stack when the debug scene is opened

ASSUME DesktopScenesAssumption ==
    /\ Overtaken \subseteq {"interact", "unlock", "setup", "expiry"}
    /\ {MaxQueue, MaxFails, MaxDepth} \subseteq Nat

VARIABLES am,      \* the animation manager
          events,  \* its events that wait for the desktop thread
          desk,    \* struct Desktop, the scenes' states and what they set elsewhere
          queue,   \* the scenes' events that wait
          app      \* the application: "none", "seen" by the main scene, or PIN "setup";
                   \* "off" without power

vars == <<am, events, desk, queue, app>>

Scenes == {"Main", "LockMenu", "Debug", "FirstStart", "HwMismatch", "Fault",
           "Locked", "PinInput", "PinTimeout"}
BootScenes == {"FirstStart", "HwMismatch", "Fault"}

(***************************************************************************)
(* desktop_helpers.c.                                                      *)
(***************************************************************************)
desktop_helpers_fails_timeout == <<0, 0, 0, 0, 30, 60, 90, 120, 150, 180>>

desktop_helpers_get_pin_fail_timeout(fails) ==
    IF fails <= 9 THEN desktop_helpers_fails_timeout[fails + 1]
    ELSE desktop_helpers_fails_timeout[10] + (fails - 9) * 60

\* The flag is set already when the lock is hard.
desktop_helpers_lock_system(d, hard_lock) ==
    [d EXCEPT !.lockdown = TRUE, !.usb = @ /\ ~hard_lock]

desktop_helpers_unlock_system(d) ==
    [d EXCEPT !.rtc_lock = FALSE, !.lockdown = FALSE, !.usb = TRUE]

(***************************************************************************)
(* The handlers that run when a scene is left and entered.                 *)
(***************************************************************************)
\* subscribed: the loader's pubsub and the animation's check and interact
\* callbacks, which go together.
desktop_scene_main_on_exit(d) ==
    [d EXCEPT !.subscribed = FALSE, !.new_idle_callback = FALSE]

desktop_scene_main_on_enter(d) ==
    [d EXCEPT !.subscribed = TRUE, !.new_idle_callback = TRUE]

\* The states of two scenes are allocated when they are entered.
OnExit(d, scene) ==
    CASE scene = "Main" -> desktop_scene_main_on_exit(d)
      [] scene \in {"PinInput", "HwMismatch"} -> [d EXCEPT !.allocated = @ \ {scene}]
      [] OTHER -> d

desktop_scene_lock_menu_on_enter(d) ==
    [d EXCEPT !.settings_pin = d.stored_pin, !.lock_menu_state = 0]

TimeoutNotStarted(d) == d

\* xTimerStart restarts a timer that runs.
desktop_scene_pin_timeout_on_enter(d) == [d EXCEPT !.pin_timer = TRUE]

EnterPlain(d, scene) ==
    CASE scene = "Main" -> desktop_scene_main_on_enter(d)
      [] scene = "LockMenu" -> desktop_scene_lock_menu_on_enter(d)
      [] scene = "PinTimeout" -> desktop_scene_pin_timeout_on_enter(d)
      [] scene \in {"PinInput", "HwMismatch"} -> [d EXCEPT !.allocated = @ \cup {scene}]
      [] OTHER -> d

\* The scene manager as the locked scene's own handler calls it.
InHandler == INSTANCE SceneManager WITH Enter <- EnterPlain, Exit <- OnExit

\* The first time, the system is locked; it may lead on to the timeout.
desktop_scene_locked_on_enter(d) ==
    LET called == [d EXCEPT !.new_idle_callback = TRUE]
        locked == [desktop_helpers_lock_system(called, d.rtc_lock)
                    EXCEPT !.locked = TRUE, !.pin_locked = d.rtc_lock,
                           !.settings_pin = IF d.rtc_lock THEN d.stored_pin ELSE @,
                           !.locked_state = "REPEAT_ENTER"]
    IN  IF d.locked_state # "FIRST_ENTER" THEN called
        ELSE IF d.rtc_lock /\ desktop_helpers_get_pin_fail_timeout(d.pin_fails) > 0
        THEN InHandler!scene_manager_next_scene(locked, "PinTimeout")
        ELSE locked

OnEnter(d, scene) ==
    IF scene = "Locked" THEN desktop_scene_locked_on_enter(d) ELSE EnterPlain(d, scene)

SM == INSTANCE SceneManager WITH Enter <- OnEnter, Exit <- OnExit

NextScene(d, scene) == SM!scene_manager_next_scene(d, scene)
PreviousScene(d)    == SM!scene_manager_previous_scene(d)

SearchWithoutExit(d, scene) ==
    [SM!scene_manager_search_and_switch_to_previous_scene(d, scene)
        EXCEPT !.allocated = d.allocated]

SearchScene(d, scene) == SM!scene_manager_search_and_switch_to_previous_scene(d, scene)

(***************************************************************************)
(* desktop_alloc and desktop_srv up to the loop.                           *)
(***************************************************************************)
IfScene(d, condition, scene) == IF condition THEN NextScene(d, scene) ELSE d

\* Without power: what the RTC and the settings keep.
Off(rtc_lock, stored_pin, pin_fails) ==
    [stack |-> <<>>, subscribed |-> FALSE, new_idle_callback |-> FALSE,
     allocated |-> {}, lock_menu_state |-> 0, locked_state |-> "FIRST_ENTER",
     locked |-> FALSE, pin_locked |-> FALSE, lockdown |-> FALSE, usb |-> TRUE,
     pin_timer |-> FALSE, rtc_lock |-> rtc_lock, stored_pin |-> stored_pin,
     settings_pin |-> FALSE, pin_fails |-> pin_fails]

FreshManagers == {animation_manager_alloc(w) : w \in World}

DesktopInit ==
    /\ am = CHOOSE a \in FreshManagers : TRUE
    /\ events = {}
    /\ \E lock, pin \in BOOLEAN, fails \in 0 .. MaxFails : desk = Off(lock, pin, fails)
    /\ queue = <<>>
    /\ app = "off"

\* The settings may be lost; shown are the scenes of this boot.
desktop_srv ==
    /\ app = "off" /\ app' = "none"
    /\ \E shown \in SUBSET BootScenes, loaded \in BOOLEAN :
          LET pin    == desk.stored_pin /\ loaded
              start  == [desk EXCEPT !.stored_pin = pin, !.settings_pin = pin,
                                     !.rtc_lock = @ /\ pin]
              main   == NextScene(start, "Main")
              locked == IfScene(main, main.rtc_lock, "Locked")
              first  == IfScene(locked, "FirstStart" \in shown, "FirstStart")
              hw     == IfScene(first, "HwMismatch" \in shown, "HwMismatch")
          IN  desk' = IfScene(hw, "Fault" \in shown, "Fault")
    /\ am' \in FreshManagers
    /\ UNCHANGED <<events, queue>>

Current == IF desk.stack = <<>> THEN "none" ELSE SM!CurrentScene(desk)
Alive   == am.failed = "none" /\ app # "off"

(***************************************************************************)
(* Keys and timers: what each view posts, or does at once.                 *)
(***************************************************************************)
Waits(e) == \E i \in DOMAIN queue : queue[i] = e

\* The lock menu offers to set a PIN.
SetupAsked == Current = "LockMenu" /\ ~desk.settings_pin

\* Keys reach the desktop's view while no application covers it.
KeyAllowed ==
    /\ Alive
    /\ \/ app = "none" /\ ~(SetupAsked /\ Waits("PinLock"))
       \/ app # "seen" /\ "setup" \in Overtaken

\* desktop_scene_hw_mismatch.c has a number of its own for its event, 0, which
\* is that of DesktopMainEventOpenLockMenu.
HW_MISMATCH_BACK_EVENT == "OpenLockMenu"

\* The events the current view may post for a key.  A PIN is compared when it
\* is entered.
KeyEvents ==
    CASE Current = "Main"       -> {"OpenLockMenu"}
                                     \cup (IF Len(desk.stack) < MaxDepth THEN {"OpenDebug"} ELSE {})
      [] Current = "LockMenu"   -> {"Lock", "PinLock", "LockMenuExit"}
      [] Current = "Debug"      -> {"DebugExit"}
      [] Current = "FirstStart" -> {"FirstStartCompleted"}
      [] Current = "HwMismatch" -> {HW_MISMATCH_BACK_EVENT}
      [] Current = "Fault"      -> {"FaultExit"}
      [] Current = "Locked"     -> IF desk.locked /\ desk.pin_locked THEN {"ShowPinInput"} ELSE {}
      [] Current = "PinInput"   -> {"PinInputBack"}
                                     \cup (IF desk.settings_pin THEN {"PinInputUnlocked"} ELSE {})
                                     \cup (IF desk.pin_fails < MaxFails THEN {"UnlockFailed"} ELSE {})
      [] Current = "PinTimeout" -> {}

Post(e) == Len(queue) < MaxQueue /\ queue' = Append(queue, e)

Key ==
    /\ KeyAllowed
    /\ \E e \in KeyEvents : Post(e)
    /\ UNCHANGED <<am, events, desk, app>>

\* The third Back in the locked view opens it; the event unlocks the system.
desktop_view_locked_input ==
    /\ KeyAllowed
    /\ Current = "Locked"
    /\ desk.locked /\ ~desk.pin_locked
    /\ desk' = [desk EXCEPT !.locked = FALSE]
    /\ Post("Unlocked")
    /\ UNCHANGED <<am, events, app>>

\* A Back no view consumes: a long one in menus and popups, any in the debug
\* view's second screen and in a locked view that is already open.
scene_manager_handle_back_event ==
    /\ KeyAllowed
    /\ \/ Current \in {"LockMenu", "Debug", "HwMismatch", "Fault"}
       \/ Current = "Locked" /\ ~desk.locked /\ "unlock" \in Overtaken
    /\ desk' = PreviousScene(desk)
    /\ UNCHANGED <<am, events, queue, app>>

\* The pin view's own timer, without activity.
desktop_view_pin_input_timer_callback ==
    /\ Alive
    /\ Current = "PinInput"
    /\ Post("PinInputBack")
    /\ UNCHANGED <<am, events, desk, app>>

\* The timeout is over.  A boot's scene that covers it drops the event.
desktop_view_pin_timeout_timer_callback ==
    /\ Alive
    /\ desk.pin_timer
    /\ desk' = [desk EXCEPT !.pin_timer = FALSE]
    /\ IF Current \in BootScenes /\ "expiry" \notin Overtaken
       THEN UNCHANGED queue
       ELSE Post("PinTimeoutExit")
    /\ UNCHANGED <<am, events, app>>

(***************************************************************************)
(* The desktop thread handles an event: on_event of the current scene.     *)
(***************************************************************************)
\* Into the lock, hard or not.
LockScene(d) == NextScene([d EXCEPT !.locked_state = "FIRST_ENTER"], "Locked")

UnlockedOneBack(d) ==
    PreviousScene(desktop_helpers_unlock_system([d EXCEPT !.pin_fails = 0]))

\* Out of the lock.
Unlocked(d) ==
    SearchScene(desktop_helpers_unlock_system([d EXCEPT !.pin_fails = 0]), "Main")

desktop_scene_main_on_event(d, e) ==
    CASE e = "OpenLockMenu" -> NextScene(d, "LockMenu")
      [] e = "OpenDebug"    -> NextScene(d, "Debug")
      [] OTHER              -> d

\* PinLock without a PIN starts the setup: PinSetup below.
desktop_scene_lock_menu_on_event(d, e) ==
    CASE e = "Lock" -> LockScene([d EXCEPT !.lock_menu_state = 0])
      [] e = "PinLock" -> LockScene([d EXCEPT !.rtc_lock = TRUE])
      [] e = "LockMenuExit" -> SearchScene([d EXCEPT !.lock_menu_state = 0], "Main")
      [] OTHER -> d

desktop_scene_locked_on_event(d, e) ==
    CASE e = "Unlocked"     -> Unlocked(d)
      [] e = "ShowPinInput" -> NextScene(d, "PinInput")
      [] OTHER              -> d

desktop_scene_pin_input_on_event(d, e) ==
    LET fails  == d.pin_fails + 1
        failed == [d EXCEPT !.pin_fails = fails]
    IN  CASE e = "UnlockFailed" ->
                IF desktop_helpers_get_pin_fail_timeout(fails) > 0
                THEN NextScene(failed, "PinTimeout") ELSE failed
          [] e = "PinInputUnlocked" ->
                Unlocked([d EXCEPT !.locked = FALSE, !.pin_locked = FALSE])
          [] e = "PinInputBack" -> SearchScene(d, "Locked")
          [] OTHER -> d

\* The scenes with a single event: the others know no more than how to leave.
OtherOnEvent(d, e) ==
    CASE <<SM!CurrentScene(d), e>> \in {<<"FirstStart", "FirstStartCompleted">>,
            <<"HwMismatch", HW_MISMATCH_BACK_EVENT>>, <<"Fault", "FaultExit">>,
            <<"PinTimeout", "PinTimeoutExit">>} -> PreviousScene(d)
      [] <<SM!CurrentScene(d), e>> = <<"Debug", "DebugExit">> -> NextScene(d, "Main")
      [] OTHER -> d

SetupStarts == SetupAsked /\ Head(queue) = "PinLock"

scene_manager_handle_custom_event ==
    /\ Alive
    /\ queue # <<>> /\ queue' = Tail(queue)
    /\ ~SetupStarts
    /\ LET e == Head(queue)
       IN  desk' = CASE Current = "Main"     -> desktop_scene_main_on_event(desk, e)
                     [] Current = "LockMenu" -> desktop_scene_lock_menu_on_event(desk, e)
                     [] Current = "Locked"   -> desktop_scene_locked_on_event(desk, e)
                     [] Current = "PinInput" -> desktop_scene_pin_input_on_event(desk, e)
                     [] OTHER                -> OtherOnEvent(desk, e)
    /\ UNCHANGED <<am, events, app>>

\* The lock menu starts the PIN setup; the main scene is not subscribed.
PinSetup ==
    /\ Alive
    /\ queue # <<>> /\ queue' = Tail(queue)
    /\ SetupStarts
    /\ IF app = "none"
       THEN /\ app' = "setup"
            /\ desk' = [desk EXCEPT !.lock_menu_state = 1]
       ELSE UNCHANGED <<app, desk>>
    /\ UNCHANGED <<am, events>>

\* desktop_tick_event_callback: the lock menu looks for the new PIN.
scene_manager_handle_tick_event ==
    /\ Alive
    /\ Current = "LockMenu" /\ desk.lock_menu_state = 1
    /\ desk' = [desk EXCEPT !.settings_pin = desk.stored_pin,
                            !.lock_menu_state = IF desk.stored_pin THEN 0 ELSE 1]
    /\ UNCHANGED <<am, events, queue, app>>

(***************************************************************************)
(* The animation manager's callbacks and events.                           *)
(***************************************************************************)
\* The one-shot idle timer expires; it notifies the desktop if a scene has set
\* the callback.
animation_manager_timer_callback ==
    /\ Alive
    /\ am.timer
    /\ am' = [am EXCEPT !.timer = FALSE, !.missed = ~desk.new_idle_callback]
    /\ events' = events \cup (IF desk.new_idle_callback THEN {"NewIdleAnimation"} ELSE {})
    /\ UNCHANGED <<desk, queue, app>>

\* The storage or the dolphin publishes; only the main scene listens.
animation_manager_check_blocking_callback ==
    /\ Alive
    /\ desk.subscribed
    /\ events' = events \cup {"CheckAnimation"}
    /\ UNCHANGED <<am, desk, queue, app>>

\* The user presses Right in the bubble or in the one-shot view.
animation_manager_interact_callback ==
    /\ Alive
    /\ desk.subscribed
    /\ app = "none" \/ "interact" \in Overtaken
    /\ events' = events \cup {"InteractAnimation"}
    /\ UNCHANGED <<am, desk, queue, app>>

\* The desktop takes an event out of its queue; a scene that does not know it
\* drops it.
Takes(e) == Alive /\ e \in events /\ events' = events \ {e} /\ UNCHANGED <<desk, queue, app>>

NewIdleEvent ==
    /\ Takes("NewIdleAnimation")
    /\ am' = IF Current \in {"Main", "Locked"} THEN animation_manager_new_idle_process(am)
             ELSE [am EXCEPT !.missed = ~am.timer]

CheckEvent ==
    /\ Takes("CheckAnimation")
    /\ am' \in IF Current = "Main"
               THEN {animation_manager_check_blocking_process(am, w) : w \in World} ELSE {am}

InteractEvent ==
    /\ Takes("InteractAnimation")
    /\ am' \in IF Current = "Main"
               THEN {animation_manager_interact_process(am, w) : w \in World} ELSE {am}

(***************************************************************************)
(* Applications, and the end of power.                                     *)
(***************************************************************************)
\* The main scene handles the loader's start.  Starts that race with a change
\* of the scene are in LoaderDesktop.
BeforeAppStarted ==
    /\ Alive
    /\ app = "none" /\ app' = "seen"
    /\ Current = "Main" /\ queue = <<>>
    /\ "InteractAnimation" \in events => "interact" \in Overtaken
    /\ am' = animation_manager_unload_and_stall_animation(am)
    /\ UNCHANGED <<events, desk, queue>>

\* The loader's stop, which the main scene handles if it is there.  The
\* application may have set a PIN or, unless it is the setup, removed it.
AfterAppFinished ==
    /\ Alive
    /\ app \in {"seen", "setup"} /\ app' = "none"
    /\ \E pin \in BOOLEAN :
          /\ app = "setup" /\ desk.stored_pin => pin
          /\ desk' = [desk EXCEPT !.stored_pin = pin]
    /\ am' \in IF desk.subscribed
               THEN {animation_manager_load_and_continue_animation(am, w) : w \in World} ELSE {am}
    /\ UNCHANGED <<events, queue>>

\* A crash, the end of power.
PowerLost ==
    /\ app # "off" /\ app' = "off"
    /\ desk' = Off(desk.rtc_lock, desk.stored_pin, desk.pin_fails)
    /\ am' = CHOOSE a \in FreshManagers : TRUE
    /\ events' = {} /\ queue' = <<>>

DesktopNext ==
    \/ Key \/ desktop_view_locked_input \/ scene_manager_handle_back_event
    \/ desktop_view_pin_input_timer_callback \/ desktop_view_pin_timeout_timer_callback
    \/ scene_manager_handle_custom_event \/ PinSetup \/ scene_manager_handle_tick_event
    \/ animation_manager_timer_callback \/ animation_manager_check_blocking_callback
    \/ animation_manager_interact_callback
    \/ NewIdleEvent \/ CheckEvent \/ InteractEvent
    \/ BeforeAppStarted \/ AfterAppFinished \/ desktop_srv \/ PowerLost

DesktopSpec == DesktopInit /\ [][DesktopNext]_vars

(***************************************************************************)
(* Properties.                                                             *)
(***************************************************************************)
Frozen == am.state \in {"FreezedIdle", "FreezedBlocked"}
OnStack(scene) == \E i \in DOMAIN desk.stack : desk.stack[i] = scene

\* The assertions of unload, load and of the one-shot view hold
\* (animation_manager.c:418-422, 455-459, 527, 550); types.
AssertionsHold ==
    /\ am.failed = "none"
    /\ am.state \in States
    /\ {am.current_animation, am.freezed_animation_name} \subseteq Kinds
    /\ events \subseteq {"NewIdleAnimation", "CheckAnimation", "InteractAnimation"}
    /\ \A i \in DOMAIN desk.stack : desk.stack[i] \in Scenes

\* The level up waits under a blocking animation, and its one-shot view is
\* there exactly while it is shown.
LevelUpConsistent ==
    /\ am.one_shot_view <=> am.levelup_active
    /\ ~(am.levelup_pending /\ am.levelup_active)
    /\ am.levelup_pending \/ am.levelup_active =>
          am.state \in {"Blocked", "FreezedBlocked"}

\* An animation is in memory exactly while no application runs, it is of the
\* kind the state says, and the frozen one is remembered by its kind.  The timer
\* runs only for an idle one: it never replaces a notice or loads an animation
\* while an application has the memory.  Level-up flags and view go with it.
AnimationMatchesState ==
    /\ LevelUpConsistent
    /\ am.state = "Idle" => am.current_animation = "idle"
    /\ am.state = "Blocked" => am.current_animation = "blocking"
    /\ Frozen => /\ am.current_animation = "none"
                 /\ (am.freezed_animation_name = "blocking")
                       <=> (am.state = "FreezedBlocked")
    /\ Frozen <=> am.freezed_animation_name # "none"
    /\ Frozen <=> app = "seen"
    /\ am.timer => am.state = "Idle"

\* An idle animation ends: its timer runs or the event it caused is still to be
\* handled, over any sequence of checks, presses, applications and scenes.  The
\* one exception is an expiry that a scene without the callback has missed
\* (animation_manager.c:107): that animation stays until something replaces it.
IdleEndsUnlessMissed ==
    am.state = "Idle" => am.timer \/ "NewIdleAnimation" \in events \/ am.missed

\* Gui, USB, the RTC's flag and the locked view say the same as the scenes
\* (gui.h:94: lockdown is for "when flipper is locked"): the system is locked
\* exactly while the locked scene is somewhere on the stack, over late events,
\* boots and timeouts, and the view is open only on the way out.  Who is locked
\* by a PIN has one.
LockedAsShown ==
    app # "off" =>
    /\ desk.lockdown <=> OnStack("Locked")
    /\ desk.rtc_lock <=> ~desk.usb
    /\ desk.rtc_lock => desk.lockdown /\ desk.pin_locked /\ desk.stored_pin
    /\ desk.locked <=> OnStack("Locked") /\ ~Waits("Unlocked")
    /\ Current \in {"PinInput", "PinTimeout"} => desk.pin_locked

\* Each scene is left as often as it is entered, whatever events come late:
\* the main scene's subscription and the two allocated states exist exactly
\* while their scene is the current one.
ScenesInTurns ==
    /\ desk.subscribed <=> Current = "Main"
    /\ desk.allocated = {"PinInput", "HwMismatch"} \cap {Current}
    /\ desk.new_idle_callback /\ Current \notin {"Main", "Locked"} => OnStack("Locked")

\* The timeout after wrong PINs is served in full: its scene is left for the
\* next try only when the timer has run down, and it is running or its event
\* waits while the scene is shown, also when a boot's scenes cover it at first.
TimeoutServed ==
    Current = "PinTimeout" => desk.pin_timer # Waits("PinTimeoutExit")
=============================================================================
