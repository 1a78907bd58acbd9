---------------------------- MODULE LoaderDesktop ----------------------------
(***************************************************************************)
(* The loader and the desktop together.  The desktop frees its animation   *)
(* before an application starts and loads it again afterwards: the task of *)
(* the application publishes the loader's events, holding the pubsub's     *)
(* mutex; the desktop's callback (desktop_scene_main.c) runs in that task, *)
(* sends an event to the desktop's queue and, for a start, waits for the   *)
(* unload_animation_semaphore, which the desktop thread releases when it   *)
(* has handled the event.  The desktop subscribes when it enters its main  *)
(* scene and unsubscribes, under the same mutex, when it leaves it.        *)
(*                                                                         *)
(* The card and the dolphin stay as they are here; DesktopScenes has their *)
(* changes, and the scenes that are left out here.                         *)
(***************************************************************************)
EXTENDS Loader, Sequences

CONSTANTS QueueSize,  \* of the desktop's event queue (view_dispatcher.c: 16)
          Overlaps    \* what may happen while something else is going on:
                      \*   "start": an application is started while the one
                      \*            before it still has to publish its end
                      \*   "scene": the desktop changes its scene while
                      \*            applications are started or run

ASSUME LoaderDesktopAssumption ==
    /\ QueueSize \in Nat \ {0}
    /\ Overlaps \subseteq {"start", "scene"}

VARIABLES mutex,      \* who holds the mutex of loader->pubsub
          subscribed, \* the desktop's subscription is in its list
          callback,   \* callback[k]: where task k is in furi_pubsub_publish
          queue,      \* events sent to the desktop's view dispatcher
          semaphore,  \* desktop->unload_animation_semaphore
          scene,      \* the desktop's scene
          desktop,    \* where the desktop thread is
          am          \* its animation manager

desktopVars == <<mutex, subscribed, callback, queue, semaphore, scene, desktop,
                 am>>
allVars == <<vars, desktopVars>>

AM == INSTANCE AnimationManager

\* A healthy card, no level-up, an animation that is found and valid.
Calm == [sd_status |-> "OK", db_exists |-> TRUE, level_up_is_pending |-> FALSE,
         valid |-> TRUE, found |-> TRUE]

DesktopInit ==
    /\ Init
    /\ mutex = NULL
    /\ subscribed = TRUE
    /\ callback = [k \in Tasks |-> "none"]
    /\ queue = <<>>
    /\ semaphore = 0
    /\ scene = "main"
    /\ desktop = "loop"
    /\ am = AM!animation_manager_alloc(Calm)

SceneEvents == {"OpenLockMenu", "LockMenuExit"}
SceneChanging ==
    \/ desktop # "loop"
    \/ \E i \in DOMAIN queue : queue[i] \in SceneEvents
Quiet == lock_count = 0 /\ queue = <<>> /\ \A k \in Tasks : task[k] = "none"

\* A lock for a start or a command is taken when nothing it may not overlap
\* with is going on; without the desktop in the list starts always overlap.
LockAllowed ==
    /\ \/ "start" \in Overlaps
       \/ ~subscribed
       \/ \A k \in Tasks : task[k] \notin {"stop event", "stopping"}
    /\ "scene" \in Overlaps \/ ~SceneChanging

-----------------------------------------------------------------------------
(* The application's task, in furi_pubsub_publish and in the callback *)

\* It takes the pubsub's mutex; with the desktop in the list, calls it.
furi_pubsub_publish(k) ==
    /\ PublishStarted(k) \/ PublishStopped(k)
    /\ mutex = NULL
    /\ mutex' = k
    /\ callback' = [callback EXCEPT ![k] = IF subscribed THEN "send" ELSE "done"]
    /\ UNCHANGED <<subscribed, queue, semaphore, scene, desktop, am>>

\* view_dispatcher_send_custom_event waits while the queue is full.
desktop_scene_main_app_started_callback(k) ==
    /\ callback[k] = "send"
    /\ Len(queue) < QueueSize
    /\ queue' = Append(queue, IF task[k] = "starting" THEN "BeforeAppStarted"
                              ELSE "AfterAppFinished")
    /\ callback' = [callback EXCEPT ![k] = IF task[k] = "starting" THEN "wait"
                                           ELSE "done"]
    /\ UNCHANGED <<vars, mutex, subscribed, semaphore, scene, desktop, am>>

AcquireWithoutWaiting(k) ==
    /\ callback[k] = "wait"
    /\ semaphore' = 0
    /\ callback' = [callback EXCEPT ![k] = "done"]
    /\ UNCHANGED <<vars, mutex, subscribed, queue, scene, desktop, am>>

osSemaphoreAcquire(k) ==
    /\ callback[k] = "wait"
    /\ semaphore > 0
    /\ semaphore' = semaphore - 1
    /\ callback' = [callback EXCEPT ![k] = "done"]
    /\ UNCHANGED <<vars, mutex, subscribed, queue, scene, desktop, am>>

\* The publish returns and the mutex is released.
PublishReturns(k) ==
    /\ callback[k] = "done"
    /\ StartedPublished(k) \/ osThreadExit(k)
    /\ mutex' = NULL
    /\ callback' = [callback EXCEPT ![k] = "none"]
    /\ UNCHANGED <<subscribed, queue, semaphore, scene, desktop, am>>

-----------------------------------------------------------------------------
(* The desktop thread *)

\* It takes the next event, if the event is e.
Takes(e) ==
    /\ desktop = "loop"
    /\ queue # <<>>
    /\ Head(queue) = e
    /\ queue' = Tail(queue)
    /\ UNCHANGED <<vars, mutex, subscribed, callback>>

UnloadWithoutRelease ==
    /\ Takes("BeforeAppStarted")
    /\ am' = IF scene = "main"
             THEN AM!animation_manager_unload_and_stall_animation(am) ELSE am
    /\ UNCHANGED <<semaphore, scene, desktop>>

\* The main scene unloads the animation and releases the semaphore, whose
\* maximum is 1; in another scene the event is dropped.
BeforeAppStarted ==
    /\ Takes("BeforeAppStarted")
    /\ IF scene = "main"
       THEN /\ am' = AM!animation_manager_unload_and_stall_animation(am)
            /\ semaphore' = 1
       ELSE UNCHANGED <<am, semaphore>>
    /\ UNCHANGED <<scene, desktop>>

AfterAppForgotten ==
    /\ Takes("AfterAppFinished")
    /\ UNCHANGED <<am, semaphore, scene, desktop>>

AfterAppFinished ==
    /\ Takes("AfterAppFinished")
    /\ am' = IF scene = "main"
             THEN AM!animation_manager_load_and_continue_animation(am, Calm)
             ELSE am
    /\ UNCHANGED <<semaphore, scene, desktop>>

\* The user opens or leaves the lock menu: the scene's exit or enter handler
\* is entered; it has to wait for the mutex of the pubsub.
OpenLockMenu ==
    /\ Takes("OpenLockMenu")
    /\ desktop' = IF scene = "main" THEN "exit" ELSE "loop"
    /\ UNCHANGED <<am, semaphore, scene>>

LockMenuExit ==
    /\ Takes("LockMenuExit")
    /\ desktop' = IF scene = "main" THEN "loop" ELSE "enter"
    /\ UNCHANGED <<am, semaphore, scene>>

desktop_scene_main_on_exit ==
    /\ desktop = "exit"
    /\ mutex = NULL
    /\ subscribed' = FALSE
    /\ scene' = "lock_menu"
    /\ desktop' = "loop"
    /\ am' = AM!Assert(am, semaphore = 0, "semaphore")
    /\ UNCHANGED <<vars, mutex, callback, queue, semaphore>>

desktop_scene_main_on_enter ==
    /\ desktop = "enter"
    /\ mutex = NULL
    /\ subscribed' = TRUE
    /\ scene' = "main"
    /\ desktop' = "loop"
    /\ am' = AM!Assert(am, semaphore = 0, "semaphore")
    /\ UNCHANGED <<vars, mutex, callback, queue, semaphore>>

\* A key reaches the desktop while no application is on the screen.
desktop_main_input ==
    /\ \A k \in Tasks : task[k] # "run"
    /\ "scene" \in Overlaps \/ (Quiet /\ ~SceneChanging)
    /\ Len(queue) < QueueSize
    /\ queue' = Append(queue, IF scene = "main" THEN "OpenLockMenu"
                              ELSE "LockMenuExit")
    /\ UNCHANGED <<vars, mutex, subscribed, callback, semaphore, scene,
                   desktop, am>>

-----------------------------------------------------------------------------
LoaderAlone ==
    /\ LoaderStep
    /\ (lock_count = 0 /\ lock_count' = 1) => LockAllowed
    /\ UNCHANGED desktopVars

TaskInDesktop(k) ==
    \/ furi_pubsub_publish(k)
    \/ desktop_scene_main_app_started_callback(k)
    \/ osSemaphoreAcquire(k)
    \/ PublishReturns(k)

DesktopStep ==
    \/ BeforeAppStarted
    \/ AfterAppFinished
    \/ OpenLockMenu
    \/ LockMenuExit
    \/ desktop_scene_main_on_exit
    \/ desktop_scene_main_on_enter

DesktopNext ==
    \/ LoaderAlone
    \/ \E k \in Tasks : TaskInDesktop(k)
    \/ DesktopStep
    \/ desktop_main_input

\* As in Loader; and the desktop thread handles what is in its queue.
DesktopFairness ==
    /\ \A c \in Callers : WF_allVars(LoaderAlone /\ StartStep(c))
    /\ WF_allVars(LoaderAlone /\ CliStep)
    /\ \A k \in Tasks :
        WF_allVars(TaskInDesktop(k) \/ (LoaderAlone /\ TaskOwnStep(k)))
    /\ WF_allVars(DesktopStep)

DesktopSpec == DesktopInit /\ [][DesktopNext]_allVars /\ DesktopFairness

-----------------------------------------------------------------------------
(* Properties *)

\* The desktop's queue keeps to its size and its semaphore is binary; the main
\* scene is subscribed; whoever is in furi_pubsub_publish holds the mutex.
DesktopTypeOK ==
    /\ queue \in Seq(SceneEvents \cup {"BeforeAppStarted", "AfterAppFinished"})
    /\ Len(queue) <= QueueSize
    /\ semaphore \in {0, 1}
    /\ scene \in {"main", "lock_menu"}
    /\ desktop \in {"loop", "exit", "enter"}
    /\ subscribed = (scene = "main")
    /\ mutex \in Tasks \cup {NULL}
    /\ callback \in [Tasks -> {"none", "send", "wait", "done"}]
    /\ \A k \in Tasks : callback[k] # "none" <=> mutex = k

\* An application runs only after the desktop, if it shows its animation, has
\* given that memory back: what the semaphore is for.
AppHasTheMemory ==
    /\ DesktopTypeOK
    /\ \A k \in Tasks : task[k] = "run" /\ scene = "main" =>
          ~AM!animation_manager_is_animation_loaded(am)

\* Starts and ends of applications reach the animation manager in turns, and
\* no release of the semaphore is left over for the next start
\* (animation_manager.c:418-422, 455-459, desktop_scene_main.c:86, 186).
AnimationInTurns == am.failed = "none"

\* The invariant behind the two, for starts and scene changes that do not
\* overlap.  The animation is shown, or its memory is given back.
Shown ==
    /\ AM!animation_manager_is_animation_loaded(am)
    /\ am.freezed_animation_name = "none"
    /\ am.state \in {"Idle", "Blocked"}
Freed ==
    /\ ~AM!animation_manager_is_animation_loaded(am)
    /\ am.freezed_animation_name # "none"
    /\ am.state \in {"FreezedIdle", "FreezedBlocked"}

\* Between applications: the end of the last one is handled or waits.
Settled ==
    \/ queue = <<>> /\ Shown
    \/ queue = <<"AfterAppFinished">> /\ Freed

\* Task k has not yet told the desktop of its start, or has told it of its
\* end; it waits for the semaphore; or it owns the memory of the animation.
BeforeOrAfter(k) ==
    \/ task[k] \in {"created", "start event"}
    \/ task[k] = "starting" /\ callback[k] = "send"
    \/ task[k] = "stopping" /\ callback[k] = "done"
WaitsForMemory(k) == task[k] = "starting" /\ callback[k] = "wait"
OwnsMemory(k) ==
    \/ task[k] = "starting" /\ callback[k] = "done"
    \/ task[k] \in {"started", "run", "stopped", "freed", "rested", "stop event"}
    \/ task[k] = "stopping" /\ callback[k] = "send"

\* Where the desktop is, for each place of the one task in the main scene.
AppInTurn(k) ==
    /\ BeforeOrAfter(k) => semaphore = 0 /\ Settled
    /\ WaitsForMemory(k) =>
          \/ semaphore = 0 /\ queue = <<"BeforeAppStarted">> /\ Shown
          \/ semaphore = 0 /\ queue = <<"AfterAppFinished", "BeforeAppStarted">> /\ Freed
          \/ semaphore = 1 /\ queue = <<>> /\ Freed
    /\ OwnsMemory(k) => semaphore = 0 /\ queue = <<>> /\ Freed

NoTask == \A k \in Tasks : task[k] = "none"

\* A start, or the command that may make one, has the lock.
Claimed == Starters # {} \/ (pc[Cli] = "executing" /\ CliAlone)

\* Tasks that publish are in the callback, or past it.
CallbacksConsistent ==
    \A k \in Tasks :
        /\ callback[k] # "none" <=> task[k] \in {"starting", "stopping"}
        /\ callback[k] \in {"send", "wait"} => subscribed
        /\ callback[k] = "wait" => task[k] = "starting"

\* The scene changes while nothing else goes on.
ScenesConsistent ==
    /\ SceneChanging => lock_count = 0 /\ NoTask
    /\ desktop = "exit" => scene = "main" /\ queue = <<>>
    /\ desktop = "enter" => scene = "lock_menu" /\ queue = <<>>

\* In the main scene one task at a time takes its turn; else nobody does.
TurnsConsistent ==
    /\ subscribed =>
        /\ Claimed => NoTask
        /\ \A k, l \in Tasks : task[k] # "none" /\ task[l] # "none" => k = l
        /\ \A k \in Tasks : task[k] # "none" => AppInTurn(k)
    /\ (NoTask \/ ~subscribed) =>
        /\ semaphore = 0
        /\ Settled \/ (Shown /\ \E e \in SceneEvents : queue = <<e>>)
        /\ ~subscribed => Shown

TurnsInv ==
    /\ DesktopTypeOK
    /\ am \in AM!AnimationManagerStruct
    /\ AnimationInTurns
    /\ CallbacksConsistent
    /\ ScenesConsistent
    /\ TurnsConsistent

\* "there is no task waiting for start/stop semaphore" when the desktop leaves
\* its main scene (desktop_scene_main.c:178-182): the task would hold the mutex
\* that the desktop needs, and wait for the desktop.
NoTaskWaitsOnExit ==
    desktop = "exit" =>
        ~\E k \in Tasks : callback[k] = "wait" /\ semaphore = 0
=============================================================================
