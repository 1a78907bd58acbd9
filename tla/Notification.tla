---------------------------- MODULE Notification ----------------------------
(***************************************************************************)
(* The notification service with the threads around it: key events, the    *)
(* display timer, an application, the power service that shows the state   *)
(* of the battery, and the storage thread, which notifies while it mounts  *)
(* a card and on which the notification thread itself waits when it saves  *)
(* its settings.                                                           *)
(*                                                                         *)
(* Each light has an internal layer and a notification layer over it.  A   *)
(* light is on or off: brightness and volume are left out, and so are the  *)
(* pauses of a few milliseconds.                                           *)
(***************************************************************************)
EXTENDS Integers, Sequences

CONSTANTS QUEUE,         \* size of the service's queue
          MAX_INIT,      \* max_init_counts, the attempts to mount a card
          AppCalls,      \* the sequences applications send
          MaxEvents      \* bound: keys, application calls, charger and card events

ASSUME NotificationAssumption == {QUEUE, MAX_INIT} \subseteq Nat \ {0} /\ MaxEvents \in Nat

VARIABLES queue,         \* app->queue
          nt,            \* the notification thread: what it processes, its local variables
          layer,         \* app->led and app->display
          light,         \* what furi_hal_light_set was last told
          vibro, sound,
          timer,         \* display_timer is running
          timerTask,     \* the timer's task is in notification_display_timer
          app,           \* the application: "idle" or "waiting" for back_event
          power,         \* power->state
          storage,       \* the storage thread: [pc, counter]
          events         \* external events so far

vars == <<queue, nt, layer, light, vibro, sound, timer, timerTask, app, power, storage, events>>
outputs == <<layer, light, vibro, sound>>

Leds == {"red", "green", "blue"}

(***************************************************************************)
(* notification_messages.c and sd_notify.c: sequences of messages.         *)
(***************************************************************************)
Led(l, v)  == [t |-> "led", of |-> l, on |-> v]
Display(v) == [t |-> "display", on |-> v]
Lock(v)    == [t |-> "lock", on |-> v]    \* DisplayLock and DisplayUnlock
Vibro(v)   == [t |-> "vibro", on |-> v]
Sound(v)   == [t |-> "sound", on |-> v]
Delay      == [t |-> "delay"]
DoNotReset == [t |-> "keep"]

Message == [t : {"led"}, of : Leds, on : BOOLEAN]
           \cup [t : {"display", "lock", "vibro", "sound"}, on : BOOLEAN]
           \cup [t : {"delay", "keep"}]

ASSUME AppCallsAssumption == AppCalls \subseteq Seq(Message)

display_on      == <<Display(TRUE)>>
display_off     == <<Display(FALSE)>>
display_lock    == <<Lock(TRUE)>>
display_unlock  == <<Lock(FALSE)>>
set_red         == <<Led("red", TRUE), DoNotReset>>
success         == <<Display(TRUE), Led("green", TRUE), Vibro(TRUE), Sound(TRUE), Delay,
                     Vibro(FALSE), Delay, Sound(FALSE)>>
sd_wait         == <<Led("red", TRUE), Led("blue", TRUE), DoNotReset>>
sd_wait_off     == <<Led("red", FALSE), Led("blue", FALSE)>>
sd_success      == <<Led("green", TRUE), Delay, Led("green", FALSE), Delay>>
sd_error        == <<Led("red", TRUE), Delay, Led("red", FALSE), Delay>>

\* sequence_charging, sequence_charged and sequence_not_charging.
Colour(s) == [l \in Leds |-> \/ l = "red"   /\ s = "Charging"
                             \/ l = "green" /\ s = "Charged"]
PowerSequence(s) ==
    LET shows(l) == Led(l, Colour(s)[l])
    IN  IF s = "Charged" THEN <<shows("green"), shows("red")>>
                         ELSE <<shows("red"), shows("green")>>

(***************************************************************************)
(* Layers.                                                                 *)
(***************************************************************************)
\* notification_apply_internal_led_layer.
ApplyInternal(l, v) ==
    /\ layer' = [layer EXCEPT ![l].internal = v]
    /\ light' = IF layer[l].index = "Internal" THEN [light EXCEPT ![l] = v] ELSE light

\* notification_apply_notification_led_layer.
ApplyNotification(ls, v) ==
    /\ layer' = [l \in DOMAIN layer |->
         IF l \in ls THEN [layer[l] EXCEPT !.notification = v[l], !.index = "Notification"]
                     ELSE layer[l]]
    /\ light' = [l \in DOMAIN light |-> IF l \in ls THEN v[l] ELSE light[l]]

\* Mutant: the light goes out, whatever the layer below it says.
ResetToDark(ls) ==
    /\ layer' = [l \in DOMAIN layer |->
         IF l \in ls THEN [layer[l] EXCEPT !.notification = FALSE, !.index = "Internal"]
                     ELSE layer[l]]
    /\ light' = [l \in DOMAIN light |-> IF l \in ls THEN FALSE ELSE light[l]]

\* notification_reset_notification_led_layer.
ResetNotification(ls) ==
    /\ layer' = [l \in DOMAIN layer |->
         IF l \in ls THEN [layer[l] EXCEPT !.notification = FALSE, !.index = "Internal"]
                     ELSE layer[l]]
    /\ light' = [l \in DOMAIN light |-> IF l \in ls THEN layer[l].internal ELSE light[l]]

\* notification_is_any_led_layer_internal_and_not_empty.
InternalNotEmpty ==
    /\ \E l \in Leds : layer[l].index = "Internal"
    /\ \E l \in Leds : layer[l].internal

Off == [l \in Leds |-> FALSE]

(***************************************************************************)
(* Posting: osMessageQueuePut with osWaitForever.                          *)
(***************************************************************************)
Put(type, seq, back) ==
    /\ Len(queue) < QUEUE
    /\ queue' = Append(queue, [type |-> type, seq |-> seq, back |-> back])

\* Something happens outside of these threads.
Occurs == events < MaxEvents /\ events' = events + 1

\* input_event_callback.
KeyEvent ==
    /\ Occurs
    /\ Put("notification", display_on, FALSE)
    /\ UNCHANGED <<nt, outputs, timer, timerTask, app, power, storage>>

\* notification_message, notification_message_block.
AppMessage(seq, block) ==
    /\ app = "idle"
    /\ Occurs
    /\ Put("notification", seq, block)
    /\ app' = IF block THEN "waiting" ELSE "idle"
    /\ UNCHANGED <<nt, outputs, timer, timerTask, power, storage>>

\* notification_message_save_settings.
AppSaves ==
    /\ app = "idle"
    /\ Occurs
    /\ Put("save", <<>>, TRUE)
    /\ app' = "waiting"
    /\ UNCHANGED <<nt, outputs, timer, timerTask, power, storage>>

\* power_check_charging_state: the charger (external) has changed.
PowerPass(s) ==
    /\ s # power
    /\ Occurs
    /\ Put("internal", PowerSequence(s), FALSE)
    /\ power' = s
    /\ UNCHANGED <<nt, outputs, timer, timerTask, app, storage>>

\* The display timer expires; its task then posts.
TimerExpires ==
    /\ timer /\ ~timerTask
    /\ timer' = FALSE
    /\ timerTask' = TRUE
    /\ UNCHANGED <<queue, nt, outputs, app, power, storage, events>>

\* notification_display_timer.
TimerPosts ==
    /\ timerTask
    /\ Put("notification", display_off, FALSE)
    /\ timerTask' = FALSE
    /\ UNCHANGED <<nt, outputs, timer, app, power, storage, events>>

(***************************************************************************)
(* The storage thread: storage_ext_tick_internal and sd_mount_card with    *)
(* notify.  A tick comes only when no request waits.                       *)
(***************************************************************************)
StorageTo(pc, counter) == storage' = [pc |-> pc, counter |-> counter]

CardDetected ==
    /\ storage.pc = "idle"
    /\ nt.pc # "saving"
    /\ Occurs
    /\ StorageTo("wait", MAX_INIT)
    /\ UNCHANGED <<queue, nt, outputs, timer, timerTask, app, power>>

StoragePosts ==
    /\ \/ /\ storage.pc = "wait"
          /\ Put("notification", sd_wait, FALSE)
          /\ StorageTo("wait_off", storage.counter)
       \/ /\ storage.pc = "wait_off"
          /\ Put("notification", sd_wait_off, FALSE)
          /\ \/ StorageTo("success", 0)
             \/ IF storage.counter > 1 THEN StorageTo("wait", storage.counter - 1)
                                       ELSE StorageTo("error", 0)
       \/ /\ storage.pc = "success"
          /\ Put("notification", sd_success, FALSE)
          /\ StorageTo("idle", 0)
       \/ /\ storage.pc = "error"
          /\ Put("notification", sd_error, FALSE)
          /\ StorageTo("idle", 0)
    /\ UNCHANGED <<nt, outputs, timer, timerTask, app, power, events>>

(***************************************************************************)
(* The notification thread.                                                *)
(***************************************************************************)
Rest == [pc |-> "idle", items |-> <<>>, back |-> FALSE,
         led_active |-> FALSE, led_values |-> Off, reset_mask |-> {}, reset |-> TRUE,
         display_led_lock |-> 0]

\* notification_srv takes the next message.
Take ==
    /\ nt.pc = "idle"
    /\ queue # <<>>
    /\ queue' = Tail(queue)
    /\ nt' = [Rest EXCEPT !.pc = IF Head(queue).type = "save" THEN "saving" ELSE Head(queue).type,
                          !.items = Head(queue).seq, !.back = Head(queue).back]
    /\ UNCHANGED <<outputs, timer, timerTask, app, power, storage, events>>

item == Head(nt.items)
Went(n) == nt' = [n EXCEPT !.items = Tail(@)]
Masked(n, s) == [n EXCEPT !.reset_mask = @ \cup s]

\* One message of notification_process_internal_message.
InternalItem ==
    /\ nt.pc = "internal"
    /\ nt.items # <<>>
    /\ ApplyInternal(IF item.t = "display" THEN "display" ELSE item.of, item.on)
    /\ Went(nt)
    /\ UNCHANGED <<queue, vibro, sound, timer, timerTask, app, power, storage, events>>

ItemDisplay ==
    /\ item.t = "display"
    /\ IF item.on THEN ApplyNotification({"display"}, [l \in {"display"} |-> TRUE]) /\ UNCHANGED timer
                  ELSE ResetNotification({"display"}) /\ timer' = FALSE
    /\ Went(Masked(nt, {"display"}))
    /\ UNCHANGED <<vibro, sound>>

\* display_led_lock counts within one sequence only; where the assertions are
\* not compiled in, it wraps.
ItemLock ==
    /\ item.t = "lock"
    /\ LET locks == (nt.display_led_lock + (IF item.on THEN 1 ELSE 255)) % 256
       IN  /\ IF locks = (IF item.on THEN 1 ELSE 0) THEN ApplyInternal("display", item.on)
                                                     ELSE UNCHANGED <<layer, light>>
           /\ Went([nt EXCEPT !.display_led_lock = locks])
    /\ UNCHANGED <<vibro, sound, timer>>

\* Stored, and sent on a delay or after the sequence.
ItemLed ==
    /\ item.t = "led"
    /\ Went([Masked(nt, {item.of}) EXCEPT !.led_active = TRUE, !.led_values[item.of] = item.on])
    /\ UNCHANGED <<outputs, timer>>

ItemVibro ==
    /\ item.t = "vibro"
    /\ vibro' = item.on
    /\ Went(Masked(nt, {"vibro"}))
    /\ UNCHANGED <<layer, light, sound, timer>>

ItemSound ==
    /\ item.t = "sound"
    /\ sound' = item.on
    /\ Went(Masked(nt, {"sound"}))
    /\ UNCHANGED <<layer, light, vibro, timer>>

ItemDelay ==
    /\ item.t = "delay"
    /\ IF nt.led_active
       THEN /\ ApplyNotification(Leds, nt.led_values)
            /\ Went([Masked(nt, Leds) EXCEPT !.led_active = FALSE])
       ELSE Went(nt) /\ UNCHANGED <<layer, light>>
    /\ UNCHANGED <<vibro, sound, timer>>

ItemDoNotReset ==
    /\ item.t = "keep"
    /\ Went([nt EXCEPT !.reset = FALSE])
    /\ UNCHANGED <<outputs, timer>>

\* One message of notification_process_notification_message.
NotificationItem ==
    /\ nt.pc = "notification"
    /\ nt.items # <<>>
    /\ \/ ItemDisplay \/ ItemLock \/ ItemLed \/ ItemVibro
       \/ ItemSound \/ ItemDelay \/ ItemDoNotReset
    /\ UNCHANGED <<queue, timerTask, app, power, storage, events>>

\* After the last message: the colours not sent yet are sent, and put out
\* again where an internal colour was shown.
SendLeds ==
    /\ nt.pc = "notification"
    /\ nt.items = <<>>
    /\ nt.led_active
    /\ ApplyNotification(Leds, IF InternalNotEmpty THEN Off ELSE nt.led_values)
    /\ nt' = [Masked(nt, Leds) EXCEPT !.led_active = FALSE]
    /\ UNCHANGED <<queue, vibro, sound, timer, timerTask, app, power, storage, events>>

\* The end of a message in notification_srv: back_event is set.
Complete ==
    /\ nt' = Rest
    /\ app' = IF nt.back THEN "idle" ELSE app

\* Mutant: the timer is left to the sequence that switched the display on.
ResetLeavesTimer ==
    /\ ResetNotification(nt.reset_mask \cap Leds)
    /\ vibro' = (vibro /\ "vibro" \notin nt.reset_mask)
    /\ sound' = (sound /\ "sound" \notin nt.reset_mask)
    /\ UNCHANGED timer

\* notification_reset_notification_layer.
ResetLayer ==
    /\ ResetNotification(nt.reset_mask \cap Leds)
    /\ vibro' = (vibro /\ "vibro" \notin nt.reset_mask)
    /\ sound' = (sound /\ "sound" \notin nt.reset_mask)
    /\ timer' = (timer \/ "display" \in nt.reset_mask)

EndNotification ==
    /\ nt.pc = "notification"
    /\ nt.items = <<>>
    /\ ~nt.led_active
    /\ IF nt.reset THEN ResetLayer ELSE UNCHANGED <<outputs, timer>>
    /\ Complete
    /\ UNCHANGED <<queue, timerTask, power, storage, events>>

EndInternal ==
    /\ nt.pc = "internal"
    /\ nt.items = <<>>
    /\ Complete
    /\ UNCHANGED <<queue, outputs, timer, timerTask, power, storage, events>>

\* Mutant: the client of a saved setting is not told.
SaveForgetsBack ==
    /\ nt.pc = "saving"
    /\ storage.pc = "idle"
    /\ nt' = Rest
    /\ UNCHANGED <<queue, outputs, timer, timerTask, app, power, storage, events>>

\* notification_save_settings: its requests are served when the storage
\* thread is back at its queue.
EndSave ==
    /\ nt.pc = "saving"
    /\ storage.pc = "idle"
    /\ Complete
    /\ UNCHANGED <<queue, outputs, timer, timerTask, power, storage, events>>

(***************************************************************************)
(* The specification.                                                      *)
(***************************************************************************)
\* notification_app_alloc, with the display switched on.
Init ==
    /\ queue = <<[type |-> "notification", seq |-> display_on, back |-> FALSE]>>
    /\ nt = Rest
    /\ layer = [l \in Leds \cup {"display"} |->
                  [internal |-> FALSE, notification |-> FALSE, index |-> "Internal"]]
    /\ light = [l \in Leds \cup {"display"} |-> FALSE]
    /\ vibro = FALSE /\ sound = FALSE
    /\ timer = FALSE /\ timerTask = FALSE
    /\ app = "idle"
    /\ power = "NotCharging"
    /\ storage = [pc |-> "idle", counter |-> 0]
    /\ events = 0

Thread == \/ Take \/ InternalItem \/ NotificationItem \/ SendLeds
          \/ EndNotification \/ EndInternal \/ EndSave

Environment ==
    \/ KeyEvent
    \/ \E seq \in AppCalls, block \in BOOLEAN : AppMessage(seq, block)
    \/ AppSaves
    \/ \E s \in {"NotCharging", "Charging", "Charged"} : PowerPass(s)
    \/ CardDetected

Next == Thread \/ TimerExpires \/ TimerPosts \/ StoragePosts \/ Environment

\* The threads run and the timer expires; keys and the rest come or not.
Spec ==
    /\ Init /\ [][Next]_vars
    /\ WF_vars(Thread) /\ WF_vars(TimerExpires) /\ WF_vars(TimerPosts) /\ WF_vars(StoragePosts)

(***************************************************************************)
(* Properties.                                                             *)
(***************************************************************************)
\* Types; between two messages the thread's local variables say nothing.
NotificationTypeOK ==
    /\ Len(queue) <= QUEUE
    /\ nt.pc \in {"idle", "notification", "internal", "saving"}
    /\ nt.pc = "idle" => nt = Rest
    /\ nt.reset_mask \subseteq Leds \cup {"display", "vibro", "sound"}
    /\ layer \in [Leds \cup {"display"} -> [internal : BOOLEAN, notification : BOOLEAN,
                                            index : {"Internal", "Notification"}]]
    /\ light \in [DOMAIN layer -> BOOLEAN]
    /\ app \in {"idle", "waiting"}
    /\ storage.pc \in {"idle", "wait", "wait_off", "success", "error"}
    /\ storage.counter \in 0 .. MAX_INIT

\* The LED shows the state of the battery (power_check_charging_state) as
\* soon as the service has handled all that was posted and no notification
\* lies over it, whatever notifications came before, between and after.
ChargeShown ==
  /\ NotificationTypeOK
  /\ nt.pc = "idle" /\ (\A i \in DOMAIN queue : queue[i].type # "internal") =>
       \A l \in {"red", "green"} :
           layer[l].index = "Internal" => light[l] = Colour(power)[l]

\* Every back_event that is still to be set belongs to a caller that waits for
\* it, and every caller that waits has one: a caller deletes its event as soon
\* as it is set, and waits without a timeout (notification_app_api.c:19-27,
\* notification_app.c:29-34, 498-500).
Owed == {i \in DOMAIN queue : queue[i].back}
BackEventAwaited ==
  /\ app = "idle" => Owed = {} /\ ~nt.back
  /\ app = "waiting" => IF nt.back THEN Owed = {} ELSE \E i \in DOMAIN queue : Owed = {i}

\* Vibration and sound do not outlast the sequence that began them, and while
\* the display is on there is a timer, a running sequence or a posted one that
\* ends it: notification_reset_notification_layer never leaves it to nobody
\* (notification_app.c:92-111, 177-192).
Shows(seq) == \E i \in DOMAIN seq : seq[i].t = "display"
DisplayIsTimed ==
  /\ vibro \/ sound => nt.pc = "notification"
  /\ layer["display"].index = "Notification" =>
       \/ timer \/ timerTask
       \/ nt.pc = "notification" /\ ("display" \in nt.reset_mask \/ Shows(nt.items))
       \/ \E i \in DOMAIN queue : queue[i].type = "notification" /\ Shows(queue[i].seq)

\* DisplayIsTimed takes sequences that do not ask to keep what outlasts a
\* message: all of the repository, but for sequence_set_vibro_on, which only a test and a
\* command of the cli send (notification_messages.c:184-188).
Lasting == {"display", "vibro", "sound"}
Has(seq, types) == \E i \in DOMAIN seq : seq[i].t \in types
EndsItself(seq) == Has(seq, {"keep"}) => ~Has(seq, Lasting)
AppCallsEnd == \A seq \in AppCalls : EndsItself(seq)

\* The assertions of the display's lock: it is taken at most 255 times and
\* given back only where it was taken (notification_app.c:194, 203).
LockIsNested ==
  nt.pc = "notification" /\ nt.items # <<>> /\ item.t = "lock" =>
    IF item.on THEN nt.display_led_lock < 255 ELSE nt.display_led_lock > 0

\* Keys and calls having ceased, the display leaves its notification layer
\* and vibration and sound stop: the timer that notification_reset_
\* notification_layer starts is never missed.
EverythingEnds == <>[](layer["display"].index = "Internal" /\ ~vibro /\ ~sound)

\* Who waits for back_event is released: notification_message_block and
\* notification_message_save_settings return.
BlockedCallReturns == app = "waiting" ~> app = "idle"

============================================================================
