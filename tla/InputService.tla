---------------------------- MODULE InputService ----------------------------
(***************************************************************************)
(* The input service, applications/input/input.c: a thread that scans the  *)
(* pins whenever an interrupt has woken it, and one periodic timer per key *)
(* that tells short, long and repeated presses apart.  Both publish events *)
(* on a pubsub whose subscriber, the gui, puts them in a bounded queue and *)
(* waits while that is full (gui_input_events_callback in gui.c).          *)
(*                                                                         *)
(* The timers' callbacks run in one timer task: stopping a timer waits     *)
(* until that task has handled the stop, between two callbacks.  The       *)
(* publisher's mutex adds nothing here: *)
(* an event that is published is put in the queue in one step.             *)
(***************************************************************************)
EXTENDS Naturals, Sequences

CONSTANTS Keys,             \* the keys in use, by the names of InputKey
          DebounceTicks,    \* INPUT_DEBOUNCE_TICKS
          LongPressCounts,  \* INPUT_LONG_PRESS_COUNTS
          InputQueueSize,   \* of gui->input_queue
          MaxChanges        \* bound: changes of the pins in a behaviour

ASSUME InputAssumption ==
    /\ {DebounceTicks, LongPressCounts, InputQueueSize} \subseteq Nat \ {0}
    /\ MaxChanges \in Nat

VARIABLES pin,          \* pin[k]: the level of k's pin, TRUE when pressed
          isr,          \* INPUT_THREAD_FLAG_ISR
          scan,         \* keys the present pass has still to look at
          is_changing,
          pin_states,   \* input->pin_states
          stopping,     \* the key whose timer the input thread is stopping
          sending,      \* events the input thread has still to publish
          ticking,      \* the event the timer task has still to publish
          input_queue,  \* gui->input_queue
          changes       \* changes of the pins so far

inputVars == <<pin, isr, scan, is_changing, pin_states, stopping, sending,
               ticking, input_queue, changes>>

Event(k, t) == [key |-> k, type |-> t]

\* A key may be down when the service starts.
input_srv ==
    /\ pin \in [Keys -> BOOLEAN]
    /\ isr = FALSE
    /\ scan = Keys
    /\ is_changing = FALSE
    /\ pin_states = [k \in Keys |->
            [state |-> pin[k], debounce |-> DebounceTicks \div 2,
             press_timer |-> FALSE, press_counter |-> 0]]
    /\ stopping = {}
    /\ sending = <<>>
    /\ ticking = <<>>
    /\ input_queue = <<>>
    /\ changes = 0

\* Mutant: a pin interrupts on one edge only.
InterruptOnPress(k) ==
    /\ changes < MaxChanges
    /\ changes' = changes + 1
    /\ pin' = [pin EXCEPT ![k] = ~@]
    /\ isr' = (isr \/ ~pin[k])
    /\ UNCHANGED <<scan, is_changing, pin_states, stopping, sending, ticking,
                   input_queue>>

\* The user presses or releases a key: its pin changes and interrupts.
input_isr(k) ==
    /\ changes < MaxChanges
    /\ changes' = changes + 1
    /\ pin' = [pin EXCEPT ![k] = ~@]
    /\ isr' = TRUE
    /\ UNCHANGED <<scan, is_changing, pin_states, stopping, sending, ticking,
                   input_queue>>

Debouncing(k) == pin_states[k].debounce \in 1..(DebounceTicks - 1)
Scanning == stopping = {} /\ sending = <<>>

\* One pin of a pass.
ScanPin(k) ==
    /\ Scanning
    /\ k \in scan
    /\ scan' = scan \ {k}
    /\ \/ /\ Debouncing(k)
          /\ is_changing' = TRUE
          /\ pin_states' = [pin_states EXCEPT ![k].debounce =
                                IF pin[k] THEN @ + 1 ELSE @ - 1]
          /\ UNCHANGED <<stopping, sending>>
       \/ /\ ~Debouncing(k)
          /\ pin[k] /\ ~pin_states[k].state
          /\ pin_states' = [pin_states EXCEPT ![k].state = TRUE,
                                              ![k].press_timer = TRUE]
          /\ sending' = <<Event(k, "Press")>>
          /\ UNCHANGED <<is_changing, stopping>>
       \/ /\ ~Debouncing(k)
          /\ ~pin[k] /\ pin_states[k].state
          /\ pin_states' = [pin_states EXCEPT ![k].state = FALSE]
          /\ stopping' = {k}
          /\ UNCHANGED <<is_changing, sending>>
       \/ /\ ~Debouncing(k)
          /\ pin[k] = pin_states[k].state
          /\ UNCHANGED <<is_changing, pin_states, stopping, sending>>
    /\ UNCHANGED <<pin, isr, ticking, input_queue, changes>>

\* What a release publishes: Short, unless Long was, and then Release.
Released(k) ==
    (IF pin_states[k].press_counter < LongPressCounts
     THEN <<Event(k, "Short")>> ELSE <<>>) \o <<Event(k, "Release")>>

StopWithoutWaiting(k) ==
    /\ k \in stopping
    /\ pin_states' = [pin_states EXCEPT ![k].press_timer = FALSE,
                                        ![k].press_counter = 0]
    /\ stopping' = {}
    /\ sending' = Released(k)
    /\ UNCHANGED <<pin, isr, scan, is_changing, ticking, input_queue, changes>>

\* The timer task has stopped k's timer, and the input thread goes on.
input_timer_stop(k) ==
    /\ k \in stopping
    /\ ticking = <<>>
    /\ pin_states' = [pin_states EXCEPT ![k].press_timer = FALSE,
                                        ![k].press_counter = 0]
    /\ stopping' = {}
    /\ sending' = Released(k)
    /\ UNCHANGED <<pin, isr, scan, is_changing, ticking, input_queue, changes>>

PassWithoutInterrupt ==
    /\ Scanning
    /\ scan = {}
    /\ is_changing
    /\ scan' = Keys
    /\ is_changing' = FALSE
    /\ UNCHANGED <<pin, isr, pin_states, stopping, sending, ticking,
                   input_queue, changes>>

\* After a pass: again after a tick while a pin is changing, otherwise when
\* an interrupt has set the flag.
NextPass ==
    /\ Scanning
    /\ scan = {}
    /\ is_changing \/ isr
    /\ scan' = Keys
    /\ is_changing' = FALSE
    /\ isr' = (is_changing /\ isr)
    /\ UNCHANGED <<pin, pin_states, stopping, sending, ticking, input_queue,
                   changes>>

input_press_timer_callback(k) ==
    /\ pin_states[k].press_timer
    /\ ticking = <<>>
    /\ LET c == pin_states[k].press_counter + 1
       IN  /\ pin_states' = [pin_states EXCEPT ![k].press_counter =
                                IF c > LongPressCounts THEN @ ELSE c]
           /\ ticking' = CASE c < LongPressCounts -> <<>>
                           [] c = LongPressCounts -> <<Event(k, "Long")>>
                           [] c > LongPressCounts -> <<Event(k, "Repeat")>>
    /\ UNCHANGED <<pin, isr, scan, is_changing, stopping, sending, input_queue,
                   changes>>

\* The subscriber's callback waits while the gui's queue is full.
gui_input_events_callback(e) ==
    /\ Len(input_queue) < InputQueueSize
    /\ input_queue' = Append(input_queue, e)
    /\ UNCHANGED <<pin, isr, scan, is_changing, pin_states, stopping, changes>>

ThreadPublishes ==
    /\ sending # <<>>
    /\ gui_input_events_callback(Head(sending))
    /\ sending' = Tail(sending)
    /\ UNCHANGED ticking

TimerPublishes ==
    /\ ticking # <<>>
    /\ gui_input_events_callback(Head(ticking))
    /\ ticking' = <<>>
    /\ UNCHANGED sending

\* The gui thread takes an event out of its queue.
GuiTakes ==
    /\ input_queue # <<>>
    /\ input_queue' = Tail(input_queue)
    /\ UNCHANGED <<pin, isr, scan, is_changing, pin_states, stopping, sending,
                   ticking, changes>>

InputThread ==
    \/ \E k \in Keys : ScanPin(k) \/ input_timer_stop(k)
    \/ NextPass
    \/ ThreadPublishes

InputNext ==
    \/ \E k \in Keys : input_isr(k)
    \/ InputThread
    \/ \E k \in Keys : input_press_timer_callback(k)
    \/ TimerPublishes
    \/ GuiTakes

\* The input thread, the timer task and the gui thread run; no key has to be
\* pressed and no timer has to expire.  The input thread gets its turn at the
\* queue and the timer task handles a stop before the next expiry: both are
\* served in order by the kernel.
InputFairness ==
    /\ SF_inputVars(InputThread)
    /\ WF_inputVars(TimerPublishes)
    /\ WF_inputVars(GuiTakes)

InputSpec == input_srv /\ [][InputNext]_inputVars /\ InputFairness

-----------------------------------------------------------------------------
(* Properties *)

\* The event of k that is due, in terms of the abstract specification.
Sends(k, t) == sending # <<>> /\ Head(sending) = Event(k, t)
Stage(k) ==
    CASE Sends(k, "Press") -> "press"
      [] Sends(k, "Short") -> "short"
      [] Sends(k, "Release") -> "release"
      [] OTHER -> IF pin_states[k].state \/ k \in stopping THEN "down" ELSE "up"

Abstract == INSTANCE KeyEvents WITH
    stage <- [k \in Keys |-> Stage(k)],
    long <- [k \in Keys |-> /\ pin_states[k].press_counter = LongPressCounts
                           /\ ticking # <<Event(k, "Long")>>]

\* The events of every key reach the gui as KeyEvents says, although the input
\* thread and the timer task publish them and share press_counter without a
\* lock: no press gives a Short and a Long, none comes after the Release.
ImplementsKeyEvents == Abstract!KeySpec

\* A change of a key's level is seen by the input thread: no interrupt is lost
\* between the scan and the wait for the flag (input.c:95, 131).
KeyChangesAreSeen ==
    \A k \in Keys : pin[k] # pin_states[k].state ~> pin[k] = pin_states[k].state

\* Why it is: a level that the thread has not noted yet has the interrupt's flag
\* set, its key still to be scanned in this pass, or another pass to come, at
\* every moment of the scan, also while the thread waits for the gui's queue
\* (input.c:39-41, 94-136).
ChangeIsPending ==
    \A k \in Keys : pin[k] # pin_states[k].state => isr \/ is_changing \/ k \in scan
=============================================================================
