------------------------------ MODULE KeyEvents ------------------------------
(***************************************************************************)
(* What the input service promises to the gui: the events of each key come *)
(* as Press, then either Short or Long and Repeats, then Release, whatever *)
(* the other keys do.  A Long or Repeat may overtake the Press, because it *)
(* is published by another task; the gui discards it then.  A key that was *)
(* down at the start has no Press.                                         *)
(*                                                                         *)
(* InputService implements this specification; Gui is built on it.         *)
(***************************************************************************)
EXTENDS Naturals, Sequences

CONSTANTS Keys,           \* the keys in use, by the names of InputKey
          InputQueueSize  \* of gui->input_queue

InputKey == {"Up", "Down", "Right", "Left", "Ok", "Back"}
InputType == {"Press", "Release", "Short", "Long", "Repeat"}
InputEvent == [key : InputKey, type : InputType]

ASSUME KeyEventsAssumption ==
    /\ Keys \subseteq InputKey
    /\ InputQueueSize \in Nat \ {0}

VARIABLES stage,       \* stage[k]: the event of k that is due
          long,        \* long[k]: k's Long has been published
          input_queue  \* gui->input_queue

keyVars == <<stage, long, input_queue>>

Event(k, t) == [key |-> k, type |-> t]

KeyInit ==
    /\ stage \in [Keys -> {"up", "down"}]
    /\ long = [k \in Keys |-> FALSE]
    /\ input_queue = <<>>

Goes(k, from, to) ==
    /\ stage[k] = from
    /\ stage' = [stage EXCEPT ![k] = to]

Publish(k, t) ==
    /\ Len(input_queue) < InputQueueSize
    /\ input_queue' = Append(input_queue, Event(k, t))

\* k goes down ...
Down(k) == Goes(k, "up", "press") /\ UNCHANGED <<long, input_queue>>
Press(k) == Goes(k, "press", "down") /\ Publish(k, "Press") /\ UNCHANGED long

\* ... is held ...
Long(k) ==
    /\ stage[k] \in {"press", "down"}
    /\ ~long[k]
    /\ Publish(k, "Long")
    /\ long' = [long EXCEPT ![k] = TRUE]
    /\ UNCHANGED stage

Repeat(k) ==
    /\ stage[k] \in {"press", "down"}
    /\ long[k]
    /\ Publish(k, "Repeat")
    /\ UNCHANGED <<stage, long>>

\* ... and goes up.
Up(k) ==
    /\ Goes(k, "down", IF long[k] THEN "release" ELSE "short")
    /\ long' = [long EXCEPT ![k] = FALSE]
    /\ UNCHANGED input_queue

Short(k) == Goes(k, "short", "release") /\ Publish(k, "Short") /\ UNCHANGED long
Release(k) == Goes(k, "release", "up") /\ Publish(k, "Release") /\ UNCHANGED long

\* The gui takes an event.
Take ==
    /\ input_queue # <<>>
    /\ input_queue' = Tail(input_queue)
    /\ UNCHANGED <<stage, long>>

Due(k) == Press(k) \/ Short(k) \/ Release(k)

KeyNext ==
    \/ \E k \in Keys : Down(k) \/ Long(k) \/ Repeat(k) \/ Up(k) \/ Due(k)
    \/ Take

KeySpec == KeyInit /\ [][KeyNext]_keyVars
=============================================================================
