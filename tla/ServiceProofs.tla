--------------------------- MODULE ServiceProofs ---------------------------
(***************************************************************************)
(* Proofs about two services.                                              *)
(*                                                                         *)
(* InputService implements KeyEvents, for any keys, any number of changes  *)
(* of the pins and any sizes.  Gui is built on KeyEvents, so this carries  *)
(* what is proved of it over to the events that input.c makes.             *)
(*                                                                         *)
(* Notification shows the state of the battery under any notifications,    *)
(* answers every caller that waits and leaves no display without an end.   *)
(*                                                                         *)
(* Fairness plays no part in either.                                       *)
(***************************************************************************)
EXTENDS Integers, InputService, Notification, SequenceTheorems, TLAPS

(***************************************************************************)
(* The input service                                                       *)
(***************************************************************************)
\* What the input thread has to publish, P, S and R, and the timer task, L and T.
P(k) == <<Event(k, "Press")>>
S(k) == <<Event(k, "Short"), Event(k, "Release")>>
R(k) == <<Event(k, "Release")>>
L(k) == <<Event(k, "Long")>>
T(k) == <<Event(k, "Repeat")>>

\* input->pin_states[k]; only the values of the counter matter to the events.
PinState == [state : BOOLEAN, debounce : Int, press_timer : BOOLEAN,
             press_counter : 0 .. LongPressCounts]

\* Types, and the sequences of events that can be on their way.
InputTypeOK ==
    /\ pin \in [Keys -> BOOLEAN] /\ pin_states \in [Keys -> PinState]
    /\ stopping \subseteq Keys
    /\ sending = <<>> \/ \E k \in Keys : sending \in {P(k), S(k), R(k)}
    /\ ticking = <<>> \/ \E k \in Keys : ticking \in {L(k), T(k)}

\* The input thread stops one timer at a time, before it publishes.
ThreadConsistent ==
    /\ stopping # {} => sending = <<>> /\ \E k \in Keys : stopping = {k}
    /\ \A k \in Keys : k \in stopping => ~pin_states[k].state
    /\ \A k \in Keys : sending = P(k) => pin_states[k].state
    /\ \A k \in Keys : sending \in {S(k), R(k)} =>
         ~pin_states[k].state /\ ~pin_states[k].press_timer

\* A timer runs only while its key is down or the stop is under way, and only
\* a timer that runs counts and has something to publish.
TimerConsistent ==
    \A k \in Keys :
      /\ pin_states[k].press_timer => pin_states[k].state \/ k \in stopping
      /\ ~pin_states[k].press_timer => pin_states[k].press_counter = 0
      /\ ticking \in {L(k), T(k)} =>
           pin_states[k].press_timer /\ pin_states[k].press_counter = LongPressCounts

\* The inductive invariant.
InputInv == InputTypeOK /\ ThreadConsistent /\ TimerConsistent

\* An event says which key and which type it is of.
LEMMA SameEvent ==
    ASSUME NEW k, NEW j, NEW t, NEW u, Event(k, t) = Event(j, u)
    PROVE  k = j /\ t = u
<1>1. /\ Event(k, t).key = k /\ Event(k, t).type = t
      /\ Event(j, u).key = j /\ Event(j, u).type = u
  BY DEF Event
<1> QED BY <1>1

\* Events and the short sequences of them that occur.
LEMMA Events ==
    ASSUME NEW k
    PROVE  /\ Head(P(k)) = Event(k, "Press") /\ Tail(P(k)) = <<>>
           /\ Head(S(k)) = Event(k, "Short") /\ Tail(S(k)) = R(k)
           /\ Head(R(k)) = Event(k, "Release") /\ Tail(R(k)) = <<>>
           /\ Head(L(k)) = Event(k, "Long") /\ Head(T(k)) = Event(k, "Repeat")
           /\ P(k) # <<>> /\ S(k) # <<>> /\ R(k) # <<>> /\ L(k) # <<>> /\ T(k) # <<>>
           /\ <<Event(k, "Short")>> \o R(k) = S(k) /\ <<>> \o R(k) = R(k)
<1> DEFINE p == Event(k, "Press")
           s == Event(k, "Short")
           r == Event(k, "Release")
           l == Event(k, "Long")
           t == Event(k, "Repeat")
<1> HIDE DEF p, s, r, l, t
<1>1. /\ Head(<<p>>) = p /\ Tail(<<p>>) = <<>> /\ <<p>> # <<>>
      /\ Head(<<s, r>>) = s /\ <<s, r>> # <<>>
      /\ Head(<<r>>) = r /\ Tail(<<r>>) = <<>> /\ <<r>> # <<>>
      /\ Head(<<l>>) = l /\ <<l>> # <<>> /\ Head(<<t>>) = t /\ <<t>> # <<>>
  OBVIOUS
<1>2. Tail(<<s, r>>) = <<r>>
  OBVIOUS
<1>3. <<s>> \o <<r>> = <<s, r>> /\ <<>> \o <<r>> = <<r>>
  <2>1. <<s>> \in Seq({s, r}) /\ <<r>> \in Seq({s, r}) /\ <<s, r>> \in Seq({s, r})
    OBVIOUS
  <2>2. /\ <<s>> \o <<r>> \in Seq({s, r}) /\ Len(<<s>> \o <<r>>) = 2
        /\ (<<s>> \o <<r>>)[1] = s /\ (<<s>> \o <<r>>)[2] = r
    BY <2>1, ConcatProperties
  <2>3. <<s>> \o <<r>> = <<s, r>>
    <3>1. /\ Len(<<s, r>>) = 2 /\ <<s, r>>[1] = s /\ <<s, r>>[2] = r
          /\ \A i \in 1 .. 2 : i = 1 \/ i = 2
      OBVIOUS
    <3> DEFINE c == <<s>> \o <<r>>
               d == <<s, r>>
    <3>2. /\ c \in Seq({s, r}) /\ d \in Seq({s, r}) /\ Len(c) = Len(d)
          /\ \A i \in 1 .. Len(c) : c[i] = d[i]
      BY <2>1, <2>2, <3>1
    <3> HIDE DEF c, d
    <3>3. c = d
      BY <3>2, SeqEqual
    <3> QED BY <3>3 DEF c, d
  <2> QED BY <2>1, <2>3, ConcatEmptySeq
<1> QED BY <1>1, <1>2, <1>3 DEF P, S, R, L, T, p, s, r, l, t

\* What is on its way says whose it is.
LEMMA Distinct ==
    ASSUME NEW k, NEW j
    PROVE  /\ P(k) \notin {S(j), R(j)} /\ S(k) # R(j) /\ L(k) # T(j)
           /\ P(k) = P(j) => k = j
           /\ S(k) = S(j) => k = j
           /\ R(k) = R(j) => k = j
           /\ L(k) = L(j) => k = j
           /\ T(k) = T(j) => k = j
<1>1. /\ Head(P(k)) = Event(k, "Press") /\ Head(S(k)) = Event(k, "Short")
      /\ Head(R(k)) = Event(k, "Release") /\ Head(L(k)) = Event(k, "Long")
      /\ Head(T(k)) = Event(k, "Repeat")
  BY Events
<1>2. /\ Head(P(j)) = Event(j, "Press") /\ Head(S(j)) = Event(j, "Short")
      /\ Head(R(j)) = Event(j, "Release") /\ Head(L(j)) = Event(j, "Long")
      /\ Head(T(j)) = Event(j, "Repeat")
  BY Events
<1>3. \A t, u : Event(k, t) = Event(j, u) => k = j /\ t = u
  BY SameEvent
<1> QED BY <1>1, <1>2, <1>3

\* No timer runs at first, although a key may be down.
LEMMA InitInv == input_srv => InputInv
<1> SUFFICES ASSUME input_srv PROVE InputInv
  OBVIOUS
<1> USE InputAssumption DEF input_srv
<1>1. DebounceTicks \div 2 \in Int /\ 0 \in 0 .. LongPressCounts
  OBVIOUS
<1>2. pin_states \in [Keys -> PinState]
  BY <1>1 DEF PinState
<1>3. InputTypeOK
  BY <1>2 DEF InputTypeOK
<1>4. ThreadConsistent
  BY Events DEF ThreadConsistent
<1>5. TimerConsistent
  BY Events DEF TimerConsistent
<1> QED BY <1>3, <1>4, <1>5 DEF InputInv

\* What an assignment to fields of one key's pin_states leaves.
LEMMA PinStateType ==
    ASSUME NEW p \in PinState, NEW b \in BOOLEAN, NEW c \in 0 .. LongPressCounts,
           NEW i \in Int
    PROVE  /\ [p EXCEPT !.state = b] \in PinState
           /\ [p EXCEPT !.debounce = i] \in PinState
           /\ [p EXCEPT !.press_counter = c] \in PinState
           /\ [p EXCEPT !.state = b, !.press_timer = b] \in PinState
           /\ [p EXCEPT !.press_timer = b, !.press_counter = c] \in PinState
BY DEF PinState

\* A step of the input thread or the timer task changes pin_states of one key.
LEMMA PinStatesType ==
    ASSUME pin_states \in [Keys -> PinState], NEW k \in Keys, NEW p \in PinState,
           pin_states' = [pin_states EXCEPT ![k] = p]
    PROVE  /\ pin_states' \in [Keys -> PinState]
           /\ pin_states'[k] = p
           /\ \A j \in Keys : j # k => pin_states'[j] = pin_states[j]
OBVIOUS

\* A pass of the input thread starts a timer with the press, and leaves its
\* stop to input_timer_stop.
LEMMA ScanPinInv ==
    ASSUME InputInv, NEW k \in Keys, ScanPin(k)
    PROVE  InputInv'
<1> USE DEF InputInv
<1>0. /\ pin' = pin /\ ticking' = ticking /\ sending = <<>> /\ stopping = {}
      /\ pin_states[k] \in PinState
  BY DEF ScanPin, Scanning, InputTypeOK
<1>1. CASE /\ pin_states' = [pin_states EXCEPT ![k].debounce =
                                IF pin[k] THEN @ + 1 ELSE @ - 1]
           /\ UNCHANGED <<stopping, sending>>
  <2> DEFINE q == [pin_states[k] EXCEPT !.debounce = IF pin[k] THEN @ + 1 ELSE @ - 1]
  <2>1. pin_states' = [pin_states EXCEPT ![k] = q]
    BY <1>1 DEF InputTypeOK
  <2>2. /\ q \in PinState /\ q.state = pin_states[k].state
        /\ q.press_timer = pin_states[k].press_timer
        /\ q.press_counter = pin_states[k].press_counter
    BY <1>0 DEF PinState
  <2> HIDE DEF q
  <2>3. /\ pin_states' \in [Keys -> PinState] /\ pin_states'[k] = q
        /\ \A j \in Keys : j # k => pin_states'[j] = pin_states[j]
    BY <2>1, <2>2, PinStatesType DEF InputTypeOK
  <2>4. InputTypeOK'
    BY <1>0, <1>1, <2>3 DEF InputTypeOK
  <2>5. ThreadConsistent'
    BY <1>0, <1>1, <2>2, <2>3 DEF ThreadConsistent
  <2>6. TimerConsistent'
    BY <1>0, <1>1, <2>2, <2>3 DEF TimerConsistent
  <2> QED BY <2>4, <2>5, <2>6
<1>2. CASE /\ ~pin_states[k].state
           /\ pin_states' = [pin_states EXCEPT ![k].state = TRUE,
                                               ![k].press_timer = TRUE]
           /\ sending' = <<Event(k, "Press")>> /\ stopping' = stopping
  <2> DEFINE q == [pin_states[k] EXCEPT !.state = TRUE, !.press_timer = TRUE]
  <2>1. pin_states' = [pin_states EXCEPT ![k] = q]
    BY <1>2 DEF InputTypeOK
  <2>2. /\ q \in PinState /\ q.state /\ q.press_timer
        /\ q.press_counter = pin_states[k].press_counter
    BY <1>0 DEF PinState
  <2> HIDE DEF q
  <2>3. /\ pin_states' \in [Keys -> PinState] /\ pin_states'[k] = q
        /\ \A j \in Keys : j # k => pin_states'[j] = pin_states[j]
    BY <2>1, <2>2, PinStatesType DEF InputTypeOK
  <2>4. InputTypeOK' /\ sending' = P(k)
    BY <1>0, <1>2, <2>3 DEF InputTypeOK, P
  <2>5. \A j : (P(k) = P(j) => j = k) /\ P(k) \notin {S(j), R(j)}
    BY Distinct
  <2>6. ThreadConsistent'
    BY <1>0, <1>2, <2>2, <2>3, <2>4, <2>5 DEF ThreadConsistent
  <2>7. TimerConsistent'
    BY <1>0, <1>2, <2>2, <2>3 DEF TimerConsistent
  <2> QED BY <2>4, <2>6, <2>7
<1>3. CASE /\ pin_states[k].state
           /\ pin_states' = [pin_states EXCEPT ![k].state = FALSE]
           /\ stopping' = {k} /\ sending' = sending
  <2> DEFINE q == [pin_states[k] EXCEPT !.state = FALSE]
  <2>1. pin_states' = [pin_states EXCEPT ![k] = q]
    BY <1>3 DEF InputTypeOK
  <2>2. /\ q \in PinState /\ ~q.state /\ q.press_timer = pin_states[k].press_timer
        /\ q.press_counter = pin_states[k].press_counter
    BY <1>0 DEF PinState
  <2> HIDE DEF q
  <2>3. /\ pin_states' \in [Keys -> PinState] /\ pin_states'[k] = q
        /\ \A j \in Keys : j # k => pin_states'[j] = pin_states[j]
    BY <2>1, <2>2, PinStatesType DEF InputTypeOK
  <2>4. InputTypeOK'
    BY <1>0, <1>3, <2>3 DEF InputTypeOK
  <2>5. ThreadConsistent'
    BY <1>0, <1>3, <2>2, <2>3, Events DEF ThreadConsistent
  <2>6. TimerConsistent'
    BY <1>0, <1>3, <2>2, <2>3 DEF TimerConsistent
  <2> QED BY <2>4, <2>5, <2>6
<1>4. CASE UNCHANGED <<pin_states, stopping, sending>>
  BY <1>0, <1>4 DEF InputTypeOK, ThreadConsistent, TimerConsistent
<1> QED BY <1>1, <1>2, <1>3, <1>4 DEF ScanPin

\* The stop waits for the timer task: nothing of k is on its way from there, so
\* press_counter says whether Long was published.
LEMMA TimerStopInv ==
    ASSUME InputInv, NEW k \in Keys, input_timer_stop(k)
    PROVE  /\ InputInv'
           /\ sending = <<>> /\ stopping = {k} /\ stopping' = {} /\ ticking = <<>>
           /\ ~pin_states[k].state /\ ~pin_states'[k].state
           /\ pin_states'[k].press_counter = 0
           /\ \A j \in Keys : j # k => pin_states'[j] = pin_states[j]
           /\ sending' = IF pin_states[k].press_counter < LongPressCounts
                         THEN S(k) ELSE R(k)
<1> USE DEF InputInv
<1>0. /\ pin' = pin /\ ticking' = ticking /\ ticking = <<>>
      /\ stopping' = {} /\ k \in stopping /\ sending' = Released(k)
      /\ pin_states[k] \in PinState
  BY DEF input_timer_stop, InputTypeOK
<1>1. sending = <<>> /\ stopping = {k} /\ ~pin_states[k].state
  BY <1>0 DEF ThreadConsistent
<1>2. sending' = IF pin_states[k].press_counter < LongPressCounts THEN S(k) ELSE R(k)
  BY <1>0, Events DEF Released, R
<1> DEFINE q == [pin_states[k] EXCEPT !.press_timer = FALSE, !.press_counter = 0]
<1>3. pin_states' = [pin_states EXCEPT ![k] = q]
  BY DEF input_timer_stop, InputTypeOK
<1>4. /\ q \in PinState /\ q.state = pin_states[k].state /\ ~q.press_timer
      /\ q.press_counter = 0
  <2>1. 0 \in 0 .. LongPressCounts
    BY InputAssumption
  <2> QED BY <1>0, <2>1 DEF PinState
<1> HIDE DEF q
<1>5. /\ pin_states' \in [Keys -> PinState] /\ pin_states'[k] = q
      /\ \A j \in Keys : j # k => pin_states'[j] = pin_states[j]
  BY <1>3, <1>4, PinStatesType DEF InputTypeOK
<1>6. InputTypeOK'
  BY <1>0, <1>2, <1>5 DEF InputTypeOK
<1>7. ThreadConsistent'
  <2>1. \A j \in Keys : /\ S(k) = S(j) => j = k
                        /\ R(k) = R(j) => j = k
                        /\ S(k) # P(j) /\ R(k) # P(j) /\ S(k) # R(j) /\ R(k) # S(j)
    BY Distinct
  <2> QED BY <1>0, <1>1, <1>2, <1>4, <1>5, <2>1 DEF ThreadConsistent
<1>8. TimerConsistent'
  <2>1. \A j \in Keys : ticking \notin {L(j), T(j)}
    BY <1>0, Events
  <2> QED BY <1>0, <1>1, <1>4, <1>5, <2>1 DEF TimerConsistent
<1> QED BY <1>0, <1>1, <1>2, <1>4, <1>5, <1>6, <1>7, <1>8

\* A callback counts once; at LongPressCounts the Long is on its way, and from
\* then on each callback makes a Repeat.
LEMMA TimerCallbackInv ==
    ASSUME InputInv, NEW k \in Keys, input_press_timer_callback(k)
    PROVE  /\ InputInv'
           /\ ticking = <<>> /\ UNCHANGED <<sending, stopping, input_queue>>
           /\ \A j \in Keys : pin_states'[j].state = pin_states[j].state
           /\ \A j \in Keys : j # k => /\ pin_states'[j] = pin_states[j]
                                       /\ ticking' # L(j)
           /\ \/ /\ pin_states[k].press_counter < LongPressCounts
                 /\ pin_states'[k].press_counter = LongPressCounts => ticking' = L(k)
              \/ /\ pin_states[k].press_counter = LongPressCounts
                 /\ pin_states'[k].press_counter = LongPressCounts
                 /\ ticking' = T(k)
<1> USE DEF InputInv
<1> DEFINE c == pin_states[k].press_counter + 1
           q == [pin_states[k] EXCEPT !.press_counter = IF c > LongPressCounts THEN @ ELSE c]
<1>0. /\ pin' = pin /\ ticking = <<>> /\ UNCHANGED <<sending, stopping, input_queue>>
      /\ pin_states[k].press_timer /\ pin_states[k] \in PinState
      /\ pin_states[k].press_counter \in 0 .. LongPressCounts
  BY DEF input_press_timer_callback, InputTypeOK, PinState
<1>1. pin_states' = [pin_states EXCEPT ![k] = q]
  BY DEF input_press_timer_callback, InputTypeOK
<1>2. /\ q \in PinState /\ q.state = pin_states[k].state /\ q.press_timer
      /\ q.press_counter = IF c > LongPressCounts THEN LongPressCounts ELSE c
  BY <1>0, InputAssumption DEF PinState
<1>3. ticking' = CASE c < LongPressCounts -> <<>>
                   [] c = LongPressCounts -> L(k)
                   [] c > LongPressCounts -> T(k)
  BY DEF input_press_timer_callback, L, T
<1> HIDE DEF q
<1>4. /\ pin_states' \in [Keys -> PinState] /\ pin_states'[k] = q
      /\ \A j \in Keys : j # k => pin_states'[j] = pin_states[j]
  BY <1>1, <1>2, PinStatesType DEF InputTypeOK
<1>5. \/ /\ c < LongPressCounts /\ ticking' = <<>>
      \/ /\ c = LongPressCounts /\ ticking' = L(k)
         /\ q.press_counter = LongPressCounts
      \/ /\ c = LongPressCounts + 1 /\ ticking' = T(k)
         /\ q.press_counter = LongPressCounts
  BY <1>0, <1>2, <1>3, InputAssumption
<1>6. InputTypeOK'
  BY <1>0, <1>4, <1>5 DEF InputTypeOK
<1>7. ThreadConsistent'
  BY <1>0, <1>2, <1>4 DEF ThreadConsistent
<1>8. \A j \in Keys : ticking' \in {L(j), T(j)} =>
        j = k /\ q.press_counter = LongPressCounts
  <2>1. \A j \in Keys : /\ L(j) # <<>> /\ T(j) # <<>>
    BY Events
  <2>2. \A j \in Keys : /\ L(k) = L(j) => j = k
                        /\ T(k) = T(j) => j = k
                        /\ L(k) # T(j) /\ T(k) # L(j)
    BY Distinct
  <2> QED BY <1>5, <2>1, <2>2
<1>9. TimerConsistent'
  BY <1>0, <1>2, <1>4, <1>8 DEF TimerConsistent
<1>10. \A j \in Keys : j # k => ticking' # L(j)
  BY <1>8
<1>11. \/ /\ pin_states[k].press_counter < LongPressCounts
          /\ pin_states'[k].press_counter = LongPressCounts => ticking' = L(k)
       \/ /\ pin_states[k].press_counter = LongPressCounts
          /\ pin_states'[k].press_counter = LongPressCounts
          /\ ticking' = T(k)
  BY <1>0, <1>2, <1>4, <1>5, InputAssumption
<1> QED BY <1>0, <1>2, <1>4, <1>6, <1>7, <1>9, <1>10, <1>11

\* The input thread publishes what it has of one key, in order.
LEMMA ThreadPublishesInv ==
    ASSUME InputInv, ThreadPublishes
    PROVE  /\ InputInv'
           /\ stopping = {} /\ UNCHANGED <<stopping, pin_states, ticking>>
           /\ \E k \in Keys :
                \/ sending = P(k) /\ sending' = <<>> /\ pin_states[k].state
                \/ sending = S(k) /\ sending' = R(k)
                \/ sending = R(k) /\ sending' = <<>> /\ ~pin_states[k].state
<1> USE DEF InputInv
<1>0. /\ UNCHANGED <<pin, pin_states, stopping, ticking>>
      /\ sending # <<>> /\ sending' = Tail(sending)
  BY DEF ThreadPublishes, gui_input_events_callback
<1>1. stopping = {}
  BY <1>0 DEF ThreadConsistent
<1>2. PICK k \in Keys : sending \in {P(k), S(k), R(k)}
  BY <1>0 DEF InputTypeOK
<1>3. \/ sending = P(k) /\ sending' = <<>> /\ pin_states[k].state
      \/ sending = S(k) /\ sending' = R(k) /\ ~pin_states[k].state /\ ~pin_states[k].press_timer
      \/ sending = R(k) /\ sending' = <<>> /\ ~pin_states[k].state
  BY <1>0, <1>2, Events DEF ThreadConsistent
<1>4. InputTypeOK'
  BY <1>0, <1>3 DEF InputTypeOK
<1>5. ThreadConsistent'
  <2>1. \A j \in Keys : P(j) # <<>> /\ S(j) # <<>> /\ R(j) # <<>>
    BY Events
  <2>2. \A j \in Keys : (R(k) = R(j) => j = k) /\ R(k) # P(j) /\ R(k) # S(j)
    BY Distinct
  <2> QED BY <1>0, <1>1, <1>3, <2>1, <2>2 DEF ThreadConsistent
<1>6. TimerConsistent'
  BY <1>0 DEF TimerConsistent
<1> QED BY <1>0, <1>1, <1>3, <1>4, <1>5, <1>6

\* The timer task publishes for a key that is down or waits for the stop, never
\* after its Short or Release is due.
LEMMA TimerPublishesInv ==
    ASSUME InputInv, TimerPublishes
    PROVE  /\ InputInv'
           /\ ticking' = <<>> /\ UNCHANGED <<stopping, pin_states, sending>>
           /\ \E k \in Keys :
                /\ ticking \in {L(k), T(k)}
                /\ pin_states[k].press_counter = LongPressCounts
                /\ pin_states[k].state \/ k \in stopping
                /\ sending \notin {S(k), R(k)}
<1> USE DEF InputInv
<1>0. /\ UNCHANGED <<pin, pin_states, stopping, sending>>
      /\ ticking # <<>> /\ ticking' = <<>>
  BY DEF TimerPublishes, gui_input_events_callback
<1>1. PICK k \in Keys : ticking \in {L(k), T(k)}
  BY <1>0 DEF InputTypeOK
<1>2. /\ pin_states[k].press_timer /\ pin_states[k].press_counter = LongPressCounts
      /\ pin_states[k].state \/ k \in stopping
  BY <1>1 DEF TimerConsistent
<1>3. sending \notin {S(k), R(k)}
  BY <1>2 DEF ThreadConsistent
<1>4. InputTypeOK' /\ ThreadConsistent'
  BY <1>0 DEF InputTypeOK, ThreadConsistent
<1>5. TimerConsistent'
  <2>1. \A j \in Keys : <<>> \notin {L(j), T(j)}
    BY Events
  <2> QED BY <1>0, <2>1 DEF TimerConsistent
<1> QED BY <1>0, <1>1, <1>2, <1>3, <1>4, <1>5

\* Interrupts, the next pass and the gui leave the key's states alone.
LEMMA OthersInv ==
    ASSUME InputInv,
           \/ \E k \in Keys : input_isr(k)
           \/ NextPass \/ GuiTakes \/ UNCHANGED inputVars
    PROVE  InputInv' /\ UNCHANGED <<pin_states, stopping, sending, ticking>>
<1> USE DEF InputInv
<1>1. UNCHANGED <<pin_states, stopping, sending, ticking>>
  BY DEF input_isr, NextPass, GuiTakes, inputVars
<1>2. pin' \in [Keys -> BOOLEAN]
  BY DEF input_isr, NextPass, GuiTakes, inputVars, InputTypeOK
<1> QED BY <1>1, <1>2 DEF InputTypeOK, ThreadConsistent, TimerConsistent

-----------------------------------------------------------------------------
(* Refinement *)

\* Stage and long of a key as functions of what they depend on.
StageOf(sn, b, k) ==
    CASE sn # <<>> /\ Head(sn) = Event(k, "Press") -> "press"
      [] sn # <<>> /\ Head(sn) = Event(k, "Short") -> "short"
      [] sn # <<>> /\ Head(sn) = Event(k, "Release") -> "release"
      [] OTHER -> IF b THEN "down" ELSE "up"
IsDown(k) == pin_states[k].state \/ k \in stopping
IsLong(k) == /\ pin_states[k].press_counter = LongPressCounts
             /\ ticking # L(k)

\* The stage of each key for what the input thread can have to publish.
LEMMA Stages ==
    ASSUME NEW k, NEW j, NEW b
    PROVE  /\ StageOf(<<>>, b, k) = IF b THEN "down" ELSE "up"
           /\ StageOf(P(k), b, k) = "press"
           /\ StageOf(S(k), b, k) = "short"
           /\ StageOf(R(k), b, k) = "release"
           /\ j # k => /\ StageOf(P(j), b, k) = IF b THEN "down" ELSE "up"
                       /\ StageOf(S(j), b, k) = IF b THEN "down" ELSE "up"
                       /\ StageOf(R(j), b, k) = IF b THEN "down" ELSE "up"
<1>1. /\ Head(P(k)) = Event(k, "Press") /\ Head(S(k)) = Event(k, "Short")
      /\ Head(R(k)) = Event(k, "Release")
      /\ P(k) # <<>> /\ S(k) # <<>> /\ R(k) # <<>>
  BY Events
<1>2. /\ Head(P(j)) = Event(j, "Press") /\ Head(S(j)) = Event(j, "Short")
      /\ Head(R(j)) = Event(j, "Release")
  BY Events
<1>3. \A t, u : Event(k, t) = Event(k, u) => t = u
  BY SameEvent
<1>4. \A t, u : Event(j, t) = Event(k, u) => k = j
  BY SameEvent
<1> QED BY <1>1, <1>2, <1>3, <1>4 DEF StageOf

\* The refinement mapping, in these terms.
stageBar == [k \in Keys |-> StageOf(sending, IsDown(k), k)]
longBar == [k \in Keys |-> IsLong(k)]

\* They are what InputService substitutes for stage and long, before ...
LEMMA Mapping ==
    /\ [k \in Keys |-> Stage(k)] = stageBar
    /\ [k \in Keys |-> /\ pin_states[k].press_counter = LongPressCounts
                       /\ ticking # <<Event(k, "Long")>>] = longBar
BY DEF Stage, Sends, StageOf, IsDown, stageBar, longBar, IsLong, L

\* ... and after a step.
LEMMA MappingStep ==
    /\ [k \in Keys |-> Stage(k)]' = stageBar'
    /\ [k \in Keys |-> /\ pin_states[k].press_counter = LongPressCounts
                       /\ ticking # <<Event(k, "Long")>>]' = longBar'
BY DEF Stage, Sends, StageOf, IsDown, stageBar, longBar, IsLong, L

\* The steps of KeyEvents under the mapping, in terms of the bars.
KeyUnchanged == stageBar' = stageBar /\ longBar' = longBar /\ input_queue' = input_queue
Moves(k, from, to) == stageBar[k] = from /\ stageBar' = [stageBar EXCEPT ![k] = to]
Puts(e) == Len(input_queue) < InputQueueSize /\ input_queue' = Append(input_queue, e)

DueStep(k, from, to, t) ==
    Moves(k, from, to) /\ longBar' = longBar /\ Puts(Event(k, t))
HeldStep(k, t) ==
    /\ stageBar[k] \in {"press", "down"} /\ stageBar' = stageBar
    /\ longBar[k] = (t = "Repeat")
    /\ longBar' = [longBar EXCEPT ![k] = TRUE]
    /\ Puts(Event(k, t))

KeyStep ==
    \/ \E k \in Keys :
         \/ Moves(k, "up", "press") /\ longBar' = longBar /\ input_queue' = input_queue
         \/ /\ Moves(k, "down", IF longBar[k] THEN "release" ELSE "short")
            /\ longBar' = [longBar EXCEPT ![k] = FALSE] /\ input_queue' = input_queue
         \/ DueStep(k, "press", "down", "Press")
         \/ DueStep(k, "short", "release", "Short")
         \/ DueStep(k, "release", "up", "Release")
         \/ HeldStep(k, "Long") \/ HeldStep(k, "Repeat")
    \/ /\ input_queue # <<>> /\ input_queue' = Tail(input_queue)
       /\ stageBar' = stageBar /\ longBar' = longBar
    \/ KeyUnchanged

\* Each of them is a step of KeyEvents or a stutter.
LEMMA KeyStepIsKeyNext ==
    ASSUME KeyStep
    PROVE  [Abstract!KeyNext]_Abstract!keyVars
<1> USE Mapping, MappingStep
    DEF Abstract!KeyNext, Abstract!keyVars, Abstract!Goes, Abstract!Publish,
        Abstract!Event, Event, Moves, Puts
<1>1. ASSUME NEW k \in Keys,
             Moves(k, "up", "press") /\ longBar' = longBar /\ input_queue' = input_queue
      PROVE  Abstract!Down(k)
  BY <1>1 DEF Abstract!Down
<1>2. ASSUME NEW k \in Keys,
             /\ Moves(k, "down", IF longBar[k] THEN "release" ELSE "short")
             /\ longBar' = [longBar EXCEPT ![k] = FALSE] /\ input_queue' = input_queue
      PROVE  Abstract!Up(k)
  BY <1>2 DEF Abstract!Up
<1>3. ASSUME NEW k \in Keys, DueStep(k, "press", "down", "Press")
      PROVE  Abstract!Due(k)
  BY <1>3 DEF Abstract!Due, Abstract!Press, DueStep
<1>4. ASSUME NEW k \in Keys, DueStep(k, "short", "release", "Short")
      PROVE  Abstract!Due(k)
  BY <1>4 DEF Abstract!Due, Abstract!Short, DueStep
<1>5. ASSUME NEW k \in Keys, DueStep(k, "release", "up", "Release")
      PROVE  Abstract!Due(k)
  BY <1>5 DEF Abstract!Due, Abstract!Release, DueStep
<1>6. ASSUME NEW k \in Keys, HeldStep(k, "Long")
      PROVE  Abstract!Long(k)
  BY <1>6 DEF Abstract!Long, HeldStep
<1>7. ASSUME NEW k \in Keys, HeldStep(k, "Repeat")
      PROVE  Abstract!Repeat(k)
  <2>1. longBar' = longBar
    BY <1>7 DEF HeldStep, longBar
  <2> QED BY <1>7, <2>1 DEF Abstract!Repeat, HeldStep
<1>8. ASSUME /\ input_queue # <<>> /\ input_queue' = Tail(input_queue)
             /\ stageBar' = stageBar /\ longBar' = longBar
      PROVE  Abstract!Take
  BY <1>8 DEF Abstract!Take
<1>9. CASE KeyUnchanged
  BY <1>9 DEF KeyUnchanged
<1> QED BY <1>1, <1>2, <1>3, <1>4, <1>5, <1>6, <1>7, <1>8, <1>9 DEF KeyStep

\* What leaves the queue and each key's stage and long alone is a stutter.
LEMMA Stutter ==
    ASSUME input_queue' = input_queue, sending' = sending,
           \A j \in Keys : (IsDown(j)' <=> IsDown(j)) /\ (IsLong(j)' <=> IsLong(j))
    PROVE  KeyStep
<1>1. stageBar' = stageBar
  BY DEF stageBar, StageOf
<1>2. longBar' = longBar
  BY DEF longBar, IsLong
<1> QED BY <1>1, <1>2 DEF KeyStep, KeyUnchanged

\* A press is Down; the debouncing and the scan that sees a release are stutters.
LEMMA ScanPinStep ==
    ASSUME InputInv, NEW k \in Keys, ScanPin(k)
    PROVE  KeyStep
<1>0. /\ ticking' = ticking /\ input_queue' = input_queue
      /\ sending = <<>> /\ stopping = {} /\ pin_states \in [Keys -> PinState]
  BY DEF ScanPin, Scanning, InputInv, InputTypeOK
<1>1. CASE /\ pin_states' = [pin_states EXCEPT ![k].debounce =
                                IF pin[k] THEN @ + 1 ELSE @ - 1]
           /\ UNCHANGED <<stopping, sending>>
  <2>1. \A j \in Keys : /\ pin_states'[j].state = pin_states[j].state
                        /\ pin_states'[j].press_counter = pin_states[j].press_counter
    BY <1>0, <1>1 DEF PinState
  <2> QED BY <1>0, <1>1, <2>1, Stutter DEF IsDown, IsLong
<1>2. CASE /\ ~pin_states[k].state
           /\ pin_states' = [pin_states EXCEPT ![k].state = TRUE,
                                               ![k].press_timer = TRUE]
           /\ sending' = <<Event(k, "Press")>> /\ stopping' = stopping
  <2>1. /\ sending' = P(k) /\ ~IsDown(k)
        /\ \A j \in Keys :
             /\ j # k => IsDown(j)' = IsDown(j)
             /\ pin_states'[j].press_counter = pin_states[j].press_counter
    BY <1>0, <1>2 DEF IsDown, P, PinState
  <2>2. longBar' = longBar
    BY <1>0, <2>1 DEF longBar, IsLong
  <2>3. StageOf(sending, IsDown(k), k) = "up" /\ StageOf(sending', IsDown(k)', k) = "press"
    BY <1>0, <2>1, Stages
  <2>4. ASSUME NEW j \in Keys, j # k
        PROVE  StageOf(sending', IsDown(j)', j) = StageOf(sending, IsDown(j), j)
    BY <1>0, <2>1, <2>4, Stages
  <2>5. Moves(k, "up", "press")
    BY <2>3, <2>4 DEF Moves, stageBar
  <2> QED BY <1>0, <2>2, <2>5 DEF KeyStep
<1>3. CASE /\ pin_states[k].state
           /\ pin_states' = [pin_states EXCEPT ![k].state = FALSE]
           /\ stopping' = {k} /\ sending' = sending
  <2>1. \A j \in Keys : /\ IsDown(j)' <=> IsDown(j)
                        /\ pin_states'[j].press_counter = pin_states[j].press_counter
    BY <1>0, <1>3 DEF IsDown, PinState
  <2> QED BY <1>0, <1>3, <2>1, Stutter DEF IsLong
<1>4. CASE UNCHANGED <<pin_states, stopping, sending>>
  BY <1>0, <1>4, Stutter DEF IsDown, IsLong
<1> QED BY <1>1, <1>2, <1>3, <1>4 DEF ScanPin

\* The stop of the timer is Up.
LEMMA TimerStopStep ==
    ASSUME InputInv, NEW k \in Keys, input_timer_stop(k)
    PROVE  KeyStep
<1>1. /\ sending = <<>> /\ stopping = {k} /\ stopping' = {} /\ ticking = <<>>
      /\ ticking' = ticking /\ input_queue' = input_queue
      /\ pin_states'[k].press_counter = 0
      /\ \A j \in Keys : j # k => pin_states'[j] = pin_states[j]
      /\ sending' = IF pin_states[k].press_counter < LongPressCounts
                    THEN S(k) ELSE R(k)
  BY TimerStopInv DEF input_timer_stop
<1>2. pin_states[k].press_counter \in 0 .. LongPressCounts
  BY DEF InputInv, InputTypeOK, PinState
<1>3. /\ IsDown(k) /\ \A j \in Keys : j # k => IsDown(j)' = IsDown(j)
  BY <1>1 DEF IsDown
<1>4. /\ IsLong(k) <=> ~(pin_states[k].press_counter < LongPressCounts)
      /\ IsLong(k)' = FALSE
      /\ \A j \in Keys : j # k => IsLong(j)' = IsLong(j)
  <2>1. <<>> # L(k)
    BY Events
  <2> QED BY <1>1, <1>2, <2>1, InputAssumption DEF IsLong
<1>5. longBar' = [longBar EXCEPT ![k] = FALSE] /\ longBar[k] = IsLong(k)
  BY <1>4 DEF longBar
<1> DEFINE to == IF longBar[k] THEN "release" ELSE "short"
<1>6. StageOf(sending, IsDown(k), k) = "down" /\ StageOf(sending', IsDown(k)', k) = to
  <2>1. \A b : /\ StageOf(<<>>, b, k) = (IF b THEN "down" ELSE "up")
               /\ StageOf(S(k), b, k) = "short" /\ StageOf(R(k), b, k) = "release"
    BY Stages
  <2>2. StageOf(sending, IsDown(k), k) = "down"
    BY <1>1, <1>3, <2>1
  <2>3. StageOf(sending', IsDown(k)', k) = to
    <3>1. longBar[k] = ~(pin_states[k].press_counter < LongPressCounts)
      BY <1>4, <1>5 DEF IsLong
    <3> QED BY <1>1, <2>1, <3>1
  <2> QED BY <2>2, <2>3
<1>7. ASSUME NEW j \in Keys, j # k
      PROVE  StageOf(sending', IsDown(j)', j) = StageOf(sending, IsDown(j), j)
  BY <1>1, <1>3, <1>7, Stages
<1> HIDE DEF to
<1>8. Moves(k, "down", to)
  BY <1>6, <1>7 DEF Moves, stageBar
<1> QED BY <1>1, <1>5, <1>8 DEF KeyStep, to

\* Counting is a stutter: a Long counts as published when it is in the queue.
LEMMA TimerCallbackStep ==
    ASSUME InputInv, NEW k \in Keys, input_press_timer_callback(k)
    PROVE  KeyStep
<1>1. /\ ticking = <<>> /\ UNCHANGED <<sending, stopping, input_queue>>
      /\ \A j \in Keys : pin_states'[j].state = pin_states[j].state
      /\ \A j \in Keys : j # k => /\ pin_states'[j] = pin_states[j]
                                  /\ ticking' # L(j)
      /\ \/ /\ pin_states[k].press_counter < LongPressCounts
            /\ pin_states'[k].press_counter = LongPressCounts => ticking' = L(k)
         \/ /\ pin_states[k].press_counter = LongPressCounts
            /\ pin_states'[k].press_counter = LongPressCounts
            /\ ticking' = T(k)
  BY TimerCallbackInv
<1>2. \A j : <<>> # L(j) /\ T(j) # L(j)
  BY Events, Distinct
<1>3. pin_states[k].press_counter < LongPressCounts =>
        pin_states[k].press_counter # LongPressCounts
  BY InputAssumption DEF InputInv, InputTypeOK, PinState
<1>4. ASSUME NEW j \in Keys PROVE IsDown(j)' <=> IsDown(j)
  BY <1>1 DEF IsDown
<1>5. ASSUME NEW j \in Keys PROVE IsLong(j)' <=> IsLong(j)
  BY <1>1, <1>2, <1>3 DEF IsLong
<1> QED BY <1>1, <1>4, <1>5, Stutter

\* The input thread publishes a Press, Short or Release that is due.
LEMMA ThreadPublishesStep ==
    ASSUME InputInv, ThreadPublishes
    PROVE  KeyStep
<1>1. /\ stopping = {} /\ UNCHANGED <<stopping, pin_states, ticking>>
      /\ Puts(Head(sending))
  BY ThreadPublishesInv DEF ThreadPublishes, gui_input_events_callback, Puts
<1>2. PICK k \in Keys :
        \/ sending = P(k) /\ sending' = <<>> /\ pin_states[k].state
        \/ sending = S(k) /\ sending' = R(k)
        \/ sending = R(k) /\ sending' = <<>> /\ ~pin_states[k].state
  BY ThreadPublishesInv
<1>3. /\ \A j \in Keys : IsDown(j)' = IsDown(j)
      /\ IsDown(k) <=> pin_states[k].state
      /\ longBar' = longBar
  BY <1>1 DEF IsDown, IsLong, longBar
<1>4. ASSUME NEW j \in Keys, j # k
      PROVE  StageOf(sending', IsDown(j)', j) = StageOf(sending, IsDown(j), j)
  BY <1>2, <1>3, <1>4, Stages
<1>5. CASE sending = P(k) /\ sending' = <<>> /\ pin_states[k].state
  <2>1. /\ StageOf(sending, IsDown(k), k) = "press"
        /\ StageOf(sending', IsDown(k)', k) = "down"
    <3>1. \A b : /\ StageOf(<<>>, b, k) = (IF b THEN "down" ELSE "up")
                 /\ StageOf(P(k), b, k) = "press"
      BY Stages
    <3>2. IsDown(k)'
      BY <1>1, <1>5 DEF IsDown
    <3> QED BY <1>5, <3>1, <3>2
  <2>2. Moves(k, "press", "down")
    BY <1>4, <2>1 DEF Moves, stageBar
  <2> QED BY <1>1, <1>3, <1>5, <2>2, Events DEF KeyStep, DueStep
<1>6. CASE sending = S(k) /\ sending' = R(k)
  <2>1. /\ StageOf(sending, IsDown(k), k) = "short"
        /\ StageOf(sending', IsDown(k)', k) = "release"
    BY <1>3, <1>6, Stages
  <2>2. Moves(k, "short", "release")
    BY <1>4, <2>1 DEF Moves, stageBar
  <2> QED BY <1>1, <1>3, <1>6, <2>2, Events DEF KeyStep, DueStep
<1>7. CASE sending = R(k) /\ sending' = <<>> /\ ~pin_states[k].state
  <2>1. /\ StageOf(sending, IsDown(k), k) = "release"
        /\ StageOf(sending', IsDown(k)', k) = "up"
    BY <1>3, <1>7, Stages
  <2>2. Moves(k, "release", "up")
    BY <1>4, <2>1 DEF Moves, stageBar
  <2> QED BY <1>1, <1>3, <1>7, <2>2, Events DEF KeyStep, DueStep
<1> QED BY <1>2, <1>5, <1>6, <1>7

\* The timer task publishes a Long or Repeat of a key that is held.
LEMMA TimerPublishesStep ==
    ASSUME InputInv, TimerPublishes
    PROVE  KeyStep
<1>1. /\ ticking' = <<>> /\ UNCHANGED <<stopping, pin_states, sending>>
      /\ Puts(Head(ticking))
  BY TimerPublishesInv DEF TimerPublishes, gui_input_events_callback, Puts
<1>2. PICK k \in Keys :
        /\ ticking \in {L(k), T(k)}
        /\ pin_states[k].press_counter = LongPressCounts
        /\ pin_states[k].state \/ k \in stopping
        /\ sending \notin {S(k), R(k)}
  BY TimerPublishesInv
<1>3. stageBar' = stageBar
  BY <1>1 DEF stageBar, IsDown
<1>4. stageBar[k] \in {"press", "down"}
  <2>1. sending = <<>> \/ \E j \in Keys : sending \in {P(j), S(j), R(j)}
    BY DEF InputInv, InputTypeOK
  <2>2. IsDown(k)
    BY <1>2 DEF IsDown
  <2>3. StageOf(sending, IsDown(k), k) \in {"press", "down"}
    <3>1. /\ StageOf(<<>>, IsDown(k), k) = (IF IsDown(k) THEN "down" ELSE "up")
          /\ StageOf(P(k), IsDown(k), k) = "press"
      BY Stages
    <3>2. ASSUME NEW j \in Keys, j # k, sending \in {P(j), S(j), R(j)}
          PROVE  StageOf(sending, IsDown(k), k) = IF IsDown(k) THEN "down" ELSE "up"
      BY <3>2, Stages
    <3> QED BY <1>2, <2>1, <2>2, <3>1, <3>2
  <2> QED BY <2>3 DEF stageBar
<1>5. \A j \in Keys : /\ <<>> # L(j) /\ T(k) # L(j)
                      /\ L(k) = L(j) => j = k
  BY Events, Distinct
<1>6. longBar' = [longBar EXCEPT ![k] = TRUE]
  <2>1. IsLong(k)' = TRUE
    BY <1>1, <1>2, <1>5 DEF IsLong
  <2>2. ASSUME NEW j \in Keys, j # k PROVE IsLong(j)' = IsLong(j)
    BY <1>1, <1>2, <1>5, <2>2 DEF IsLong
  <2> QED BY <2>1, <2>2 DEF longBar
<1>7. CASE ticking = L(k)
  <2>1. longBar[k] = FALSE /\ Head(ticking) = Event(k, "Long")
    BY <1>7, Events DEF longBar, IsLong
  <2> QED BY <1>1, <1>3, <1>4, <1>6, <2>1 DEF KeyStep, HeldStep
<1>8. CASE ticking = T(k)
  <2>1. longBar[k] = TRUE /\ Head(ticking) = Event(k, "Repeat")
    BY <1>2, <1>5, <1>8, Events DEF longBar, IsLong
  <2> QED BY <1>1, <1>3, <1>4, <1>6, <2>1 DEF KeyStep, HeldStep
<1> QED BY <1>2, <1>7, <1>8

\* The gui takes an event, or nothing of KeyEvents happens.
LEMMA OthersStep ==
    ASSUME InputInv,
           \/ \E k \in Keys : input_isr(k)
           \/ NextPass \/ GuiTakes \/ UNCHANGED inputVars
    PROVE  KeyStep
<1>1. UNCHANGED <<pin_states, stopping, sending, ticking>>
  BY OthersInv
<1>2. stageBar' = stageBar /\ longBar' = longBar
  BY <1>1 DEF stageBar, longBar, IsDown, IsLong
<1>3. \/ input_queue' = input_queue
      \/ input_queue # <<>> /\ input_queue' = Tail(input_queue)
  BY DEF input_isr, NextPass, GuiTakes, inputVars
<1> QED BY <1>2, <1>3 DEF KeyStep, KeyUnchanged

\* Every key is up or down at first, and none is long.
LEMMA InitKeys == input_srv => Abstract!KeyInit
<1> SUFFICES ASSUME input_srv PROVE Abstract!KeyInit
  OBVIOUS
<1>1. sending = <<>> /\ input_queue = <<>>
  BY DEF input_srv
<1>2. \A k \in Keys : StageOf(sending, IsDown(k), k) \in {"up", "down"}
  BY <1>1, Stages
<1>3. \A k \in Keys : pin_states[k].press_counter # LongPressCounts
  BY InputAssumption DEF input_srv
<1>4. stageBar \in [Keys -> {"up", "down"}] /\ longBar = [k \in Keys |-> FALSE]
  BY <1>2, <1>3 DEF stageBar, longBar, IsLong
<1> QED BY <1>1, <1>4, Mapping DEF Abstract!KeyInit

\* Every step, action by action.
LEMMA StepKeepsInv ==
    ASSUME InputInv, [InputNext]_inputVars
    PROVE  InputInv' /\ KeyStep
<1>1. ASSUME NEW k \in Keys, ScanPin(k) PROVE InputInv' /\ KeyStep
  BY <1>1, ScanPinInv, ScanPinStep
<1>2. ASSUME NEW k \in Keys, input_timer_stop(k) PROVE InputInv' /\ KeyStep
  BY <1>2, TimerStopInv, TimerStopStep
<1>3. ASSUME NEW k \in Keys, input_press_timer_callback(k) PROVE InputInv' /\ KeyStep
  BY <1>3, TimerCallbackInv, TimerCallbackStep
<1>4. CASE ThreadPublishes
  BY <1>4, ThreadPublishesInv, ThreadPublishesStep
<1>5. CASE TimerPublishes
  BY <1>5, TimerPublishesInv, TimerPublishesStep
<1>6. CASE \/ \E k \in Keys : input_isr(k)
           \/ NextPass \/ GuiTakes \/ UNCHANGED inputVars
  BY <1>6, OthersInv, OthersStep
<1> QED BY <1>1, <1>2, <1>3, <1>4, <1>5, <1>6 DEF InputNext, InputThread

\* A timer runs and counts only for a key that is down or whose timer is being
\* stopped, and the events that are on their way belong to such a key.
THEOREM InputInvariant == InputSpec => []InputInv
<1>1. input_srv => InputInv
  BY InitInv
<1>2. InputInv /\ [InputNext]_inputVars => InputInv'
  BY StepKeepsInv
<1> QED BY <1>1, <1>2, PTL DEF InputSpec

\* The input thread and the timer task between them publish every key's events
\* as KeyEvents says: Press, then Short or Long and Repeats, then Release, for
\* any keys, any pins and any size of the gui's queue (input.c:23-37, 94-129).
THEOREM InputImplementsKeyEvents == InputSpec => ImplementsKeyEvents
<1>1. input_srv => Abstract!KeyInit
  BY InitKeys
<1>2. InputInv /\ [InputNext]_inputVars => [Abstract!KeyNext]_Abstract!keyVars
  BY StepKeepsInv, KeyStepIsKeyNext
<1> QED BY <1>1, <1>2, InputInvariant, PTL
        DEF InputSpec, ImplementsKeyEvents, Abstract!KeySpec

-----------------------------------------------------------------------------
(* No change of a pin is missed *)

LEMMA ScanPinPending ==
    ASSUME InputInv, ChangeIsPending, NEW k \in Keys, ScanPin(k)
    PROVE  ChangeIsPending'
<1>1. pin \in [Keys -> BOOLEAN] /\ pin_states \in [Keys -> PinState]
  BY DEF InputInv, InputTypeOK
<1>2. scan' = scan \ {k} /\ UNCHANGED <<pin, isr>>
  BY DEF ScanPin
<1>3. ASSUME NEW j \in Keys, j # k
      PROVE  pin_states'[j] = pin_states[j] /\ (is_changing => is_changing')
  BY <1>1, <1>3 DEF ScanPin
<1>4. is_changing' \/ pin[k] = pin_states'[k].state
  <2>1. CASE Debouncing(k)
    BY <2>1 DEF ScanPin
  <2>2. CASE ~Debouncing(k) /\ pin[k] /\ ~pin_states[k].state
    <3>1. pin_states' = [pin_states EXCEPT ![k].state = TRUE, ![k].press_timer = TRUE]
      BY <2>2 DEF ScanPin
    <3>2. pin_states'[k].state = TRUE
      BY <1>1, <3>1 DEF PinState
    <3>3. pin[k] = TRUE
      BY <1>1, <2>2
    <3> QED BY <3>2, <3>3
  <2>3. CASE ~Debouncing(k) /\ ~pin[k] /\ pin_states[k].state
    <3>1. pin_states' = [pin_states EXCEPT ![k].state = FALSE]
      BY <2>3 DEF ScanPin
    <3>2. pin_states'[k].state = FALSE
      BY <1>1, <3>1 DEF PinState
    <3>3. pin[k] = FALSE
      BY <1>1, <2>3
    <3> QED BY <3>2, <3>3
  <2>4. CASE ~Debouncing(k) /\ pin[k] = pin_states[k].state
    <3>1. \/ pin_states' = pin_states
          \/ (pin[k] /\ ~pin_states[k].state)
          \/ (~pin[k] /\ pin_states[k].state)
      BY <2>4 DEF ScanPin
    <3> QED BY <2>4, <3>1
  <2> QED BY <2>1, <2>2, <2>3, <2>4 DEF ScanPin
<1> QED BY <1>2, <1>3, <1>4 DEF ChangeIsPending

LEMMA OthersPending ==
    ASSUME InputInv, ChangeIsPending,
           \/ \E k \in Keys : input_timer_stop(k) \/ input_press_timer_callback(k)
           \/ ThreadPublishes \/ TimerPublishes \/ GuiTakes \/ UNCHANGED inputVars
    PROVE  ChangeIsPending'
<1>1. pin_states \in [Keys -> PinState]
  BY DEF InputInv, InputTypeOK
<1>2. UNCHANGED <<pin, isr, scan, is_changing>>
  BY DEF input_timer_stop, input_press_timer_callback, ThreadPublishes, TimerPublishes, GuiTakes,
     gui_input_events_callback, inputVars
<1>3. ASSUME NEW j \in Keys PROVE pin_states'[j].state = pin_states[j].state
  <2>1. ASSUME NEW k \in Keys, input_timer_stop(k)
        PROVE  pin_states'[j].state = pin_states[j].state
    BY <1>1, <2>1 DEF input_timer_stop, PinState
  <2>2. ASSUME NEW k \in Keys, input_press_timer_callback(k)
        PROVE  pin_states'[j].state = pin_states[j].state
    BY <1>1, <2>2 DEF input_press_timer_callback, PinState
  <2>3. CASE UNCHANGED pin_states
    BY <2>3
  <2> QED BY <2>1, <2>2, <2>3 DEF ThreadPublishes, TimerPublishes, GuiTakes,
          gui_input_events_callback, inputVars
<1> QED BY <1>2, <1>3 DEF ChangeIsPending

LEMMA WakesPending ==
    ASSUME InputInv, ChangeIsPending, NextPass \/ \E k \in Keys : input_isr(k)
    PROVE  ChangeIsPending'
<1>1. scan' = Keys \/ isr'
  BY DEF NextPass, input_isr
<1> QED BY <1>1 DEF ChangeIsPending

\* An interrupt is never lost between the scan of its pin and the wait for the
\* flag: whatever level the thread has not noted yet, it will scan again, for
\* any keys and any changes of the pins (input.c:39-41, 94-136).
THEOREM ChangesArePending == InputSpec => []ChangeIsPending
<1>1. input_srv => ChangeIsPending
  BY DEF input_srv, ChangeIsPending
<1>2. InputInv /\ ChangeIsPending /\ [InputNext]_inputVars => ChangeIsPending'
  BY ScanPinPending, OthersPending, WakesPending DEF InputNext, InputThread
<1> QED BY <1>1, <1>2, InputInvariant, PTL DEF InputSpec

(***************************************************************************)
(* The notification service                                                *)
(***************************************************************************)
Lights == Leds \cup {"display"}
Layer == [internal : BOOLEAN, notification : BOOLEAN, index : {"Internal", "Notification"}]
Charges == {"NotCharging", "Charging", "Charged"}
Posted == [type : {"notification", "internal", "save"}, seq : Seq(Message), back : BOOLEAN]
Working == [pc : {"idle", "notification", "internal", "saving"}, items : Seq(Message),
            back : BOOLEAN, led_active : BOOLEAN, led_values : [Leds -> BOOLEAN],
            reset_mask : SUBSET (Leds \cup {"display", "vibro", "sound"}), reset : BOOLEAN,
            display_led_lock : Int]

\* Types.
QueueTypes == queue \in Seq(Posted) /\ Len(queue) <= QUEUE
ThreadTypes == nt \in Working /\ (nt.pc = "idle" => nt = Rest)
OtherTypes ==
    /\ {vibro, sound, timer, timerTask} \subseteq BOOLEAN
    /\ app \in {"idle", "waiting"}
    /\ power \in Charges
    /\ storage \in [pc : {"idle", "wait", "wait_off", "success", "error"}, counter : 0 .. MAX_INIT]

\* A light without a notification shows its internal layer.
LayersShow ==
    /\ layer \in [Lights -> Layer] /\ light \in [Lights -> BOOLEAN]
    /\ \A l \in Lights : layer[l].index = "Internal" => light[l] = layer[l].internal

\* The power service's messages in the queue, of which the last is about the
\* present state, and what is left of one that the thread is processing.
Internal(q) == {i \in DOMAIN q : q[i].type = "internal"}
QueueCharge(q, s) ==
    /\ \A i \in Internal(q) : \E c \in Charges : q[i].seq = PowerSequence(c)
    /\ \A i \in Internal(q) :
         (\A j \in Internal(q) : j <= i) => q[i].seq = PowerSequence(s)
ItemsCharge(seq, s) ==
    \A i \in DOMAIN seq : seq[i].on = Colour(s)[seq[i].of]
ChargeDue ==
    Internal(queue) = {} =>
      /\ nt.pc = "internal" => ItemsCharge(nt.items, power)
      /\ \A l \in {"red", "green"} :
           \/ layer[l].internal = Colour(power)[l]
           \/ nt.pc = "internal" /\ \E i \in DOMAIN nt.items : nt.items[i].of = l
ChargeConsistent ==
    /\ QueueCharge(queue, power)
    /\ nt.pc = "internal" =>
         \A i \in DOMAIN nt.items : nt.items[i].t = "led" /\ nt.items[i].of \in {"red", "green"}
    /\ ChargeDue

\* The inductive invariant.
NotificationInv ==
    /\ QueueTypes /\ ThreadTypes /\ OtherTypes
    /\ LayersShow
    /\ ChargeConsistent
    /\ BackEventAwaited

\* What a message has, by its type.
LEMMA MessageFields ==
    ASSUME NEW m \in Message
    PROVE  /\ m.t \in {"led", "display", "lock", "vibro", "sound", "delay", "keep"}
           /\ m.t = "led" => m.of \in Leds
           /\ m.t \in {"led", "display", "lock", "vibro", "sound"} => m.on \in BOOLEAN
BY DEF Message

\* The sequences that are posted consist of messages.
LEMMA Sequences ==
    /\ {display_on, display_off, sd_wait, sd_wait_off, sd_success, sd_error} \subseteq Seq(Message)
    /\ \A c \in Charges : PowerSequence(c) \in Seq(Message)
    /\ \A seq \in AppCalls : seq \in Seq(Message)
    /\ <<>> \in Seq(Message)
<1>1. \A l \in Leds, v \in BOOLEAN : Led(l, v) \in Message
  BY DEF Led, Message
<1>2. \A v \in BOOLEAN : Display(v) \in Message
  BY DEF Display, Message
<1>3. Delay \in Message /\ DoNotReset \in Message
  BY DEF Delay, DoNotReset, Message
<1>4. {"red", "green", "blue"} \subseteq Leds
  BY DEF Leds
<1>5. \A c \in Charges : Colour(c)["red"] \in BOOLEAN /\ Colour(c)["green"] \in BOOLEAN
  BY <1>4 DEF Colour
<1>6. \A c \in Charges : PowerSequence(c) \in Seq(Message)
  BY <1>1, <1>4, <1>5 DEF PowerSequence
<1>7. /\ Display(TRUE) \in Message /\ Display(FALSE) \in Message
      /\ \A l \in {"red", "green", "blue"} : Led(l, TRUE) \in Message /\ Led(l, FALSE) \in Message
  BY <1>1, <1>2, <1>4
<1>8. display_on \in Seq(Message) /\ display_off \in Seq(Message)
  <2> DEFINE d == Display(TRUE)
             e == Display(FALSE)
  <2>1. d \in Message /\ e \in Message
    BY <1>7
  <2>2. display_on = <<d>> /\ display_off = <<e>>
    BY DEF display_on, display_off
  <2> HIDE DEF d, e
  <2> QED BY <2>1, <2>2
<1>9. sd_wait \in Seq(Message) /\ sd_wait_off \in Seq(Message)
  <2> DEFINE r == Led("red", TRUE)
             b == Led("blue", TRUE)
             d == Led("red", FALSE)
             e == Led("blue", FALSE)
  <2>1. {r, b, d, e, DoNotReset} \subseteq Message
    BY <1>3, <1>7
  <2>2. sd_wait = <<r, b, DoNotReset>> /\ sd_wait_off = <<d, e>>
    BY DEF sd_wait, sd_wait_off
  <2> HIDE DEF r, b, d, e
  <2> QED BY <2>1, <2>2
<1>10. sd_success \in Seq(Message) /\ sd_error \in Seq(Message)
  <2> DEFINE r == Led("red", TRUE)
             g == Led("green", TRUE)
             d == Led("red", FALSE)
             e == Led("green", FALSE)
  <2>1. {r, g, d, e, Delay} \subseteq Message
    BY <1>3, <1>7
  <2>2. sd_success = <<g, Delay, e, Delay>> /\ sd_error = <<r, Delay, d, Delay>>
    BY DEF sd_success, sd_error
  <2> HIDE DEF r, g, d, e
  <2> QED BY <2>1, <2>2
<1> QED BY <1>6, <1>8, <1>9, <1>10, AppCallsAssumption

\* What a message of the power service consists of.
LEMMA PowerItems ==
    ASSUME NEW s \in Charges
    PROVE  /\ \A i \in DOMAIN PowerSequence(s) :
                /\ PowerSequence(s)[i].t = "led"
                /\ PowerSequence(s)[i].of \in {"red", "green"}
           /\ ItemsCharge(PowerSequence(s), s)
           /\ \A l \in {"red", "green"} :
                \E i \in DOMAIN PowerSequence(s) : PowerSequence(s)[i].of = l
<1> DEFINE r == Led("red", Colour(s)["red"])
           g == Led("green", Colour(s)["green"])
<1>1. /\ r.t = "led" /\ r.of = "red" /\ r.on = Colour(s)["red"]
      /\ g.t = "led" /\ g.of = "green" /\ g.on = Colour(s)["green"]
  BY DEF Led
<1>2. PowerSequence(s) = <<g, r>> \/ PowerSequence(s) = <<r, g>>
  BY DEF PowerSequence
<1> HIDE DEF r, g
<1>3. CASE PowerSequence(s) = <<g, r>>
  <2>1. DOMAIN <<g, r>> = {1, 2} /\ <<g, r>>[1] = g /\ <<g, r>>[2] = r
    OBVIOUS
  <2> QED BY <1>1, <1>3, <2>1 DEF ItemsCharge
<1>4. CASE PowerSequence(s) = <<r, g>>
  <2>1. DOMAIN <<r, g>> = {1, 2} /\ <<r, g>>[1] = r /\ <<r, g>>[2] = g
    OBVIOUS
  <2> QED BY <1>1, <1>4, <2>1 DEF ItemsCharge
<1> QED BY <1>2, <1>3, <1>4

-----------------------------------------------------------------------------
(* Layers *)

LEMMA NotificationLayer ==
    ASSUME LayersShow, NEW ls \in SUBSET Lights, NEW v, \A l \in ls : v[l] \in BOOLEAN,
           ApplyNotification(ls, v)
    PROVE  /\ LayersShow'
           /\ \A l \in Lights :
                /\ layer'[l].internal = layer[l].internal
                /\ layer'[l].index = IF l \in ls THEN "Notification" ELSE layer[l].index
<1>1. DOMAIN layer = Lights /\ DOMAIN light = Lights
  BY DEF LayersShow
<1>2. /\ layer' = [l \in Lights |->
           IF l \in ls THEN [layer[l] EXCEPT !.notification = v[l], !.index = "Notification"]
                       ELSE layer[l]]
      /\ light' = [l \in Lights |-> IF l \in ls THEN v[l] ELSE light[l]]
  BY <1>1 DEF ApplyNotification
<1>3. ASSUME NEW l \in Lights
      PROVE  /\ layer'[l] \in Layer /\ light'[l] \in BOOLEAN
             /\ layer'[l].internal = layer[l].internal
             /\ layer'[l].index = IF l \in ls THEN "Notification" ELSE layer[l].index
             /\ l \notin ls => layer'[l] = layer[l] /\ light'[l] = light[l]
  BY <1>2, <1>3 DEF LayersShow, Layer
<1>4. layer' \in [Lights -> Layer] /\ light' \in [Lights -> BOOLEAN]
  BY <1>2, <1>3
<1>5. \A l \in Lights : layer'[l].index = "Internal" => light'[l] = layer'[l].internal
  BY <1>3 DEF LayersShow
<1> QED BY <1>3, <1>4, <1>5 DEF LayersShow

LEMMA InternalLayerShows ==
    ASSUME LayersShow, NEW ls \in SUBSET Lights, ResetNotification(ls)
    PROVE  /\ LayersShow'
           /\ \A l \in Lights :
                /\ layer'[l].internal = layer[l].internal
                /\ layer'[l].index = IF l \in ls THEN "Internal" ELSE layer[l].index
<1>1. DOMAIN layer = Lights /\ DOMAIN light = Lights
  BY DEF LayersShow
<1>2. /\ layer' = [l \in Lights |->
           IF l \in ls THEN [layer[l] EXCEPT !.notification = FALSE, !.index = "Internal"]
                       ELSE layer[l]]
      /\ light' = [l \in Lights |-> IF l \in ls THEN layer[l].internal ELSE light[l]]
  BY <1>1 DEF ResetNotification
<1>3. ASSUME NEW l \in Lights
      PROVE  /\ layer'[l] \in Layer /\ light'[l] \in BOOLEAN
             /\ layer'[l].internal = layer[l].internal
             /\ layer'[l].index = IF l \in ls THEN "Internal" ELSE layer[l].index
             /\ l \in ls => light'[l] = layer[l].internal
             /\ l \notin ls => layer'[l] = layer[l] /\ light'[l] = light[l]
  BY <1>2, <1>3 DEF LayersShow, Layer
<1>4. layer' \in [Lights -> Layer] /\ light' \in [Lights -> BOOLEAN]
  BY <1>2, <1>3
<1>5. \A l \in Lights : layer'[l].index = "Internal" => light'[l] = layer'[l].internal
  BY <1>3 DEF LayersShow
<1> QED BY <1>3, <1>4, <1>5 DEF LayersShow

LEMMA InternalLayer ==
    ASSUME LayersShow, NEW k \in Lights, NEW v \in BOOLEAN, ApplyInternal(k, v)
    PROVE  /\ LayersShow'
           /\ \A l \in Lights :
                /\ layer'[l].internal = IF l = k THEN v ELSE layer[l].internal
                /\ layer'[l].index = layer[l].index
<1>1. /\ layer' = [layer EXCEPT ![k].internal = v]
      /\ light' = IF layer[k].index = "Internal" THEN [light EXCEPT ![k] = v] ELSE light
  BY DEF ApplyInternal
<1>2. ASSUME NEW l \in Lights
      PROVE  /\ layer'[l] \in Layer /\ light'[l] \in BOOLEAN
             /\ layer'[l].internal = IF l = k THEN v ELSE layer[l].internal
             /\ layer'[l].index = layer[l].index
             /\ l # k => light'[l] = light[l]
             /\ layer[k].index = "Internal" => light'[k] = v
  BY <1>1, <1>2 DEF LayersShow, Layer
<1>3. layer' \in [Lights -> Layer] /\ light' \in [Lights -> BOOLEAN]
  BY <1>1, <1>2 DEF LayersShow
<1>4. \A l \in Lights : layer'[l].index = "Internal" => light'[l] = layer'[l].internal
  BY <1>2 DEF LayersShow
<1> QED BY <1>2, <1>3, <1>4 DEF LayersShow

-----------------------------------------------------------------------------
(* The queue *)

\* One more message.
LEMMA QueueGrows ==
    ASSUME NEW q \in Seq(Posted), NEW m \in Posted
    PROVE  LET p == Append(q, m)
               n == Len(q) + 1
           IN  /\ p \in Seq(Posted) /\ Len(p) = n
               /\ n \notin DOMAIN q /\ DOMAIN p = DOMAIN q \cup {n} /\ p[n] = m
               /\ \A i \in DOMAIN q : p[i] = q[i] /\ i < n
<1> DEFINE p == Append(q, m)
           n == Len(q) + 1
<1>1. /\ p \in Seq(Posted) /\ Len(p) = n /\ p[n] = m
      /\ \A i \in 1 .. Len(q) : p[i] = q[i]
  BY AppendProperties
<1>2. Len(q) \in Nat /\ DOMAIN q = 1 .. Len(q) /\ DOMAIN p = 1 .. n
  BY <1>1, LenProperties
<1> HIDE DEF p
<1> QED BY <1>1, <1>2 DEF p

\* One message less.
LEMMA QueueShrinks ==
    ASSUME NEW Els, NEW q \in Seq(Els), q # <<>>
    PROVE  /\ Tail(q) \in Seq(Els) /\ Len(Tail(q)) <= Len(q)
           /\ 1 \in DOMAIN q /\ Head(q) = q[1] /\ q[1] \in Els
           /\ DOMAIN q \subseteq Nat /\ DOMAIN Tail(q) \subseteq Nat
           /\ \A i \in DOMAIN Tail(q) : i + 1 \in DOMAIN q /\ Tail(q)[i] = q[i + 1]
           /\ \A i \in DOMAIN q : i # 1 => i - 1 \in DOMAIN Tail(q) /\ Tail(q)[i - 1] = q[i]
<1>1. /\ Head(q) \in Els /\ Tail(q) \in Seq(Els) /\ Len(Tail(q)) = Len(q) - 1
      /\ \A i \in 1 .. Len(Tail(q)) : Tail(q)[i] = q[i + 1]
  BY HeadTailProperties
<1>2. /\ Len(q) \in Nat \ {0} /\ DOMAIN q = 1 .. Len(q) /\ Head(q) = q[1]
      /\ DOMAIN Tail(q) = 1 .. Len(q) - 1
  BY <1>1, LenProperties, EmptySeq
<1> QED BY <1>1, <1>2

\* A message that the charge does not depend on leaves it alone ...
LEMMA OtherMessage ==
    ASSUME NEW q \in Seq(Posted), NEW m \in Posted, m.type # "internal", NEW s,
           QueueCharge(q, s)
    PROVE  QueueCharge(Append(q, m), s) /\ Internal(Append(q, m)) = Internal(q)
<1> DEFINE p == Append(q, m)
<1>1. Internal(p) = Internal(q) /\ \A i \in Internal(q) : p[i] = q[i]
  BY QueueGrows DEF Internal
<1> HIDE DEF p
<1>2. QueueCharge(p, s)
  BY <1>1 DEF QueueCharge
<1> QED BY <1>1, <1>2 DEF p

\* ... and one of the power service is the last of them.
LEMMA PowerMessage ==
    ASSUME NEW q \in Seq(Posted), NEW m \in Posted, m.type = "internal", NEW r, QueueCharge(q, r),
           NEW s \in Charges, m.seq = PowerSequence(s)
    PROVE  QueueCharge(Append(q, m), s) /\ Internal(Append(q, m)) # {}
<1> DEFINE p == Append(q, m)
           n == Len(q) + 1
<1>1. /\ Internal(p) = Internal(q) \cup {n} /\ p[n] = m
      /\ \A i \in Internal(q) : p[i] = q[i] /\ i < n
  BY QueueGrows DEF Internal
<1>2. DOMAIN q \subseteq Nat /\ n \in Nat
  BY LenProperties
<1> HIDE DEF p, n
<1>3. \A i \in Internal(p) : i # n => ~(n <= i)
  BY <1>1, <1>2 DEF Internal
<1>4. QueueCharge(p, s)
  BY <1>1, <1>3 DEF QueueCharge
<1> QED BY <1>1, <1>4 DEF p

\* Taking a message leaves the last one the last.
LEMMA TakenMessage ==
    ASSUME NEW q \in Seq(Posted), q # <<>>, NEW s, QueueCharge(q, s)
    PROVE  /\ QueueCharge(Tail(q), s)
           /\ q[1].type # "internal" => (Internal(Tail(q)) = {} <=> Internal(q) = {})
           /\ q[1].type = "internal" =>
                /\ \E c \in Charges : q[1].seq = PowerSequence(c)
                /\ Internal(Tail(q)) = {} => q[1].seq = PowerSequence(s)
<1> DEFINE p == Tail(q)
<1>1. /\ 1 \in DOMAIN q /\ DOMAIN q \subseteq Nat /\ DOMAIN p \subseteq Nat
      /\ \A i \in DOMAIN p : i + 1 \in DOMAIN q /\ p[i] = q[i + 1]
      /\ \A i \in DOMAIN q : i # 1 => i - 1 \in DOMAIN p /\ p[i - 1] = q[i]
  BY QueueShrinks
<1> HIDE DEF p
<1>2. /\ \A i \in Internal(p) : i + 1 \in Internal(q) /\ p[i] = q[i + 1]
      /\ \A i \in Internal(q) : i # 1 => i - 1 \in Internal(p)
      /\ Internal(q) \subseteq Nat /\ Internal(p) \subseteq Nat
  BY <1>1 DEF Internal
<1>3. QueueCharge(p, s)
  <2>1. \A i \in Internal(p) : \E c \in Charges : p[i].seq = PowerSequence(c)
    BY <1>2 DEF QueueCharge
  <2>2. ASSUME NEW i \in Internal(p), \A j \in Internal(p) : j <= i
        PROVE  p[i].seq = PowerSequence(s)
    <3>1. \A j \in Internal(q) : j <= i + 1
      <4> TAKE j \in Internal(q)
      <4>1. CASE j = 1
        BY <1>2, <4>1
      <4>2. CASE j # 1
        <5>1. j - 1 <= i
          BY <1>2, <2>2, <4>2
        <5> QED BY <1>2, <5>1
      <4> QED BY <4>1, <4>2
    <3> QED BY <1>2, <3>1 DEF QueueCharge
  <2> QED BY <2>1, <2>2 DEF QueueCharge
<1>4. ASSUME q[1].type # "internal" PROVE Internal(p) = {} <=> Internal(q) = {}
  <2>1. 1 \notin Internal(q)
    BY <1>4 DEF Internal
  <2> QED BY <1>2, <2>1
<1>5. ASSUME q[1].type = "internal"
      PROVE  /\ \E c \in Charges : q[1].seq = PowerSequence(c)
             /\ Internal(p) = {} => q[1].seq = PowerSequence(s)
  <2>1. 1 \in Internal(q)
    BY <1>1, <1>5 DEF Internal
  <2>2. Internal(p) = {} => \A j \in Internal(q) : j <= 1
    BY <1>2
  <2> QED BY <2>1, <2>2 DEF QueueCharge
<1> QED BY <1>3, <1>4, <1>5 DEF p

\* A step that posts a message, with who waits for it and what it is about.
LEMMA PostKeeps ==
    ASSUME NotificationInv, NEW m \in Posted,
           Len(queue) < QUEUE, queue' = Append(queue, m),
           UNCHANGED <<nt, layer, light>>, OtherTypes',
           \/ ~m.back /\ app' = app
           \/ m.back /\ app = "idle" /\ app' = "waiting",
           \/ m.type # "internal" /\ power' = power
           \/ m.type = "internal" /\ m.seq = PowerSequence(power')
    PROVE  NotificationInv'
<1> DEFINE n == Len(queue) + 1
<1>1. /\ queue' \in Seq(Posted) /\ Len(queue') = n
      /\ n \notin DOMAIN queue /\ DOMAIN queue' = DOMAIN queue \cup {n} /\ queue'[n] = m
      /\ \A i \in DOMAIN queue : queue'[i] = queue[i] /\ i < n
  BY QueueGrows DEF NotificationInv, QueueTypes
<1>2. QueueTypes'
  <2>1. Len(queue) \in Nat
    BY LenProperties DEF NotificationInv, QueueTypes
  <2> QED BY <1>1, <2>1, NotificationAssumption DEF QueueTypes
<1>3. ThreadTypes' /\ LayersShow'
  BY DEF NotificationInv, ThreadTypes, LayersShow
<1> HIDE DEF n
<1>4. BackEventAwaited'
  <2>1. Owed' = IF m.back THEN Owed \cup {n} ELSE Owed
    BY <1>1 DEF Owed
  <2>2. CASE ~m.back /\ app' = app
    BY <1>1, <2>1, <2>2 DEF NotificationInv, BackEventAwaited
  <2>3. CASE m.back /\ app = "idle" /\ app' = "waiting"
    <3>1. Owed = {} /\ ~nt.back
      BY <2>3 DEF NotificationInv, BackEventAwaited
    <3> QED BY <1>1, <2>1, <2>3, <3>1 DEF BackEventAwaited
  <2> QED BY <2>2, <2>3
<1>5. ChargeConsistent'
  <2>1. CASE m.type # "internal" /\ power' = power
    <3>1. QueueCharge(queue', power') /\ Internal(queue') = Internal(queue)
      BY <2>1, OtherMessage DEF NotificationInv, QueueTypes, ChargeConsistent
    <3> QED BY <2>1, <3>1 DEF NotificationInv, ChargeConsistent, ChargeDue
  <2>2. CASE m.type = "internal" /\ m.seq = PowerSequence(power')
    <3>1. power' \in Charges
      BY DEF OtherTypes
    <3>2. QueueCharge(queue', power') /\ Internal(queue') # {}
      BY <2>2, <3>1, PowerMessage DEF NotificationInv, QueueTypes, ChargeConsistent
    <3> QED BY <3>2 DEF NotificationInv, ChargeConsistent, ChargeDue
  <2> QED BY <2>1, <2>2
<1> QED BY <1>2, <1>3, <1>4, <1>5 DEF NotificationInv

-----------------------------------------------------------------------------
(* Who posts *)

\* Keys, the timer, the application and the power service.
LEMMA PostersKeep ==
    ASSUME NotificationInv,
           \/ KeyEvent \/ TimerPosts \/ AppSaves
           \/ \E seq \in AppCalls, block \in BOOLEAN : AppMessage(seq, block)
           \/ \E s \in Charges : PowerPass(s)
    PROVE  NotificationInv'
<1> USE DEF outputs
<1>1. CASE KeyEvent
  <2>1. PICK m \in Posted : /\ m.type = "notification" /\ ~m.back
                            /\ Len(queue) < QUEUE /\ queue' = Append(queue, m)
    <3> DEFINE p == [type |-> "notification", seq |-> display_on, back |-> FALSE]
    <3>1. p \in Posted /\ p.type = "notification" /\ p.seq = display_on /\ p.back = FALSE
      BY Sequences DEF Posted
    <3>2. Len(queue) < QUEUE /\ queue' = Append(queue, p)
      BY <1>1 DEF KeyEvent, Put
    <3> HIDE DEF p
    <3> QED BY <3>1, <3>2
  <2>2. UNCHANGED <<nt, layer, light, vibro, sound, timer, timerTask, app, power, storage>>
    BY <1>1 DEF KeyEvent
  <2> QED BY <2>1, <2>2, PostKeeps DEF NotificationInv, OtherTypes
<1>2. CASE TimerPosts
  <2>1. PICK m \in Posted : /\ m.type = "notification" /\ ~m.back
                            /\ Len(queue) < QUEUE /\ queue' = Append(queue, m)
    <3> DEFINE p == [type |-> "notification", seq |-> display_off, back |-> FALSE]
    <3>1. p \in Posted /\ p.type = "notification" /\ p.seq = display_off /\ p.back = FALSE
      BY Sequences DEF Posted
    <3>2. Len(queue) < QUEUE /\ queue' = Append(queue, p)
      BY <1>2 DEF TimerPosts, Put
    <3> HIDE DEF p
    <3> QED BY <3>1, <3>2
  <2>2. /\ UNCHANGED <<nt, layer, light, vibro, sound, timer, app, power, storage>>
        /\ timerTask' = FALSE
    BY <1>2 DEF TimerPosts
  <2> QED BY <2>1, <2>2, PostKeeps DEF NotificationInv, OtherTypes
<1>3. CASE AppSaves
  <2>1. PICK m \in Posted : /\ m.type = "save" /\ m.back
                            /\ Len(queue) < QUEUE /\ queue' = Append(queue, m)
    <3> DEFINE p == [type |-> "save", seq |-> <<>>, back |-> TRUE]
    <3>1. p \in Posted /\ p.type = "save" /\ p.seq = <<>> /\ p.back = TRUE
      BY Sequences DEF Posted
    <3>2. Len(queue) < QUEUE /\ queue' = Append(queue, p)
      BY <1>3 DEF AppSaves, Put
    <3> HIDE DEF p
    <3> QED BY <3>1, <3>2
  <2>2. /\ UNCHANGED <<nt, layer, light, vibro, sound, timer, timerTask, power, storage>>
        /\ app = "idle" /\ app' = "waiting"
    BY <1>3 DEF AppSaves
  <2> QED BY <2>1, <2>2, PostKeeps DEF NotificationInv, OtherTypes
<1>4. ASSUME NEW seq \in AppCalls, NEW block \in BOOLEAN, AppMessage(seq, block)
      PROVE  NotificationInv'
  <2>1. PICK m \in Posted : /\ m.type = "notification" /\ m.back = block
                            /\ Len(queue) < QUEUE /\ queue' = Append(queue, m)
    <3> DEFINE p == [type |-> "notification", seq |-> seq, back |-> block]
    <3>1. p \in Posted /\ p.type = "notification" /\ p.seq = seq /\ p.back = block
      BY Sequences DEF Posted
    <3>2. Len(queue) < QUEUE /\ queue' = Append(queue, p)
      BY <1>4 DEF AppMessage, Put
    <3> HIDE DEF p
    <3> QED BY <3>1, <3>2
  <2>2. /\ UNCHANGED <<nt, layer, light, vibro, sound, timer, timerTask, power, storage>>
        /\ app = "idle" /\ app' = IF block THEN "waiting" ELSE "idle"
    BY <1>4 DEF AppMessage
  <2>3. OtherTypes'
    BY <2>2 DEF NotificationInv, OtherTypes
  <2>4. CASE block
    BY <2>1, <2>2, <2>3, <2>4, PostKeeps
  <2>5. CASE ~block
    BY <2>1, <2>2, <2>3, <2>5, PostKeeps
  <2> QED BY <2>4, <2>5
<1>5. ASSUME NEW s \in Charges, PowerPass(s)
      PROVE  NotificationInv'
  <2>1. PICK m \in Posted : /\ m.type = "internal" /\ m.seq = PowerSequence(s) /\ ~m.back
                            /\ Len(queue) < QUEUE /\ queue' = Append(queue, m)
    <3> DEFINE p == [type |-> "internal", seq |-> PowerSequence(s), back |-> FALSE]
    <3>1. p \in Posted /\ p.type = "internal" /\ p.seq = PowerSequence(s) /\ p.back = FALSE
      BY Sequences DEF Posted
    <3>2. Len(queue) < QUEUE /\ queue' = Append(queue, p)
      BY <1>5 DEF PowerPass, Put
    <3> HIDE DEF p
    <3> QED BY <3>1, <3>2
  <2>2. /\ UNCHANGED <<nt, layer, light, vibro, sound, timer, timerTask, app, storage>>
        /\ power' = s
    BY <1>5 DEF PowerPass
  <2>3. OtherTypes'
    BY <2>2 DEF NotificationInv, OtherTypes
  <2> QED BY <2>1, <2>2, <2>3, PostKeeps
<1> QED BY <1>1, <1>2, <1>3, <1>4, <1>5

\* The storage thread.
LEMMA StoragePostsKeeps ==
    ASSUME NotificationInv, StoragePosts
    PROVE  NotificationInv'
<1> USE DEF outputs
<1>1. PICK m \in Posted : /\ m.type = "notification" /\ ~m.back
                          /\ Len(queue) < QUEUE /\ queue' = Append(queue, m)
  <2>1. PICK seq \in {sd_wait, sd_wait_off, sd_success, sd_error} :
               /\ Len(queue) < QUEUE
               /\ queue' = Append(queue, [type |-> "notification", seq |-> seq, back |-> FALSE])
    BY DEF StoragePosts, Put
  <2> DEFINE p == [type |-> "notification", seq |-> seq, back |-> FALSE]
  <2>2. p \in Posted /\ p.type = "notification" /\ p.back = FALSE
    BY Sequences DEF Posted
  <2> HIDE DEF p
  <2>3. Len(queue) < QUEUE /\ queue' = Append(queue, p)
    BY <2>1 DEF p
  <2> QED BY <2>2, <2>3
<1>2. UNCHANGED <<nt, layer, light, vibro, sound, timer, timerTask, app, power>>
  BY DEF StoragePosts
<1>3. storage' \in [pc : {"idle", "wait", "wait_off", "success", "error"},
                    counter : 0 .. MAX_INIT]
  <2> DEFINE Pc == {"idle", "wait", "wait_off", "success", "error"}
  <2>1. storage.counter \in 0 .. MAX_INIT /\ MAX_INIT \in Nat
    BY NotificationAssumption DEF NotificationInv, OtherTypes
  <2>2. \E pc \in Pc, c \in 0 .. MAX_INIT : storage' = [pc |-> pc, counter |-> c]
    <3>1. CASE StorageTo("wait", storage.counter - 1) /\ storage.counter > 1
      BY <2>1, <3>1 DEF StorageTo
    <3>2. CASE StorageTo("wait_off", storage.counter)
      BY <2>1, <3>2 DEF StorageTo
    <3>3. CASE StorageTo("success", 0) \/ StorageTo("error", 0) \/ StorageTo("idle", 0)
      BY <2>1, <3>3 DEF StorageTo
    <3> QED BY <3>1, <3>2, <3>3 DEF StoragePosts
  <2> QED BY <2>2
<1>4. OtherTypes'
  BY <1>2, <1>3 DEF NotificationInv, OtherTypes
<1> QED BY <1>1, <1>2, <1>4, PostKeeps

\* What leaves the queue, the thread and the layers alone.
LEMMA SilentKeeps ==
    ASSUME NotificationInv, UNCHANGED <<queue, nt, layer, light, app, power>>, OtherTypes'
    PROVE  NotificationInv'
BY DEF NotificationInv, QueueTypes, ThreadTypes, LayersShow, ChargeConsistent, ChargeDue,
   BackEventAwaited, Owed

\* The timer expires, a card is found, or nothing happens.
LEMMA OthersKeep ==
    ASSUME NotificationInv, TimerExpires \/ CardDetected \/ UNCHANGED vars
    PROVE  NotificationInv'
<1>1. UNCHANGED <<queue, nt, layer, light, app, power, vibro, sound>>
  BY DEF TimerExpires, CardDetected, outputs, vars
<1>2. /\ timer' \in BOOLEAN /\ timerTask' \in BOOLEAN
      /\ storage' \in [pc : {"idle", "wait", "wait_off", "success", "error"},
                       counter : 0 .. MAX_INIT]
  <2>1. storage' = storage \/ storage' = [pc |-> "wait", counter |-> MAX_INIT]
    BY DEF TimerExpires, CardDetected, vars, StorageTo
  <2>2. MAX_INIT \in 0 .. MAX_INIT
    BY NotificationAssumption
  <2>3. timer' \in {timer, FALSE} /\ timerTask' \in {timerTask, TRUE}
    BY DEF TimerExpires, CardDetected, vars
  <2>4. timer \in BOOLEAN /\ timerTask \in BOOLEAN
    BY DEF NotificationInv, OtherTypes
  <2>5. storage' \in [pc : {"idle", "wait", "wait_off", "success", "error"},
                      counter : 0 .. MAX_INIT]
    BY <2>1, <2>2 DEF NotificationInv, OtherTypes
  <2> QED BY <2>3, <2>4, <2>5
<1> QED BY <1>1, <1>2, SilentKeeps DEF NotificationInv, OtherTypes

-----------------------------------------------------------------------------
(* The notification thread *)

LEMMA RestIsWorking ==
    /\ Rest \in Working /\ Rest.pc = "idle" /\ Rest.back = FALSE /\ Rest.items = <<>>
    /\ Rest.reset = TRUE /\ Rest.reset_mask = {}
<1>1. Off \in [Leds -> BOOLEAN] /\ <<>> \in Seq(Message)
  BY DEF Off
<1> QED BY <1>1 DEF Rest, Working

\* What the thread has when it has taken a message.
LEMMA TakeGives ==
    ASSUME NotificationInv, Take
    PROVE  /\ nt = Rest /\ queue # <<>> /\ queue' = Tail(queue) /\ queue[1] \in Posted
           /\ nt' \in Working
           /\ nt'.pc = IF queue[1].type = "save" THEN "saving" ELSE queue[1].type
           /\ nt'.items = queue[1].seq /\ nt'.back = queue[1].back
           /\ nt'.reset = TRUE /\ nt'.reset_mask = {}
           /\ UNCHANGED <<layer, light, vibro, sound, timer, timerTask, app, power, storage>>
<1>1. nt = Rest /\ queue # <<>> /\ queue \in Seq(Posted)
  BY DEF NotificationInv, ThreadTypes, QueueTypes, Take
<1>2. Head(queue) = queue[1] /\ queue[1] \in Posted
  BY <1>1, QueueShrinks
<1>3. nt' = [Rest EXCEPT !.pc = IF queue[1].type = "save" THEN "saving" ELSE queue[1].type,
                         !.items = queue[1].seq, !.back = queue[1].back]
  BY <1>2 DEF Take
<1>4. /\ nt' \in Working
      /\ nt'.pc = IF queue[1].type = "save" THEN "saving" ELSE queue[1].type
      /\ nt'.items = queue[1].seq /\ nt'.back = queue[1].back
      /\ nt'.reset = TRUE /\ nt'.reset_mask = {}
  BY <1>2, <1>3, RestIsWorking DEF Working, Posted
<1> QED BY <1>1, <1>2, <1>4 DEF Take, outputs

LEMMA TakeKeeps ==
    ASSUME NotificationInv, Take
    PROVE  NotificationInv'
<1>1. /\ nt = Rest /\ queue # <<>> /\ queue' = Tail(queue) /\ queue[1] \in Posted
      /\ nt' \in Working
      /\ nt'.pc = IF queue[1].type = "save" THEN "saving" ELSE queue[1].type
      /\ nt'.items = queue[1].seq /\ nt'.back = queue[1].back
      /\ UNCHANGED <<layer, light, vibro, sound, timer, timerTask, app, power, storage>>
  BY TakeGives
<1>2. /\ queue' \in Seq(Posted) /\ Len(queue') <= Len(queue)
      /\ 1 \in DOMAIN queue /\ DOMAIN queue \subseteq Nat /\ DOMAIN queue' \subseteq Nat
      /\ \A i \in DOMAIN queue' : i + 1 \in DOMAIN queue /\ queue'[i] = queue[i + 1]
      /\ \A i \in DOMAIN queue : i # 1 => i - 1 \in DOMAIN queue' /\ queue'[i - 1] = queue[i]
  BY <1>1, QueueShrinks DEF NotificationInv, QueueTypes
<1>3. QueueTypes'
  <2>1. Len(queue) \in Nat /\ Len(queue') \in Nat
    BY <1>2, LenProperties DEF NotificationInv, QueueTypes
  <2> QED BY <1>2, <2>1, NotificationAssumption DEF NotificationInv, QueueTypes
<1>4. ThreadTypes' /\ OtherTypes' /\ LayersShow'
  BY <1>1 DEF Posted, NotificationInv, ThreadTypes, OtherTypes, LayersShow
<1>5. BackEventAwaited'
  <2>1. ~nt.back
    BY <1>1, RestIsWorking
  <2>2. CASE app = "idle"
    <3>1. Owed = {}
      BY <2>2 DEF NotificationInv, BackEventAwaited
    <3>2. Owed' = {} /\ ~nt'.back
      BY <1>1, <1>2, <3>1 DEF Owed
    <3> QED BY <1>1, <2>2, <3>2 DEF BackEventAwaited
  <2>3. CASE app = "waiting"
    <3>1. PICK i \in DOMAIN queue : Owed = {i}
      BY <2>1, <2>3 DEF NotificationInv, BackEventAwaited
    <3>2. CASE i = 1
      <4>1. nt'.back
        BY <1>1, <3>1, <3>2 DEF Owed
      <4>2. Owed' = {}
        <5> SUFFICES ASSUME NEW j \in Owed' PROVE FALSE
          OBVIOUS
        <5>1. j \in Nat /\ j # 0 /\ j + 1 \in Owed
          <6>1. j \in DOMAIN queue'
            BY DEF Owed
          <6>2. DOMAIN queue' = 1 .. Len(queue')
            BY <1>2, LenProperties
          <6> QED BY <1>2, <6>1, <6>2 DEF Owed
        <5> QED BY <3>1, <3>2, <5>1
      <4> QED BY <1>1, <2>3, <4>1, <4>2 DEF BackEventAwaited
    <3>3. CASE i # 1
      <4>1. ~nt'.back
        BY <1>1, <1>2, <3>1, <3>3 DEF Owed
      <4>2. Owed' = {i - 1} /\ i - 1 \in DOMAIN queue'
        <5>1. i - 1 \in Owed' /\ i - 1 \in DOMAIN queue'
          BY <1>2, <3>1, <3>3 DEF Owed
        <5>2. ASSUME NEW j \in Owed' PROVE j = i - 1
          <6>1. j \in Nat /\ j + 1 \in Owed
            BY <1>2 DEF Owed
          <6> QED BY <1>2, <3>1, <6>1
        <5> QED BY <5>1, <5>2
      <4> QED BY <1>1, <2>3, <4>1, <4>2 DEF BackEventAwaited
    <3> QED BY <3>2, <3>3
  <2> QED BY <2>2, <2>3 DEF NotificationInv, OtherTypes
<1>6. ChargeConsistent'
  <2>1. /\ QueueCharge(queue', power)
        /\ queue[1].type # "internal" => (Internal(queue') = {} <=> Internal(queue) = {})
        /\ queue[1].type = "internal" =>
             /\ \E c \in Charges : queue[1].seq = PowerSequence(c)
             /\ Internal(queue') = {} => queue[1].seq = PowerSequence(power)
    BY <1>1, TakenMessage DEF NotificationInv, QueueTypes, ChargeConsistent
  <2>2. power \in Charges /\ nt.pc = "idle"
    BY <1>1, RestIsWorking DEF NotificationInv, OtherTypes
  <2>3. CASE queue[1].type = "internal"
    <3>1. PICK c \in Charges : queue[1].seq = PowerSequence(c)
      BY <2>1, <2>3
    <3>2. \A i \in DOMAIN nt'.items : nt'.items[i].t = "led" /\ nt'.items[i].of \in {"red", "green"}
      BY <1>1, <3>1, PowerItems
    <3>3. Internal(queue') = {} =>
            /\ ItemsCharge(nt'.items, power)
            /\ \A l \in {"red", "green"} : \E i \in DOMAIN nt'.items : nt'.items[i].of = l
      BY <1>1, <2>1, <2>2, <2>3, PowerItems
    <3> QED BY <1>1, <2>1, <2>3, <3>2, <3>3 DEF ChargeConsistent, ChargeDue
  <2>4. CASE queue[1].type # "internal"
    <3>1. nt'.pc # "internal"
      BY <1>1, <2>4
    <3> QED BY <1>1, <2>1, <2>2, <2>4, <3>1 DEF NotificationInv, ChargeConsistent, ChargeDue
  <2> QED BY <2>3, <2>4
<1> QED BY <1>3, <1>4, <1>5, <1>6 DEF NotificationInv

\* A step of the thread within a message, which keeps it for the same caller.
LEMMA WithinKeeps ==
    ASSUME NotificationInv, UNCHANGED <<queue, app, power>>,
           nt' \in Working, nt'.pc = "notification", nt.pc = "notification", nt'.back = nt.back,
           OtherTypes', LayersShow',
           \A l \in {"red", "green"} : layer'[l].internal = layer[l].internal
    PROVE  NotificationInv'
<1>1. QueueTypes' /\ ThreadTypes'
  BY DEF NotificationInv, QueueTypes, ThreadTypes
<1>2. BackEventAwaited'
  BY DEF NotificationInv, BackEventAwaited, Owed
<1>3. ChargeConsistent'
  BY DEF NotificationInv, ChargeConsistent, ChargeDue
<1> QED BY <1>1, <1>2, <1>3 DEF NotificationInv

\* The end of a message: a caller that waited for it is released.
LEMMA CompleteKeeps ==
    ASSUME NotificationInv, UNCHANGED <<queue, power>>, Complete, nt.pc # "idle",
           nt.pc = "internal" => nt.items = <<>>,
           OtherTypes', LayersShow',
           \A l \in {"red", "green"} : layer'[l].internal = layer[l].internal
    PROVE  NotificationInv'
<1>0. nt' = Rest /\ app' = IF nt.back THEN "idle" ELSE app
  BY DEF Complete
<1>1. QueueTypes' /\ ThreadTypes'
  BY <1>0, RestIsWorking DEF NotificationInv, QueueTypes, ThreadTypes
<1>2. BackEventAwaited'
  <2>1. nt.back => app = "waiting" /\ Owed = {}
    BY DEF NotificationInv, BackEventAwaited, OtherTypes
  <2> QED BY <1>0, <2>1, RestIsWorking DEF NotificationInv, BackEventAwaited, Owed
<1>3. ChargeConsistent'
  <2>1. nt.pc = "internal" => DOMAIN nt.items = {}
    OBVIOUS
  <2>2. nt'.pc = "idle"
    BY <1>0, RestIsWorking
  <2> QED BY <2>1, <2>2 DEF NotificationInv, ChargeConsistent, ChargeDue
<1> QED BY <1>1, <1>2, <1>3 DEF NotificationInv

\* What one message of a sequence does, whatever its type.
ItemEffect ==
    /\ nt' \in Working /\ nt'.pc = "notification" /\ nt'.back = nt.back
    /\ nt'.items = Tail(nt.items)
    /\ nt'.reset = IF item.t = "keep" THEN FALSE ELSE nt.reset
    /\ nt.reset_mask \subseteq nt'.reset_mask
    /\ nt'.reset_mask \subseteq nt.reset_mask \cup Leds \cup {item.t}
    /\ item.t \in {"display", "vibro", "sound"} => item.t \in nt'.reset_mask
    /\ vibro' \in BOOLEAN /\ sound' \in BOOLEAN /\ timer' \in BOOLEAN
    /\ item.t # "vibro" => vibro' = vibro
    /\ item.t # "sound" => sound' = sound
    /\ item.t # "display" => timer' = timer /\ layer'["display"].index = layer["display"].index
    /\ LayersShow'
    /\ \A l \in {"red", "green"} : layer'[l].internal = layer[l].internal

LEMMA ItemIs ==
    ASSUME nt \in Working, nt.items # <<>>
    PROVE  /\ item \in Message /\ item = nt.items[1] /\ 1 \in DOMAIN nt.items
           /\ Tail(nt.items) \in Seq(Message)
BY QueueShrinks DEF item, Working

LEMMA NotificationItemEffect ==
    ASSUME NotificationInv, NotificationItem
    PROVE  ItemEffect
<1>1. nt \in Working /\ nt.pc = "notification" /\ nt.items # <<>>
  BY DEF NotificationInv, ThreadTypes, NotificationItem
<1>2. item \in Message /\ Tail(nt.items) \in Seq(Message)
  BY <1>1, ItemIs
<1>3. /\ item.t = "led" => item.of \in Leds
      /\ item.t \in {"led", "display", "lock", "vibro", "sound"} => item.on \in BOOLEAN
  BY <1>2, MessageFields
<1>4. LayersShow /\ vibro \in BOOLEAN /\ sound \in BOOLEAN /\ timer \in BOOLEAN
  BY DEF NotificationInv, OtherTypes
<1>5. /\ "display" \in Lights /\ Leds \subseteq Lights /\ {"display"} \subseteq Lights
      /\ {"red", "green"} \subseteq Leds /\ "display" \notin Leds
  BY DEF Lights, Leds
<1>6. UNCHANGED <<layer, light>> => LayersShow'
  BY <1>4 DEF LayersShow
<1>7. CASE ItemDisplay
  <2>1. item.t = "display" /\ vibro' = vibro /\ sound' = sound
    BY <1>7 DEF ItemDisplay
  <2>2. /\ nt' \in Working /\ nt'.pc = nt.pc /\ nt'.back = nt.back /\ nt'.items = Tail(nt.items)
        /\ nt'.reset = nt.reset /\ nt'.reset_mask = nt.reset_mask \cup {"display"}
    BY <1>1, <1>2, <1>7 DEF ItemDisplay, Went, Masked, Working
  <2>3. /\ LayersShow' /\ timer' \in BOOLEAN
        /\ \A l \in {"red", "green"} : layer'[l].internal = layer[l].internal
    <3>1. CASE item.on
      <4> DEFINE on == [l \in {"display"} |-> TRUE]
      <4>1. ApplyNotification({"display"}, on) /\ timer' = timer
        BY <1>7, <3>1 DEF ItemDisplay
      <4>2. \A l \in {"display"} : on[l] \in BOOLEAN
        OBVIOUS
      <4> HIDE DEF on
      <4> QED BY <1>4, <1>5, <4>1, <4>2, NotificationLayer
    <3>2. CASE ~item.on
      <4>1. ResetNotification({"display"}) /\ timer' = FALSE
        BY <1>7, <3>2 DEF ItemDisplay
      <4> QED BY <1>4, <1>5, <4>1, InternalLayerShows
    <3> QED BY <3>1, <3>2
  <2> QED BY <1>1, <1>4, <2>1, <2>2, <2>3 DEF ItemEffect
<1>8. CASE ItemLock
  <2> DEFINE locks == (nt.display_led_lock + (IF item.on THEN 1 ELSE 255)) % 256
  <2>1. /\ item.t = "lock" /\ vibro' = vibro /\ sound' = sound /\ timer' = timer
        /\ ApplyInternal("display", item.on) \/ UNCHANGED <<layer, light>>
        /\ nt' = [nt EXCEPT !.display_led_lock = locks, !.items = Tail(@)]
    BY <1>8 DEF ItemLock, Went
  <2>2. locks \in Int
    BY <1>1 DEF Working
  <2> HIDE DEF locks
  <2>3. /\ nt' \in Working /\ nt'.pc = nt.pc /\ nt'.back = nt.back /\ nt'.items = Tail(nt.items)
        /\ nt'.reset = nt.reset /\ nt'.reset_mask = nt.reset_mask
    BY <1>1, <1>2, <2>1, <2>2 DEF Working
  <2>4. /\ LayersShow' /\ layer'["display"].index = layer["display"].index
        /\ \A l \in {"red", "green"} : layer'[l].internal = layer[l].internal
    BY <1>3, <1>4, <1>5, <1>6, <2>1, InternalLayer
  <2> QED BY <1>1, <1>4, <2>1, <2>3, <2>4 DEF ItemEffect
<1>9. CASE ItemLed
  <2>1. item.t = "led" /\ UNCHANGED <<layer, light, vibro, sound, timer>>
    BY <1>9 DEF ItemLed, outputs
  <2>2. nt' = [nt EXCEPT !.reset_mask = @ \cup {item.of}, !.led_active = TRUE,
                         !.led_values[item.of] = item.on, !.items = Tail(@)]
    BY <1>9 DEF ItemLed, Went, Masked
  <2>3. /\ nt' \in Working /\ nt'.pc = nt.pc /\ nt'.back = nt.back /\ nt'.items = Tail(nt.items)
        /\ nt'.reset = nt.reset /\ nt'.reset_mask = nt.reset_mask \cup {item.of}
    BY <1>1, <1>2, <1>3, <2>1, <2>2 DEF Working
  <2> QED BY <1>1, <1>3, <1>4, <1>6, <2>1, <2>3 DEF ItemEffect
<1>10. CASE ItemVibro
  <2>1. item.t = "vibro" /\ vibro' = item.on /\ UNCHANGED <<layer, light, sound, timer>>
    BY <1>10 DEF ItemVibro
  <2>2. /\ nt' \in Working /\ nt'.pc = nt.pc /\ nt'.back = nt.back /\ nt'.items = Tail(nt.items)
        /\ nt'.reset = nt.reset /\ nt'.reset_mask = nt.reset_mask \cup {"vibro"}
    BY <1>1, <1>2, <1>10 DEF ItemVibro, Went, Masked, Working
  <2> QED BY <1>1, <1>3, <1>4, <1>6, <2>1, <2>2 DEF ItemEffect
<1>11. CASE ItemSound
  <2>1. item.t = "sound" /\ sound' = item.on /\ UNCHANGED <<layer, light, vibro, timer>>
    BY <1>11 DEF ItemSound
  <2>2. /\ nt' \in Working /\ nt'.pc = nt.pc /\ nt'.back = nt.back /\ nt'.items = Tail(nt.items)
        /\ nt'.reset = nt.reset /\ nt'.reset_mask = nt.reset_mask \cup {"sound"}
    BY <1>1, <1>2, <1>11 DEF ItemSound, Went, Masked, Working
  <2> QED BY <1>1, <1>3, <1>4, <1>6, <2>1, <2>2 DEF ItemEffect
<1>12. CASE ItemDelay
  <2>1. item.t = "delay" /\ UNCHANGED <<vibro, sound, timer>>
    BY <1>12 DEF ItemDelay
  <2>2. /\ nt' \in Working /\ nt'.pc = nt.pc /\ nt'.back = nt.back /\ nt'.items = Tail(nt.items)
        /\ nt'.reset = nt.reset /\ nt.reset_mask \subseteq nt'.reset_mask
        /\ nt'.reset_mask \subseteq nt.reset_mask \cup Leds
    <3>1. nt' = [nt EXCEPT !.items = Tail(@)] \/
          nt' = [nt EXCEPT !.reset_mask = @ \cup Leds, !.led_active = FALSE, !.items = Tail(@)]
      BY <1>12 DEF ItemDelay, Went, Masked
    <3>2. CASE nt' = [nt EXCEPT !.items = Tail(@)]
      BY <1>1, <1>2, <3>2 DEF Working
    <3>3. CASE nt' = [nt EXCEPT !.reset_mask = @ \cup Leds, !.led_active = FALSE,
                                !.items = Tail(@)]
      BY <1>1, <1>2, <3>3 DEF Working
    <3> QED BY <3>1, <3>2, <3>3
  <2>3. /\ LayersShow' /\ layer'["display"].index = layer["display"].index
        /\ \A l \in {"red", "green"} : layer'[l].internal = layer[l].internal
    <3>1. ApplyNotification(Leds, nt.led_values) \/ UNCHANGED <<layer, light>>
      BY <1>12 DEF ItemDelay
    <3>2. \A l \in Leds : nt.led_values[l] \in BOOLEAN
      BY <1>1 DEF Working
    <3> QED BY <1>4, <1>5, <1>6, <3>1, <3>2, NotificationLayer
  <2> QED BY <1>1, <1>4, <2>1, <2>2, <2>3 DEF ItemEffect
<1>13. CASE ItemDoNotReset
  <2>1. item.t = "keep" /\ UNCHANGED <<layer, light, vibro, sound, timer>>
    BY <1>13 DEF ItemDoNotReset, outputs
  <2>2. /\ nt' \in Working /\ nt'.pc = nt.pc /\ nt'.back = nt.back /\ nt'.items = Tail(nt.items)
        /\ nt'.reset = FALSE /\ nt'.reset_mask = nt.reset_mask
    BY <1>1, <1>2, <1>13 DEF ItemDoNotReset, Went, Working
  <2> QED BY <1>1, <1>4, <1>6, <2>1, <2>2 DEF ItemEffect
<1> QED BY <1>7, <1>8, <1>9, <1>10, <1>11, <1>12, <1>13 DEF NotificationItem

LEMMA NotificationItemKeeps ==
    ASSUME NotificationInv, NotificationItem
    PROVE  NotificationInv'
<1>1. ItemEffect
  BY NotificationItemEffect
<1>2. nt.pc = "notification" /\ UNCHANGED <<queue, timerTask, app, power, storage>>
  BY DEF NotificationItem
<1>3. OtherTypes'
  BY <1>1, <1>2 DEF NotificationInv, OtherTypes, ItemEffect
<1> QED BY <1>1, <1>2, <1>3, WithinKeeps DEF ItemEffect

LEMMA SendLedsEffect ==
    ASSUME NotificationInv, SendLeds
    PROVE  /\ nt' \in Working /\ nt'.pc = nt.pc /\ nt'.back = nt.back /\ nt'.items = nt.items
           /\ nt'.reset = nt.reset /\ nt'.reset_mask = nt.reset_mask \cup Leds
           /\ LayersShow'
           /\ \A l \in Lights : layer'[l].internal = layer[l].internal
           /\ layer'["display"].index = layer["display"].index
<1>1. nt \in Working /\ LayersShow
  BY DEF NotificationInv, ThreadTypes
<1>2. nt' = [nt EXCEPT !.reset_mask = @ \cup Leds, !.led_active = FALSE]
  BY DEF SendLeds, Masked
<1>3. /\ nt' \in Working /\ nt'.pc = nt.pc /\ nt'.back = nt.back /\ nt'.items = nt.items
      /\ nt'.reset = nt.reset /\ nt'.reset_mask = nt.reset_mask \cup Leds
  BY <1>1, <1>2 DEF Working
<1>4. PICK v \in [Leds -> BOOLEAN] : ApplyNotification(Leds, v)
  <2>1. nt.led_values \in [Leds -> BOOLEAN] /\ Off \in [Leds -> BOOLEAN]
    BY <1>1 DEF Working, Off
  <2> QED BY <2>1 DEF SendLeds
<1>5. Leds \in SUBSET Lights /\ "display" \in Lights /\ "display" \notin Leds
  BY DEF Lights, Leds
<1>6. \A l \in Leds : v[l] \in BOOLEAN
  OBVIOUS
<1> QED BY <1>1, <1>3, <1>4, <1>5, <1>6, NotificationLayer

LEMMA SendLedsKeeps ==
    ASSUME NotificationInv, SendLeds
    PROVE  NotificationInv'
<1>1. /\ nt' \in Working /\ nt'.pc = nt.pc /\ nt'.back = nt.back /\ LayersShow'
      /\ \A l \in Lights : layer'[l].internal = layer[l].internal
  BY SendLedsEffect
<1>2. /\ nt.pc = "notification"
      /\ UNCHANGED <<queue, vibro, sound, timer, timerTask, app, power, storage>>
  BY DEF SendLeds
<1>3. OtherTypes'
  BY <1>2 DEF NotificationInv, OtherTypes
<1>4. \A l \in {"red", "green"} : layer'[l].internal = layer[l].internal
  BY <1>1 DEF Lights, Leds
<1> QED BY <1>1, <1>2, <1>3, <1>4, WithinKeeps

\* A message of the power service changes one colour, of which it was due.
LEMMA InternalItemKeeps ==
    ASSUME NotificationInv, InternalItem
    PROVE  NotificationInv'
<1>1. nt \in Working /\ nt.pc = "internal" /\ nt.items # <<>> /\ nt.items \in Seq(Message)
  BY DEF NotificationInv, ThreadTypes, InternalItem, Working
<1>2. /\ item \in Message /\ item = nt.items[1] /\ 1 \in DOMAIN nt.items
      /\ Tail(nt.items) \in Seq(Message)
  BY <1>1, ItemIs
<1>3. /\ nt' \in Working /\ nt'.pc = nt.pc /\ nt'.back = nt.back /\ nt'.items = Tail(nt.items)
  BY <1>1, <1>2 DEF InternalItem, Went, Working
<1>4. /\ \A i \in DOMAIN nt'.items : i + 1 \in DOMAIN nt.items /\ nt'.items[i] = nt.items[i + 1]
      /\ \A i \in DOMAIN nt.items :
           i # 1 => i - 1 \in DOMAIN nt'.items /\ nt'.items[i - 1] = nt.items[i]
  BY <1>1, <1>3, QueueShrinks
<1>5. UNCHANGED <<queue, vibro, sound, timer, timerTask, app, power, storage>>
  BY DEF InternalItem
<1>6. \A i \in DOMAIN nt.items : nt.items[i].t = "led" /\ nt.items[i].of \in {"red", "green"}
  BY <1>1 DEF NotificationInv, ChargeConsistent
<1>7. item.t = "led" /\ item.of \in {"red", "green"} /\ item.on \in BOOLEAN
  BY <1>2, <1>6, MessageFields
<1>8. item.of \in Lights /\ {"red", "green"} \subseteq Lights
  BY <1>7 DEF Lights, Leds
<1>9. /\ LayersShow'
      /\ \A l \in Lights : layer'[l].internal = IF l = item.of THEN item.on ELSE layer[l].internal
  BY <1>7, <1>8, InternalLayer DEF NotificationInv, InternalItem
<1>10. QueueTypes' /\ ThreadTypes' /\ OtherTypes'
  BY <1>1, <1>3, <1>5 DEF NotificationInv, QueueTypes, ThreadTypes, OtherTypes
<1>11. BackEventAwaited'
  BY <1>3, <1>5 DEF NotificationInv, BackEventAwaited, Owed
<1>12. ChargeConsistent'
  <2>1. QueueCharge(queue', power')
    BY <1>5 DEF NotificationInv, ChargeConsistent
  <2>2. \A i \in DOMAIN nt'.items :
          nt'.items[i].t = "led" /\ nt'.items[i].of \in {"red", "green"}
    BY <1>4, <1>6
  <2>3. ASSUME Internal(queue) = {}
        PROVE  /\ ItemsCharge(nt'.items, power)
               /\ \A l \in {"red", "green"} :
                    \/ layer'[l].internal = Colour(power)[l]
                    \/ \E i \in DOMAIN nt'.items : nt'.items[i].of = l
    <3>1. /\ ItemsCharge(nt.items, power)
          /\ \A l \in {"red", "green"} :
               \/ layer[l].internal = Colour(power)[l]
               \/ \E i \in DOMAIN nt.items : nt.items[i].of = l
      BY <1>1, <2>3 DEF NotificationInv, ChargeConsistent, ChargeDue
    <3>2. ItemsCharge(nt'.items, power)
      BY <1>4, <3>1 DEF ItemsCharge
    <3>3. item.on = Colour(power)[item.of]
      BY <1>2, <3>1 DEF ItemsCharge
    <3>4. ASSUME NEW l \in {"red", "green"}
          PROVE  \/ layer'[l].internal = Colour(power)[l]
                 \/ \E i \in DOMAIN nt'.items : nt'.items[i].of = l
      <4>1. CASE l = item.of
        BY <1>8, <1>9, <3>3, <4>1
      <4>2. CASE l # item.of
        <5>1. layer'[l].internal = layer[l].internal
          BY <1>8, <1>9, <4>2
        <5>2. ASSUME NEW i \in DOMAIN nt.items, nt.items[i].of = l
              PROVE  \E j \in DOMAIN nt'.items : nt'.items[j].of = l
          BY <1>2, <1>4, <4>2, <5>2
        <5> QED BY <3>1, <5>1, <5>2
      <4> QED BY <4>1, <4>2
    <3> QED BY <3>2, <3>4
  <2> QED BY <1>1, <1>3, <1>5, <2>1, <2>2, <2>3 DEF ChargeConsistent, ChargeDue
<1> QED BY <1>9, <1>10, <1>11, <1>12 DEF NotificationInv

\* The end of a sequence, where it is reset ...
LEMMA ResetLayerEffect ==
    ASSUME NotificationInv, ResetLayer
    PROVE  /\ LayersShow'
           /\ \A l \in Lights : layer'[l].internal = layer[l].internal
           /\ layer'["display"].index = layer["display"].index
           /\ vibro' \in BOOLEAN /\ sound' \in BOOLEAN /\ timer' \in BOOLEAN
           /\ "vibro" \in nt.reset_mask => ~vibro'
           /\ "sound" \in nt.reset_mask => ~sound'
           /\ (vibro' => vibro) /\ (sound' => sound) /\ (timer => timer')
           /\ "display" \in nt.reset_mask => timer'
<1>1. LayersShow /\ ResetNotification(nt.reset_mask \cap Leds)
  BY DEF NotificationInv, ResetLayer
<1>2. /\ nt.reset_mask \cap Leds \in SUBSET Lights
      /\ "display" \in Lights /\ "display" \notin nt.reset_mask \cap Leds
  BY DEF Lights, Leds
<1>3. /\ LayersShow'
      /\ \A l \in Lights : layer'[l].internal = layer[l].internal
      /\ layer'["display"].index = layer["display"].index
  <2> DEFINE ls == nt.reset_mask \cap Leds
  <2> HIDE DEF ls
  <2>1. ls \in SUBSET Lights /\ "display" \in Lights /\ "display" \notin ls /\ ResetNotification(ls)
    BY <1>1, <1>2 DEF ls
  <2> QED BY <1>1, <2>1, InternalLayerShows
<1> QED BY <1>3 DEF ResetLayer

\* ... and the end of any other message.
LEMMA EndsKeep ==
    ASSUME NotificationInv, EndNotification \/ EndInternal \/ EndSave
    PROVE  NotificationInv'
<1>1. /\ Complete /\ nt.pc # "idle" /\ (nt.pc = "internal" => nt.items = <<>>)
      /\ UNCHANGED <<queue, timerTask, power, storage>>
      /\ ResetLayer \/ UNCHANGED <<layer, light, vibro, sound, timer>>
  BY DEF EndNotification, EndInternal, EndSave, outputs
<1>2. /\ LayersShow' /\ \A l \in Lights : layer'[l].internal = layer[l].internal
      /\ vibro' \in BOOLEAN /\ sound' \in BOOLEAN /\ timer' \in BOOLEAN
  <2>1. CASE ResetLayer
    BY <2>1, ResetLayerEffect
  <2>2. CASE UNCHANGED <<layer, light, vibro, sound, timer>>
    BY <2>2 DEF NotificationInv, LayersShow, OtherTypes
  <2> QED BY <1>1, <2>1, <2>2
<1>3. \A l \in {"red", "green"} : layer'[l].internal = layer[l].internal
  BY <1>2 DEF Lights, Leds
<1>4. OtherTypes'
  BY <1>1, <1>2 DEF NotificationInv, OtherTypes, Complete
<1> QED BY <1>1, <1>2, <1>3, <1>4, CompleteKeeps

-----------------------------------------------------------------------------
(* The invariant *)

LEMMA NotificationInitInv == Init => NotificationInv
<1> SUFFICES ASSUME Init PROVE NotificationInv
  OBVIOUS
<1> DEFINE m == [type |-> "notification", seq |-> display_on, back |-> FALSE]
<1>1. m \in Posted /\ m.type = "notification" /\ m.back = FALSE
  BY Sequences DEF Posted
<1>2. queue = <<m>>
  BY DEF Init
<1> HIDE DEF m
<1>3. /\ queue \in Seq(Posted) /\ Len(queue) = 1 /\ DOMAIN queue = {1} /\ queue[1] = m
  BY <1>1, <1>2
<1>4. QueueTypes /\ Internal(queue) = {} /\ Owed = {}
  BY <1>1, <1>3, NotificationAssumption DEF QueueTypes, Internal, Owed
<1>5. ThreadTypes /\ nt.pc = "idle" /\ nt.back = FALSE
  BY RestIsWorking DEF Init, ThreadTypes
<1>6. OtherTypes
  <2>1. 0 \in 0 .. MAX_INIT
    BY NotificationAssumption
  <2>2. storage \in [pc : {"idle", "wait", "wait_off", "success", "error"},
                     counter : 0 .. MAX_INIT]
    BY <2>1 DEF Init
  <2> QED BY <2>2 DEF Init, OtherTypes, Charges
<1>7. LayersShow /\ \A l \in Lights : layer[l].internal = FALSE
  BY DEF Init, LayersShow, Lights, Layer
<1>8. \A l \in {"red", "green"} : l \in Lights /\ Colour(power)[l] = FALSE
  BY DEF Init, Colour, Lights, Leds
<1>9. ChargeConsistent
  BY <1>4, <1>5, <1>7, <1>8 DEF ChargeConsistent, ChargeDue, QueueCharge
<1>10. BackEventAwaited
  BY <1>4, <1>5 DEF Init, BackEventAwaited
<1> QED BY <1>4, <1>5, <1>6, <1>7, <1>9, <1>10 DEF NotificationInv

LEMMA NotificationStepInv == NotificationInv /\ [Next]_vars => NotificationInv'
<1> SUFFICES ASSUME NotificationInv, [Next]_vars PROVE NotificationInv'
  OBVIOUS
<1>1. CASE Thread
  BY <1>1, TakeKeeps, InternalItemKeeps, NotificationItemKeeps, SendLedsKeeps, EndsKeep
     DEF Thread
<1>2. CASE StoragePosts
  BY <1>2, StoragePostsKeeps
<1>3. CASE TimerExpires \/ CardDetected \/ UNCHANGED vars
  BY <1>3, OthersKeep
<1>4. CASE TimerPosts \/ (Environment /\ ~CardDetected)
  BY <1>4, PostersKeep DEF Environment, Charges
<1> QED BY <1>1, <1>2, <1>3, <1>4 DEF Next, Environment

\* The types, the layers, the messages about the battery and the events that
\* are owed stay consistent, whatever is posted and in whatever order
\* (notification_app.c:36-127, 153-333, 468-502).
THEOREM NotificationInvariant == Spec => []NotificationInv
BY NotificationInitInv, NotificationStepInv, PTL DEF Spec

\* The red and the green LED show the state of the battery whenever the service
\* has handled what power_check_charging_state posted and no notification lies
\* over them, for any queue and any sequences (notification_app.c:36-80, 316-333,
\* power.c:70-90).
THEOREM ChargeIsShown == Spec => []ChargeShown
<1>1. NotificationInv => ChargeShown
  <2> SUFFICES ASSUME NotificationInv PROVE ChargeShown
    OBVIOUS
  <2>1. NotificationTypeOK
    <3>1. DOMAIN layer = Leds \cup {"display"}
      BY DEF NotificationInv, LayersShow, Lights
    <3> QED BY <3>1 DEF NotificationInv, QueueTypes, ThreadTypes, OtherTypes, LayersShow, Lights,
                        Layer, Working, NotificationTypeOK
  <2>2. ASSUME nt.pc = "idle", \A i \in DOMAIN queue : queue[i].type # "internal",
               NEW l \in {"red", "green"}, layer[l].index = "Internal"
        PROVE  light[l] = Colour(power)[l]
    <3>1. Internal(queue) = {} /\ l \in Lights
      BY <2>2 DEF Internal, Lights, Leds
    <3>2. layer[l].internal = Colour(power)[l]
      BY <2>2, <3>1 DEF NotificationInv, ChargeConsistent, ChargeDue
    <3>3. light[l] = layer[l].internal
      BY <2>2, <3>1 DEF NotificationInv, LayersShow
    <3> QED BY <3>2, <3>3
  <2> QED BY <2>1, <2>2 DEF ChargeShown
<1> QED BY <1>1, NotificationInvariant, PTL

\* A caller that waits for back_event has exactly one message with it, and
\* nobody else's event is ever set (notification_app_api.c:5-35,
\* notification_app.c:498-500).
THEOREM BackEventsAreAwaited == Spec => []BackEventAwaited
<1>1. NotificationInv => BackEventAwaited
  BY DEF NotificationInv
<1> QED BY <1>1, NotificationInvariant, PTL

-----------------------------------------------------------------------------
(* The display, vibration and sound *)

\* The inductive invariant: a sequence that will not be reset touches nothing
\* that lasts, and what the thread has begun is in its reset_mask.
PostedEnd == \A i \in DOMAIN queue : queue[i].type = "notification" => EndsItself(queue[i].seq)
ThreadEnds ==
    nt.pc = "notification" /\ (~nt.reset \/ Has(nt.items, {"keep"})) =>
      ~Has(nt.items, Lasting) /\ nt.reset_mask \cap Lasting = {}
Masks ==
    /\ vibro => nt.pc = "notification" /\ "vibro" \in nt.reset_mask
    /\ sound => nt.pc = "notification" /\ "sound" \in nt.reset_mask
TimedInv == PostedEnd /\ ThreadEnds /\ Masks /\ DisplayIsTimed

LEMMA SequencesEnd ==
    /\ \A seq \in {display_on, display_off, sd_wait, sd_wait_off, sd_success, sd_error} :
         EndsItself(seq)
    /\ Shows(display_off)
<1>1. /\ \A v \in BOOLEAN : Display(v).t = "display"
      /\ \A l \in Leds, v \in BOOLEAN : Led(l, v).t = "led"
      /\ Delay.t = "delay" /\ DoNotReset.t = "keep"
  BY DEF Display, Led, Delay, DoNotReset
<1>2. {"red", "green", "blue"} \subseteq Leds
  BY DEF Leds
<1>3. EndsItself(display_on) /\ EndsItself(display_off) /\ Shows(display_off)
  <2> DEFINE d == Display(TRUE)
             e == Display(FALSE)
  <2>1. d.t = "display" /\ e.t = "display"
    BY <1>1
  <2>2. display_on = <<d>> /\ display_off = <<e>>
    BY DEF display_on, display_off
  <2> HIDE DEF d, e
  <2> QED BY <2>1, <2>2 DEF EndsItself, Has, Shows
<1>4. EndsItself(sd_wait) /\ EndsItself(sd_wait_off)
  <2> DEFINE r == Led("red", TRUE)
             b == Led("blue", TRUE)
             d == Led("red", FALSE)
             e == Led("blue", FALSE)
  <2>1. r.t = "led" /\ b.t = "led" /\ d.t = "led" /\ e.t = "led"
    BY <1>1, <1>2
  <2>2. sd_wait = <<r, b, DoNotReset>> /\ sd_wait_off = <<d, e>>
    BY DEF sd_wait, sd_wait_off
  <2> HIDE DEF r, b, d, e
  <2>3. \A i \in DOMAIN sd_wait : sd_wait[i].t \in {"led", "keep"}
    BY <1>1, <2>1, <2>2
  <2>4. \A i \in DOMAIN sd_wait_off : sd_wait_off[i].t = "led"
    BY <2>1, <2>2
  <2> QED BY <2>3, <2>4 DEF EndsItself, Has, Lasting
<1>5. EndsItself(sd_success) /\ EndsItself(sd_error)
  <2> DEFINE r == Led("red", TRUE)
             g == Led("green", TRUE)
             d == Led("red", FALSE)
             e == Led("green", FALSE)
  <2>1. r.t = "led" /\ g.t = "led" /\ d.t = "led" /\ e.t = "led"
    BY <1>1, <1>2
  <2>2. sd_success = <<g, Delay, e, Delay>> /\ sd_error = <<r, Delay, d, Delay>>
    BY DEF sd_success, sd_error
  <2> HIDE DEF r, g, d, e
  <2>3. /\ \A i \in DOMAIN sd_success : sd_success[i].t \in {"led", "delay"}
        /\ \A i \in DOMAIN sd_error : sd_error[i].t \in {"led", "delay"}
    BY <1>1, <2>1, <2>2
  <2> QED BY <2>3 DEF EndsItself, Has, Lasting
<1> QED BY <1>3, <1>4, <1>5

\* A posted message leaves the display to whoever had it.
LEMMA PostKeepsTimed ==
    ASSUME NotificationInv, TimedInv, NEW m \in Posted,
           m.type = "notification" => EndsItself(m.seq), queue' = Append(queue, m),
           UNCHANGED <<nt, layer, vibro, sound, timer>>,
           (timerTask' = timerTask) \/ (m.type = "notification" /\ Shows(m.seq))
    PROVE  TimedInv'
<1>1. /\ Len(queue) + 1 \in DOMAIN queue' /\ queue'[Len(queue) + 1] = m
      /\ \A i \in DOMAIN queue : i \in DOMAIN queue' /\ queue'[i] = queue[i]
      /\ \A i \in DOMAIN queue' : i \in DOMAIN queue \/ queue'[i] = m
  BY QueueGrows DEF NotificationInv, QueueTypes
<1>2. PostedEnd'
  BY <1>1 DEF TimedInv, PostedEnd
<1>3. ThreadEnds' /\ Masks'
  BY DEF TimedInv, ThreadEnds, Masks
<1>4. DisplayIsTimed'
  <2>1. \A i \in DOMAIN queue : queue[i].type = "notification" /\ Shows(queue[i].seq) =>
          \E j \in DOMAIN queue' : queue'[j].type = "notification" /\ Shows(queue'[j].seq)
    BY <1>1
  <2>2. m.type = "notification" /\ Shows(m.seq) =>
          \E j \in DOMAIN queue' : queue'[j].type = "notification" /\ Shows(queue'[j].seq)
    BY <1>1
  <2> QED BY <2>1, <2>2 DEF TimedInv, DisplayIsTimed
<1> QED BY <1>2, <1>3, <1>4 DEF TimedInv

LEMMA PostersKeepTimed ==
    ASSUME AppCallsEnd, NotificationInv, TimedInv,
           \/ KeyEvent \/ TimerPosts \/ AppSaves \/ StoragePosts
           \/ \E seq \in AppCalls, block \in BOOLEAN : AppMessage(seq, block)
           \/ \E s \in Charges : PowerPass(s)
    PROVE  TimedInv'
<1> USE DEF outputs
<1> DEFINE Post(type, seq, back) == [type |-> type, seq |-> seq, back |-> back]
<1>1. ASSUME NEW type \in {"notification", "internal", "save"}, NEW seq \in Seq(Message),
             NEW back \in BOOLEAN, type = "notification" => EndsItself(seq),
             queue' = Append(queue, Post(type, seq, back)),
             UNCHANGED <<nt, layer, vibro, sound, timer>>,
             (timerTask' = timerTask) \/ (type = "notification" /\ Shows(seq))
      PROVE  TimedInv'
  <2> DEFINE m == Post(type, seq, back)
  <2>1. m \in Posted /\ m.type = type /\ m.seq = seq
    BY DEF Posted
  <2>2. queue' = Append(queue, m)
    BY <1>1
  <2> HIDE DEF m
  <2> QED BY <1>1, <2>1, <2>2, PostKeepsTimed
<1>2. CASE KeyEvent
  <2>1. queue' = Append(queue, Post("notification", display_on, FALSE))
    BY <1>2 DEF KeyEvent, Put
  <2>2. UNCHANGED <<nt, layer, vibro, sound, timer, timerTask>>
    BY <1>2 DEF KeyEvent
  <2> QED BY <1>1, <2>1, <2>2, Sequences, SequencesEnd
<1>3. CASE TimerPosts
  <2>1. queue' = Append(queue, Post("notification", display_off, FALSE))
    BY <1>3 DEF TimerPosts, Put
  <2>2. UNCHANGED <<nt, layer, vibro, sound, timer>>
    BY <1>3 DEF TimerPosts
  <2> QED BY <1>1, <2>1, <2>2, Sequences, SequencesEnd
<1>4. CASE AppSaves
  <2>1. queue' = Append(queue, Post("save", <<>>, TRUE))
    BY <1>4 DEF AppSaves, Put
  <2>2. UNCHANGED <<nt, layer, vibro, sound, timer, timerTask>>
    BY <1>4 DEF AppSaves
  <2> QED BY <1>1, <2>1, <2>2, Sequences
<1>5. CASE StoragePosts
  <2>1. PICK seq \in {sd_wait, sd_wait_off, sd_success, sd_error} :
               queue' = Append(queue, Post("notification", seq, FALSE))
    BY <1>5 DEF StoragePosts, Put
  <2>2. UNCHANGED <<nt, layer, vibro, sound, timer, timerTask>>
    BY <1>5 DEF StoragePosts
  <2> QED BY <1>1, <2>1, <2>2, Sequences, SequencesEnd
<1>6. ASSUME NEW seq \in AppCalls, NEW block \in BOOLEAN, AppMessage(seq, block)
      PROVE  TimedInv'
  <2>1. queue' = Append(queue, Post("notification", seq, block))
    BY <1>6 DEF AppMessage, Put
  <2>2. UNCHANGED <<nt, layer, vibro, sound, timer, timerTask>>
    BY <1>6 DEF AppMessage
  <2> QED BY <1>1, <2>1, <2>2, Sequences DEF AppCallsEnd
<1>7. ASSUME NEW s \in Charges, PowerPass(s)
      PROVE  TimedInv'
  <2>1. queue' = Append(queue, Post("internal", PowerSequence(s), FALSE))
    BY <1>7 DEF PowerPass, Put
  <2>2. UNCHANGED <<nt, layer, vibro, sound, timer, timerTask>>
    BY <1>7 DEF PowerPass
  <2> QED BY <1>1, <2>1, <2>2, Sequences
<1> QED BY <1>2, <1>3, <1>4, <1>5, <1>6, <1>7

LEMMA TimerExpiresKeepsTimed ==
    ASSUME NotificationInv, TimedInv, TimerExpires \/ CardDetected \/ UNCHANGED vars
    PROVE  TimedInv'
<1>1. UNCHANGED <<queue, nt, layer, vibro, sound>>
  BY DEF TimerExpires, CardDetected, vars, outputs
<1>2. timer \/ timerTask => timer' \/ timerTask'
  BY DEF TimerExpires, CardDetected, vars
<1>3. PostedEnd' /\ ThreadEnds' /\ Masks'
  BY <1>1 DEF TimedInv, PostedEnd, ThreadEnds, Masks
<1>4. DisplayIsTimed'
  BY <1>1, <1>2 DEF TimedInv, DisplayIsTimed
<1> QED BY <1>3, <1>4 DEF TimedInv

\* The thread takes over what the message shows.
LEMMA TakeKeepsTimed ==
    ASSUME NotificationInv, TimedInv, Take
    PROVE  TimedInv'
<1>1. /\ nt = Rest /\ queue # <<>> /\ queue' = Tail(queue)
      /\ nt'.pc = IF queue[1].type = "save" THEN "saving" ELSE queue[1].type
      /\ nt'.items = queue[1].seq /\ nt'.reset = TRUE /\ nt'.reset_mask = {}
      /\ UNCHANGED <<layer, light, vibro, sound, timer, timerTask, app, power, storage>>
  BY TakeGives
<1>2. /\ 1 \in DOMAIN queue
      /\ \A i \in DOMAIN queue' : i + 1 \in DOMAIN queue /\ queue'[i] = queue[i + 1]
      /\ \A i \in DOMAIN queue : i # 1 => i - 1 \in DOMAIN queue' /\ queue'[i - 1] = queue[i]
  BY <1>1, QueueShrinks DEF NotificationInv, QueueTypes
<1>3. PostedEnd'
  BY <1>2 DEF TimedInv, PostedEnd
<1>4. ThreadEnds'
  <2>1. nt'.pc = "notification" => EndsItself(nt'.items)
    BY <1>1, <1>2 DEF TimedInv, PostedEnd
  <2> QED BY <1>1, <2>1 DEF ThreadEnds, EndsItself
<1>5. ~vibro /\ ~sound /\ nt.pc # "notification"
  BY <1>1, RestIsWorking DEF TimedInv, Masks
<1>6. Masks'
  BY <1>1, <1>5 DEF Masks
<1>7. DisplayIsTimed'
  <2>1. ASSUME NEW i \in DOMAIN queue, queue[i].type = "notification", Shows(queue[i].seq)
        PROVE  \/ nt'.pc = "notification" /\ Shows(nt'.items)
               \/ \E j \in DOMAIN queue' : queue'[j].type = "notification" /\ Shows(queue'[j].seq)
    <3>1. CASE i = 1
      BY <1>1, <2>1, <3>1
    <3>2. CASE i # 1
      BY <1>2, <2>1, <3>2
    <3> QED BY <3>1, <3>2
  <2> QED BY <1>1, <1>5, <2>1 DEF TimedInv, DisplayIsTimed
<1> QED BY <1>3, <1>4, <1>6, <1>7 DEF TimedInv

LEMMA NotificationItemKeepsTimed ==
    ASSUME NotificationInv, TimedInv, NotificationItem
    PROVE  TimedInv'
<1>1. ItemEffect
  BY NotificationItemEffect
<1>2. /\ nt.pc = "notification" /\ nt.items # <<>> /\ UNCHANGED <<queue, timerTask>>
      /\ nt \in Working /\ nt.items \in Seq(Message)
  BY DEF NotificationItem, NotificationInv, ThreadTypes, Working
<1>3. item = nt.items[1] /\ 1 \in DOMAIN nt.items
  BY <1>2, ItemIs
<1>4. /\ \A i \in DOMAIN nt'.items : i + 1 \in DOMAIN nt.items /\ nt'.items[i] = nt.items[i + 1]
      /\ \A i \in DOMAIN nt.items :
           i # 1 => i - 1 \in DOMAIN nt'.items /\ nt'.items[i - 1] = nt.items[i]
  BY <1>1, <1>2, QueueShrinks DEF ItemEffect
<1>5. PostedEnd'
  BY <1>2 DEF TimedInv, PostedEnd
<1>6. ThreadEnds'
  <2> SUFFICES ASSUME ~nt'.reset \/ Has(nt'.items, {"keep"})
               PROVE  ~Has(nt'.items, Lasting) /\ nt'.reset_mask \cap Lasting = {}
    BY DEF ThreadEnds
  <2>1. ~nt.reset \/ Has(nt.items, {"keep"})
    BY <1>1, <1>3, <1>4 DEF ItemEffect, Has
  <2>2. ~Has(nt.items, Lasting) /\ nt.reset_mask \cap Lasting = {}
    BY <1>2, <2>1 DEF TimedInv, ThreadEnds
  <2>3. ~Has(nt'.items, Lasting) /\ item.t \notin Lasting
    BY <1>3, <1>4, <2>2 DEF Has
  <2>4. Leds \cap Lasting = {}
    BY DEF Leds, Lasting
  <2> QED BY <1>1, <2>2, <2>3, <2>4 DEF ItemEffect
<1>7. Masks'
  BY <1>1 DEF ItemEffect, TimedInv, Masks
<1>8. DisplayIsTimed'
  <2>1. CASE item.t = "display"
    BY <1>1, <2>1 DEF ItemEffect, DisplayIsTimed
  <2>2. CASE item.t # "display"
    <3>1. Shows(nt.items) => Shows(nt'.items)
      BY <1>3, <1>4, <2>2 DEF Shows
    <3> QED BY <1>1, <1>2, <2>2, <3>1 DEF ItemEffect, TimedInv, DisplayIsTimed
  <2> QED BY <2>1, <2>2
<1> QED BY <1>5, <1>6, <1>7, <1>8 DEF TimedInv

LEMMA SendLedsKeepsTimed ==
    ASSUME NotificationInv, TimedInv, SendLeds
    PROVE  TimedInv'
<1>1. /\ nt'.pc = nt.pc /\ nt'.items = nt.items
      /\ nt'.reset = nt.reset /\ nt'.reset_mask = nt.reset_mask \cup Leds
      /\ layer'["display"].index = layer["display"].index
  BY SendLedsEffect
<1>2. UNCHANGED <<queue, vibro, sound, timer, timerTask>>
  BY DEF SendLeds
<1>3. Leds \cap Lasting = {}
  BY DEF Leds, Lasting
<1>4. PostedEnd' /\ ThreadEnds' /\ Masks'
  BY <1>1, <1>2, <1>3 DEF TimedInv, PostedEnd, ThreadEnds, Masks
<1>5. DisplayIsTimed'
  BY <1>1, <1>2 DEF TimedInv, DisplayIsTimed
<1> QED BY <1>4, <1>5 DEF TimedInv

LEMMA InternalItemKeepsTimed ==
    ASSUME NotificationInv, TimedInv, InternalItem
    PROVE  TimedInv'
<1>1. nt \in Working /\ nt.pc = "internal" /\ nt.items # <<>>
  BY DEF NotificationInv, ThreadTypes, InternalItem
<1>2. item \in Message /\ item = nt.items[1] /\ 1 \in DOMAIN nt.items
  BY <1>1, ItemIs
<1>3. item.t = "led" /\ item.of \in {"red", "green"} /\ item.on \in BOOLEAN
  BY <1>1, <1>2, MessageFields DEF NotificationInv, ChargeConsistent
<1>4. item.of \in Lights /\ "display" \in Lights
  BY <1>3 DEF Lights, Leds
<1>5. layer'["display"].index = layer["display"].index
  BY <1>3, <1>4, InternalLayer DEF NotificationInv, InternalItem
<1>6. nt'.pc = nt.pc /\ UNCHANGED <<queue, vibro, sound, timer, timerTask>>
  BY <1>1 DEF InternalItem, Went, Working
<1>7. PostedEnd' /\ ThreadEnds' /\ Masks'
  BY <1>1, <1>6 DEF TimedInv, PostedEnd, ThreadEnds, Masks
<1>8. DisplayIsTimed'
  BY <1>1, <1>5, <1>6 DEF TimedInv, DisplayIsTimed
<1> QED BY <1>7, <1>8 DEF TimedInv

\* At its end a sequence stops what it began and starts the display's timer.
LEMMA EndsKeepTimed ==
    ASSUME NotificationInv, TimedInv, EndNotification \/ EndInternal \/ EndSave
    PROVE  TimedInv'
<1>1. nt' = Rest /\ UNCHANGED <<queue, timerTask>>
  BY DEF EndNotification, EndInternal, EndSave, Complete
<1>2. nt'.pc = "idle"
  BY <1>1, RestIsWorking
<1>3. PostedEnd' /\ ThreadEnds'
  BY <1>1, <1>2 DEF TimedInv, PostedEnd, ThreadEnds
<1>4. CASE nt.pc = "notification" /\ nt.reset
  <2>1. ResetLayer /\ nt.items = <<>>
    BY <1>4 DEF EndNotification, EndInternal, EndSave
  <2>2. /\ layer'["display"].index = layer["display"].index
        /\ "vibro" \in nt.reset_mask => ~vibro'
        /\ "sound" \in nt.reset_mask => ~sound'
        /\ (vibro' => vibro) /\ (sound' => sound) /\ (timer => timer')
        /\ "display" \in nt.reset_mask => timer'
    BY <2>1, ResetLayerEffect
  <2>3. ~vibro' /\ ~sound'
    BY <2>2 DEF TimedInv, Masks
  <2>4. ~Shows(nt.items)
    BY <2>1 DEF Shows
  <2>5. Masks' /\ DisplayIsTimed'
    BY <1>1, <2>2, <2>3, <2>4 DEF TimedInv, Masks, DisplayIsTimed
  <2> QED BY <1>3, <2>5 DEF TimedInv
<1>5. CASE ~(nt.pc = "notification" /\ nt.reset)
  <2>1. /\ UNCHANGED <<layer, vibro, sound, timer>>
        /\ nt.pc = "notification" => nt.items = <<>>
    BY <1>5 DEF EndNotification, EndInternal, EndSave, outputs
  <2>2. nt.pc = "notification" => nt.reset_mask \cap Lasting = {} /\ ~Shows(nt.items)
    BY <1>5, <2>1 DEF TimedInv, ThreadEnds, Shows
  <2>3. ~vibro /\ ~sound
    BY <2>2 DEF TimedInv, Masks, Lasting
  <2>4. ~(nt.pc = "notification" /\ ("display" \in nt.reset_mask \/ Shows(nt.items)))
    BY <2>2 DEF Lasting
  <2>5. Masks' /\ DisplayIsTimed'
    BY <1>1, <2>1, <2>3, <2>4 DEF TimedInv, Masks, DisplayIsTimed
  <2> QED BY <1>3, <2>5 DEF TimedInv
<1> QED BY <1>4, <1>5

LEMMA TimedInit == Init => TimedInv
<1> SUFFICES ASSUME Init PROVE TimedInv
  OBVIOUS
<1> DEFINE m == [type |-> "notification", seq |-> display_on, back |-> FALSE]
<1>1. m.seq = display_on /\ queue = <<m>>
  BY DEF Init
<1> HIDE DEF m
<1>2. DOMAIN queue = {1} /\ queue[1] = m
  BY <1>1
<1>3. PostedEnd
  BY <1>1, <1>2, SequencesEnd DEF PostedEnd
<1>4. nt.pc = "idle" /\ vibro = FALSE /\ sound = FALSE
  BY RestIsWorking DEF Init
<1>5. "display" \in Leds \cup {"display"}
  OBVIOUS
<1>6. layer["display"].index = "Internal"
  BY <1>5 DEF Init
<1> QED BY <1>3, <1>4, <1>6 DEF TimedInv, ThreadEnds, Masks, DisplayIsTimed

LEMMA TimedStep ==
    ASSUME AppCallsEnd
    PROVE  NotificationInv /\ TimedInv /\ [Next]_vars => TimedInv'
<1> SUFFICES ASSUME NotificationInv, TimedInv, [Next]_vars PROVE TimedInv'
  OBVIOUS
<1>1. CASE Thread
  BY <1>1, TakeKeepsTimed, InternalItemKeepsTimed, NotificationItemKeepsTimed,
     SendLedsKeepsTimed, EndsKeepTimed DEF Thread
<1>2. CASE TimerExpires \/ CardDetected \/ UNCHANGED vars
  BY <1>2, TimerExpiresKeepsTimed
<1>3. CASE TimerPosts \/ StoragePosts \/ (Environment /\ ~CardDetected)
  BY <1>3, PostersKeepTimed DEF Environment, Charges
<1> QED BY <1>1, <1>2, <1>3 DEF Next, Environment

\* Vibration and sound end with their sequence, and a lit display always has a
\* timer, a running sequence or a posted one that ends it, for every set of
\* sequences that do not ask to be kept (notification_app.c:82-127, 177-192, 307-313).
THEOREM DisplayIsAlwaysTimed ==
    ASSUME AppCallsEnd
    PROVE  Spec => []DisplayIsTimed
<1>1. NotificationInv /\ TimedInv /\ [Next]_vars => TimedInv'
  BY TimedStep
<1>2. TimedInv => DisplayIsTimed
  BY DEF TimedInv
<1> QED BY <1>1, <1>2, TimedInit, NotificationInvariant, PTL DEF Spec

=============================================================================
