------------------------ MODULE DesktopScenesProofs ------------------------
(***************************************************************************)
(* Proofs about the desktop's scenes and its animation manager,            *)
(* DesktopScenes, for any number of waiting events, wrong PINs and visits  *)
(* of the debug scene, as long as no event overtakes another in one of the *)
(* four ways that Overtaken names.                                         *)
(***************************************************************************)
EXTENDS DesktopScenes, SequenceTheorems, WellFoundedInduction, TLAPS

(***************************************************************************)
(* Queues.                                                                 *)
(***************************************************************************)
PinEvents == {"PinInputBack", "PinInputUnlocked", "UnlockFailed"}
LockMenuEvents == {"Lock", "PinLock", "LockMenuExit"}
SceneEvents ==
    {"OpenLockMenu", "OpenDebug", "DebugExit", "FirstStartCompleted", "FaultExit",
     "ShowPinInput", "Unlocked", "PinTimeoutExit"} \cup PinEvents \cup LockMenuEvents

In(q, e) == \E i \in 1 .. Len(q) : q[i] = e
OnceIn(q, e) == \A i, j \in 1 .. Len(q) : q[i] = e /\ q[j] = e => i = j
InOrder(q, E, F) == \A i, j \in 1 .. Len(q) : q[i] \in E /\ q[j] \in F => i < j
Pairs(q) == \E i, j \in 1 .. Len(q) : i < j /\ q[i] = "PinLock" /\ q[j] \in LockMenuEvents

\* One more event.
LEMMA Posted ==
    ASSUME NEW S, NEW q \in Seq(S), NEW e \in S
    PROVE  /\ Append(q, e) \in Seq(S)
           /\ \A x : In(Append(q, e), x) <=> In(q, x) \/ x = e
           /\ \A x : OnceIn(q, x) /\ (x = e => ~In(q, x)) => OnceIn(Append(q, e), x)
           /\ \A E, F : InOrder(q, E, F) /\ (e \in E => e \notin F /\ \A x \in F : ~In(q, x))
                         => InOrder(Append(q, e), E, F)
           /\ Pairs(Append(q, e)) => Pairs(q) \/ (In(q, "PinLock") /\ e \in LockMenuEvents)
<1> DEFINE w == Append(q, e)
           n == Len(q)
<1>1. /\ w \in Seq(S) /\ n \in Nat /\ Len(w) = n + 1 /\ w[n + 1] = e
      /\ \A i \in 1 .. n : w[i] = q[i]
  OBVIOUS
<1> HIDE DEF w
<1>2. \A i \in 1 .. n + 1 : i \in 1 .. n \/ i = n + 1
  BY <1>1
<1>3. \A i \in 1 .. n : i < n + 1 /\ i \in 1 .. n + 1 /\ i # n + 1
  BY <1>1
<1>4. n + 1 \in 1 .. n + 1
  BY <1>1
<1>5. ASSUME NEW x PROVE In(w, x) <=> In(q, x) \/ x = e
  BY <1>1, <1>2, <1>3, <1>4 DEF In
<1>6. ASSUME NEW x, OnceIn(q, x), x = e => ~In(q, x) PROVE OnceIn(w, x)
  BY <1>1, <1>2, <1>6 DEF OnceIn, In
<1>7. ASSUME NEW E, NEW F, InOrder(q, E, F), e \in E => e \notin F /\ \A x \in F : ~In(q, x)
      PROVE  InOrder(w, E, F)
  BY <1>1, <1>2, <1>3, <1>7 DEF InOrder, In
<1>8. ASSUME Pairs(w) PROVE Pairs(q) \/ (In(q, "PinLock") /\ e \in LockMenuEvents)
  <2>1. PICK i \in 1 .. n + 1, j \in 1 .. n + 1 :
          i < j /\ w[i] = "PinLock" /\ w[j] \in LockMenuEvents
    BY <1>1, <1>8 DEF Pairs
  <2>2. i \in 1 .. n
    BY <2>1, <1>1
  <2>3. CASE j \in 1 .. n
    BY <1>1, <2>1, <2>2, <2>3 DEF Pairs
  <2>4. CASE j = n + 1
    BY <1>1, <2>1, <2>2, <2>4 DEF In
  <2> QED BY <1>2, <2>3, <2>4
<1> QED BY <1>1, <1>5, <1>6, <1>7, <1>8 DEF w

\* One less.
LEMMA Taken ==
    ASSUME NEW S, NEW q \in Seq(S), q # <<>>
    PROVE  /\ Tail(q) \in Seq(S) /\ Head(q) \in S /\ In(q, Head(q))
           /\ \A x : In(Tail(q), x) => In(q, x)
           /\ \A x : In(q, x) => x = Head(q) \/ In(Tail(q), x)
           /\ \A x : OnceIn(q, x) => OnceIn(Tail(q), x)
           /\ \A x : OnceIn(q, x) /\ x = Head(q) => ~In(Tail(q), x)
           /\ \A E, F : InOrder(q, E, F) => InOrder(Tail(q), E, F)
           /\ \A E, F : InOrder(q, E, F) /\ Head(q) \in F => \A x \in E : ~In(q, x)
           /\ Pairs(Tail(q)) => Pairs(q)
           /\ \A x \in LockMenuEvents : Head(q) = "PinLock" /\ In(Tail(q), x) => Pairs(q)
<1> DEFINE t == Tail(q)
           n == Len(q)
           h == Head(q)
<1>1. /\ n \in Nat /\ n >= 1 /\ Len(t) = n - 1 /\ h = q[1] /\ t \in Seq(S) /\ h \in S
      /\ \A i \in 1 .. n - 1 : t[i] = q[i + 1]
  BY HeadTailProperties
<1> HIDE DEF t, n, h
<1>2. \A i \in 1 .. n - 1 : i + 1 \in 1 .. n /\ i + 1 # 1
  BY <1>1
<1>3. \A i \in 1 .. n : i = 1 \/ (i - 1 \in 1 .. n - 1 /\ (i - 1) + 1 = i)
  BY <1>1
<1>4. 1 \in 1 .. n
  BY <1>1
<1>5. \A x : In(t, x) => In(q, x)
  BY <1>1, <1>2 DEF In, n
<1>6. \A x : In(q, x) => x = h \/ In(t, x)
  <2> SUFFICES ASSUME NEW x, NEW i \in 1 .. n, q[i] = x, x # h PROVE In(t, x)
    BY DEF In, n
  <2>1. i - 1 \in 1 .. n - 1 /\ t[i - 1] = x
    BY <1>1, <1>3
  <2> QED BY <1>1, <2>1 DEF In
<1>7. \A x : OnceIn(q, x) => OnceIn(t, x)
  <2> SUFFICES ASSUME NEW x, OnceIn(q, x), NEW i \in 1 .. n - 1, NEW j \in 1 .. n - 1,
                      t[i] = x, t[j] = x
               PROVE  i = j
    BY <1>1 DEF OnceIn
  <2>1. i + 1 = j + 1
    BY <1>1, <1>2 DEF OnceIn, n
  <2> QED BY <2>1
<1>8. \A x : OnceIn(q, x) /\ x = h => ~In(t, x)
  <2> SUFFICES ASSUME NEW x, OnceIn(q, x), x = h, NEW i \in 1 .. n - 1, t[i] = x PROVE FALSE
    BY <1>1 DEF In
  <2>1. i + 1 = 1
    BY <1>1, <1>2, <1>4 DEF OnceIn, n
  <2> QED BY <2>1, <1>2
<1>9. \A E, F : InOrder(q, E, F) => InOrder(t, E, F)
  <2> SUFFICES ASSUME NEW E, NEW F, InOrder(q, E, F), NEW i \in 1 .. n - 1, NEW j \in 1 .. n - 1,
                      t[i] \in E, t[j] \in F
               PROVE  i < j
    BY <1>1 DEF InOrder
  <2>1. i + 1 < j + 1
    BY <1>1, <1>2 DEF InOrder, n
  <2> QED BY <2>1
<1>10. \A E, F : InOrder(q, E, F) /\ h \in F => \A x \in E : ~In(q, x)
  <2> SUFFICES ASSUME NEW E, NEW F, InOrder(q, E, F), h \in F, NEW i \in 1 .. n, q[i] \in E PROVE FALSE
    BY DEF In, n
  <2>1. i < 1
    BY <1>1, <1>4 DEF InOrder, n
  <2> QED BY <2>1
<1>11. Pairs(t) => Pairs(q)
  <2> SUFFICES ASSUME NEW i \in 1 .. n - 1, NEW j \in 1 .. n - 1, i < j,
                      t[i] = "PinLock", t[j] \in LockMenuEvents
               PROVE  Pairs(q)
    BY <1>1 DEF Pairs
  <2>1. i + 1 < j + 1 /\ q[i + 1] = "PinLock" /\ q[j + 1] \in LockMenuEvents
    BY <1>1
  <2> QED BY <1>2, <2>1 DEF Pairs, n
<1>12. \A x \in LockMenuEvents : h = "PinLock" /\ In(t, x) => Pairs(q)
  <2> SUFFICES ASSUME h = "PinLock", NEW i \in 1 .. n - 1, t[i] \in LockMenuEvents PROVE Pairs(q)
    BY <1>1 DEF In
  <2>1. 1 < i + 1 /\ q[i + 1] \in LockMenuEvents /\ q[1] = "PinLock"
    BY <1>1
  <2> QED BY <1>2, <1>4, <2>1 DEF Pairs, n
<1>13. In(q, h)
  BY <1>1, <1>4 DEF In, n
<1> QED
  BY <1>1, <1>5, <1>6, <1>7, <1>8, <1>9, <1>10, <1>11, <1>12, <1>13 DEF t, h

(***************************************************************************)
(* Stacks.                                                                 *)
(***************************************************************************)
\* The scenes lie in layers: those of the unlocked desktop, the lock, what the
\* lock shows, and the scenes of the boot.
Layer(scene) ==
    CASE scene \in {"Main", "LockMenu", "Debug"} -> 0
      [] scene = "Locked"     -> 1
      [] scene = "PinInput"   -> 2
      [] scene = "PinTimeout" -> 3
      [] OTHER                -> 4

StackInLayers(stack) ==
    /\ stack # <<>> => stack[1] = "Main"
    /\ \A i, j \in 1 .. Len(stack) : i < j =>
         /\ Layer(stack[i]) <= Layer(stack[j])
         /\ Layer(stack[i]) \in 1 .. 3 => Layer(stack[i]) < Layer(stack[j])
    /\ \A j \in 1 .. Len(stack) : stack[j] \in {"PinInput", "PinTimeout"} =>
         \E i \in 1 .. j - 1 : stack[i] = "Locked"

Top(stack) == stack[Len(stack)]

LEMMA LayerValues ==
    /\ \A x \in Scenes : Layer(x) \in 0 .. 4
    /\ \A x \in Scenes : Layer(x) = 0 <=> x \in {"Main", "LockMenu", "Debug"}
    /\ \A x \in Scenes : Layer(x) = 1 <=> x = "Locked"
    /\ \A x \in Scenes : Layer(x) = 2 <=> x = "PinInput"
    /\ \A x \in Scenes : Layer(x) = 3 <=> x = "PinTimeout"
    /\ \A x \in Scenes : Layer(x) = 4 <=> x \in BootScenes
BY DEF Layer, Scenes, BootScenes

\* A scene on top.
LEMMA Pushed ==
    ASSUME NEW st \in Seq(Scenes), st # <<>>, StackInLayers(st), NEW s \in Scenes,
           Layer(Top(st)) <= Layer(s), Layer(Top(st)) \in 1 .. 3 => Layer(Top(st)) < Layer(s),
           s \in {"PinInput", "PinTimeout"} => In(st, "Locked")
    PROVE  /\ Append(st, s) \in Seq(Scenes) /\ StackInLayers(Append(st, s))
           /\ Append(st, s) # <<>> /\ Top(Append(st, s)) = s
           /\ \A x : In(Append(st, s), x) <=> In(st, x) \/ x = s
<1> DEFINE w == Append(st, s)
           n == Len(st)
<1>1. /\ w \in Seq(Scenes) /\ n \in Nat /\ n >= 1 /\ Len(w) = n + 1 /\ w[n + 1] = s
      /\ w # <<>> /\ \A i \in 1 .. n : w[i] = st[i] /\ st[i] \in Scenes
  BY EmptySeq, ElementOfSeq
<1>2. \A x : In(w, x) <=> In(st, x) \/ x = s
  BY Posted
<1> HIDE DEF w
<1>3. ASSUME NEW i \in 1 .. n + 1, NEW j \in 1 .. n + 1, i < j
      PROVE  /\ Layer(w[i]) <= Layer(w[j])
             /\ Layer(w[i]) \in 1 .. 3 => Layer(w[i]) < Layer(w[j])
  <2>0. i \in 1 .. n /\ w[i] = st[i] /\ st[i] \in Scenes /\ n \in 1 .. n /\ st[n] \in Scenes
    BY <1>1, <1>3
  <2>1. CASE j \in 1 .. n
    BY <1>1, <1>3, <2>0, <2>1 DEF StackInLayers
  <2>2. CASE j = n + 1
    <3>1. w[j] = s /\ Layer(s) \in Int /\ Layer(st[i]) \in Int /\ Layer(st[n]) \in Int
      BY <1>1, <2>0, <2>2, LayerValues
    <3>2. i = n \/ i < n
      BY <1>1, <2>0
    <3>3. i < n => /\ Layer(st[i]) <= Layer(st[n])
                   /\ Layer(st[i]) \in 1 .. 3 => Layer(st[i]) < Layer(st[n])
      BY <1>1, <2>0 DEF StackInLayers
    <3> QED BY <2>0, <3>1, <3>2, <3>3 DEF Top
  <2> QED BY <1>1, <2>1, <2>2
<1>4. ASSUME NEW j \in 1 .. n + 1, w[j] \in {"PinInput", "PinTimeout"}
      PROVE  \E i \in 1 .. j - 1 : w[i] = "Locked"
  <2>1. CASE j \in 1 .. n
    <3>1. PICK i \in 1 .. j - 1 : st[i] = "Locked"
      BY <1>1, <1>4, <2>1 DEF StackInLayers
    <3>2. i \in 1 .. n
      BY <1>1, <2>1
    <3> QED BY <1>1, <3>1, <3>2
  <2>2. CASE j = n + 1
    <3>1. PICK i \in 1 .. n : st[i] = "Locked"
      BY <1>1, <1>4, <2>2 DEF In
    <3>2. i \in 1 .. j - 1
      BY <1>1, <2>2
    <3> QED BY <1>1, <3>1, <3>2
  <2> QED BY <1>1, <2>1, <2>2
<1>5. w[1] = "Main"
  BY <1>1 DEF StackInLayers
<1>6. StackInLayers(w)
  BY <1>1, <1>3, <1>4, <1>5 DEF StackInLayers
<1> QED BY <1>1, <1>2, <1>6 DEF w, Top

\* A part of the stack from below.
LEMMA Popped ==
    ASSUME NEW st \in Seq(Scenes), StackInLayers(st), NEW n \in 1 .. Len(st)
    PROVE  /\ SubSeq(st, 1, n) \in Seq(Scenes) /\ StackInLayers(SubSeq(st, 1, n))
           /\ SubSeq(st, 1, n) # <<>> /\ Top(SubSeq(st, 1, n)) = st[n]
           /\ \A x : In(SubSeq(st, 1, n), x) => In(st, x)
           /\ \A x : In(st, x) => In(SubSeq(st, 1, n), x) \/ \E i \in n + 1 .. Len(st) : st[i] = x
<1> DEFINE w == SubSeq(st, 1, n)
           m == Len(st)
<1>0. n \in Nat /\ m \in Nat /\ 1 <= n /\ n <= m /\ \A i \in 1 .. n : st[i] \in Scenes
  <2>1. \A i \in 1 .. m : st[i] \in Scenes
    BY ElementOfSeq
  <2>2. n \in Nat /\ m \in Nat /\ 1 <= n /\ n <= m
    OBVIOUS
  <2> QED BY <2>1, <2>2
<1>1. w \in Seq(Scenes) /\ Len(w) = n /\ \A i \in 1 .. n : w[i] = st[i]
  BY <1>0, SubSeqProperties
<1> HIDE DEF w, m
<1>2. \A i \in 1 .. n : i \in 1 .. m
  BY <1>0
<1>3. w[1] = "Main" /\ n \in 1 .. n
  <2>1. 1 \in 1 .. n /\ st # <<>>
    BY <1>0, EmptySeq DEF m
  <2> QED BY <1>0, <1>1, <2>1 DEF StackInLayers
<1>4. StackInLayers(w)
  <2>1. ASSUME NEW i \in 1 .. n, NEW j \in 1 .. n, i < j
        PROVE  /\ Layer(w[i]) <= Layer(w[j])
               /\ Layer(w[i]) \in 1 .. 3 => Layer(w[i]) < Layer(w[j])
    BY <1>1, <1>2, <2>1 DEF StackInLayers, m
  <2>2. ASSUME NEW j \in 1 .. n, w[j] \in {"PinInput", "PinTimeout"}
        PROVE  \E i \in 1 .. j - 1 : w[i] = "Locked"
    <3>1. PICK i \in 1 .. j - 1 : st[i] = "Locked"
      BY <1>1, <1>2, <2>2 DEF StackInLayers, m
    <3>2. i \in 1 .. n
      BY <1>0
    <3> QED BY <1>1, <3>1, <3>2
  <2> QED BY <1>1, <1>3, <2>1, <2>2 DEF StackInLayers
<1>5. \A x : In(w, x) => In(st, x)
  BY <1>1, <1>2 DEF In, m
<1>6. \A x : In(st, x) => In(w, x) \/ \E i \in n + 1 .. m : st[i] = x
  <2> SUFFICES ASSUME NEW i \in 1 .. m PROVE i \in 1 .. n \/ i \in n + 1 .. m
    BY <1>1 DEF In, m
  <2> QED BY <1>0
<1>7. w # <<>>
  BY <1>0, <1>1
<1> QED BY <1>1, <1>3, <1>4, <1>5, <1>6, <1>7 DEF w, Top, m

\* What the scene on top says of those below.
LEMMA TopSays ==
    ASSUME NEW st \in Seq(Scenes), st # <<>>, StackInLayers(st)
    PROVE  /\ Top(st) \in Scenes /\ In(st, Top(st)) /\ In(st, "Main")
           /\ Len(st) \in Nat /\ Len(st) >= 1
           /\ Top(st) # "Main" => Len(st) >= 2
           /\ Top(st) \in {"Main", "LockMenu", "Debug"} =>
                ~In(st, "Locked") /\ ~In(st, "PinInput") /\ ~In(st, "PinTimeout")
           /\ Top(st) = "Locked" => ~In(st, "PinInput") /\ ~In(st, "PinTimeout")
           /\ Top(st) = "PinInput" => ~In(st, "PinTimeout")
           /\ Top(st) \in {"PinInput", "PinTimeout"} => In(st, "Locked")
           /\ \A i \in 1 .. Len(st) - 1 : st[i] \in Scenes /\ Layer(st[i]) <= Layer(Top(st))
                /\ (Layer(Top(st)) \in 1 .. 3 => Layer(st[i]) < Layer(Top(st)))
<1> DEFINE n == Len(st)
<1>1. n \in Nat /\ n >= 1 /\ n \in 1 .. n /\ 1 \in 1 .. n /\ \A i \in 1 .. n : st[i] \in Scenes
  BY EmptySeq, ElementOfSeq
<1>2. st[1] = "Main"
  BY DEF StackInLayers
<1>3. Top(st) = st[n] /\ Top(st) \in Scenes
  BY <1>1 DEF Top
<1>4. \A x : In(st, x) => x \in Scenes /\ Layer(x) <= Layer(Top(st))
  <2> SUFFICES ASSUME NEW i \in 1 .. n PROVE st[i] \in Scenes /\ Layer(st[i]) <= Layer(st[n])
    BY <1>3 DEF In
  <2>1. i = n \/ i < n
    BY <1>1
  <2>2. i < n => Layer(st[i]) <= Layer(st[n])
    BY <1>1 DEF StackInLayers
  <2>3. Layer(st[n]) \in Int
    BY <1>1, LayerValues
  <2> QED BY <1>1, <2>1, <2>2, <2>3
<1>5. Layer("Locked") = 1 /\ Layer("PinInput") = 2 /\ Layer("PinTimeout") = 3
  BY DEF Layer
<1>6. Top(st) \in {"PinInput", "PinTimeout"} => In(st, "Locked")
  <2> SUFFICES ASSUME st[n] \in {"PinInput", "PinTimeout"} PROVE In(st, "Locked")
    BY <1>3
  <2>1. PICK i \in 1 .. n - 1 : st[i] = "Locked"
    BY <1>1 DEF StackInLayers
  <2>2. i \in 1 .. n
    BY <1>1
  <2> QED BY <2>1, <2>2 DEF In
<1>7. Top(st) # "Main" => n >= 2
  <2>1. n = 1 => Top(st) = "Main"
    BY <1>2, <1>3
  <2>2. n = 1 \/ n >= 2
    BY <1>1
  <2> HIDE DEF n
  <2> QED BY <2>1, <2>2
<1>8. ASSUME NEW i \in 1 .. n - 1
      PROVE  /\ st[i] \in Scenes /\ Layer(st[i]) <= Layer(Top(st))
             /\ Layer(Top(st)) \in 1 .. 3 => Layer(st[i]) < Layer(Top(st))
  <2>1. i \in 1 .. n /\ i < n
    BY <1>1
  <2>2. /\ Layer(st[i]) <= Layer(st[n])
        /\ Layer(st[i]) \in 1 .. 3 => Layer(st[i]) < Layer(st[n])
    BY <1>1, <2>1 DEF StackInLayers
  <2>3. Layer(st[i]) \in 0 .. 4 /\ Layer(st[n]) \in 0 .. 4 /\ st[i] \in Scenes
    BY <1>1, <2>1, LayerValues
  <2> QED BY <1>3, <2>2, <2>3
<1>9. /\ Top(st) \in {"Main", "LockMenu", "Debug"} => Layer(Top(st)) = 0
      /\ Top(st) = "Locked" => Layer(Top(st)) = 1
      /\ Top(st) = "PinInput" => Layer(Top(st)) = 2
  BY <1>3, LayerValues
<1>10. In(st, Top(st)) /\ In(st, "Main")
  BY <1>1, <1>2, <1>3 DEF In
<1> HIDE DEF n
<1>11. /\ Top(st) \in {"Main", "LockMenu", "Debug"} =>
                ~In(st, "Locked") /\ ~In(st, "PinInput") /\ ~In(st, "PinTimeout")
       /\ Top(st) = "Locked" => ~In(st, "PinInput") /\ ~In(st, "PinTimeout")
       /\ Top(st) = "PinInput" => ~In(st, "PinTimeout")
  BY <1>4, <1>5, <1>9
<1> QED BY <1>1, <1>3, <1>6, <1>7, <1>8, <1>10, <1>11 DEF n

(***************************************************************************)
(* Moves of the scene manager.                                             *)
(***************************************************************************)
\* struct Desktop with what the scenes set elsewhere.
DesktopStruct ==
    [stack : Seq(Scenes), subscribed : BOOLEAN, new_idle_callback : BOOLEAN,
     allocated : SUBSET Scenes, lock_menu_state : {0, 1},
     locked_state : {"FIRST_ENTER", "REPEAT_ENTER"}, locked : BOOLEAN, pin_locked : BOOLEAN,
     lockdown : BOOLEAN, usb : BOOLEAN, pin_timer : BOOLEAN, rtc_lock : BOOLEAN,
     stored_pin : BOOLEAN, settings_pin : BOOLEAN, pin_fails : Nat]

Cur(d) == Top(d.stack)
StateScenes == {"PinInput", "HwMismatch"}

\* What a move between scenes keeps.
Kept(d, r) ==
    /\ r.locked_state = d.locked_state /\ r.locked = d.locked /\ r.pin_locked = d.pin_locked
    /\ r.lockdown = d.lockdown /\ r.usb = d.usb /\ r.rtc_lock = d.rtc_lock
    /\ r.stored_pin = d.stored_pin /\ r.pin_fails = d.pin_fails

\* The scene old of d is left, and its stack is st.
Left(d, r, old, st) ==
    /\ r \in DesktopStruct /\ r.stack = st /\ Kept(d, r)
    /\ r.subscribed = FALSE /\ r.allocated = {}
    /\ r.new_idle_callback => d.new_idle_callback /\ old # "Main"
    /\ r.pin_timer = d.pin_timer /\ r.settings_pin = d.settings_pin

\* d has moved to r, with st as its stack.
Moved(d, r, st) ==
    /\ r \in DesktopStruct /\ r.stack = st /\ Kept(d, r)
    /\ r.subscribed <=> Top(st) = "Main"
    /\ r.allocated = StateScenes \cap {Top(st)}
    /\ r.new_idle_callback => \/ Top(st) \in {"Main", "Locked"}
                              \/ d.new_idle_callback /\ Cur(d) # "Main"
    /\ IF Top(st) = "PinTimeout" THEN r.pin_timer ELSE r.pin_timer = d.pin_timer
    /\ r.settings_pin = IF Top(st) = "LockMenu" THEN d.stored_pin ELSE d.settings_pin

\* The scene on top is the one that is entered.
Turn(d) ==
    /\ d \in DesktopStruct /\ d.stack # <<>> /\ Cur(d) \in Scenes
    /\ d.subscribed <=> Cur(d) = "Main"
    /\ d.allocated = StateScenes \cap {Cur(d)}

LEMMA Leave ==
    ASSUME NEW d, Turn(d), NEW st \in Seq(Scenes)
    PROVE  /\ Left(d, OnExit([d EXCEPT !.stack = st], Cur(d)), Cur(d), st)
           /\ OnExit(d, Cur(d)) \in DesktopStruct
           /\ OnExit(d, Cur(d)).stack = d.stack
           /\ Left(d, [OnExit(d, Cur(d)) EXCEPT !.stack = st], Cur(d), st)
<1> DEFINE o == Cur(d)
           e == [d EXCEPT !.stack = st]
<1>0. d \in DesktopStruct /\ o \in Scenes /\ (d.subscribed <=> o = "Main")
      /\ d.allocated = StateScenes \cap {o}
  BY DEF Turn
<1> HIDE DEF o
<1>1. CASE o = "Main"
  <2>1. d.allocated = {}
    BY <1>0, <1>1 DEF StateScenes
  <2> QED
    BY <1>0, <1>1, <2>1 DEF OnExit, desktop_scene_main_on_exit, Left, Kept, DesktopStruct, o
<1>2. CASE o \in StateScenes
  <2>1. d.subscribed = FALSE /\ d.allocated \ {o} = {}
    BY <1>0, <1>2 DEF StateScenes, DesktopStruct
  <2>2. OnExit(d, o) = [d EXCEPT !.allocated = {}] /\ OnExit(e, o) = [e EXCEPT !.allocated = {}]
        /\ o # "Main"
    BY <1>0, <1>2, <2>1 DEF OnExit, StateScenes, DesktopStruct
  <2> QED BY <1>0, <2>1, <2>2 DEF Left, Kept, DesktopStruct, o
<1>3. CASE o # "Main" /\ o \notin StateScenes
  <2>1. d.subscribed = FALSE /\ d.allocated = {}
    BY <1>0, <1>3 DEF StateScenes, DesktopStruct
  <2>2. OnExit(d, o) = d /\ OnExit(e, o) = e
    BY <1>3 DEF OnExit, StateScenes
  <2> QED BY <1>0, <1>3, <2>1, <2>2 DEF Left, Kept, DesktopStruct, o
<1> QED BY <1>1, <1>2, <1>3

LEMMA Arrive ==
    ASSUME NEW d, NEW r, NEW st \in Seq(Scenes), st # <<>>, d \in DesktopStruct,
           Left(d, r, Cur(d), st), NEW s \in Scenes, s = Top(st)
    PROVE  /\ s # "Locked" => Moved(d, EnterPlain(r, s), st)
           /\ s = "Locked" /\ d.locked_state = "REPEAT_ENTER" =>
                Moved(d, desktop_scene_locked_on_enter(r), st)
<1>0. /\ r \in DesktopStruct /\ r.stack = st /\ Kept(d, r)
      /\ r.subscribed = FALSE /\ r.allocated = {}
      /\ r.new_idle_callback => d.new_idle_callback /\ Cur(d) # "Main"
      /\ r.pin_timer = d.pin_timer /\ r.settings_pin = d.settings_pin
  BY DEF Left
<1> DEFINE Entered(x) ==
      /\ x \in DesktopStruct /\ x.stack = r.stack /\ Kept(r, x)
      /\ x.subscribed = (s = "Main") /\ x.allocated = StateScenes \cap {s}
      /\ x.new_idle_callback => s \in {"Main", "Locked"} \/ r.new_idle_callback
      /\ IF s = "PinTimeout" THEN x.pin_timer ELSE x.pin_timer = r.pin_timer
      /\ x.settings_pin = IF s = "LockMenu" THEN r.stored_pin ELSE r.settings_pin
<1>a. ASSUME NEW x, Entered(x) PROVE Moved(d, x, st)
  BY <1>0, <1>a DEF Moved, Kept
<1>1. CASE s \in StateScenes
  <2>1. EnterPlain(r, s) = [r EXCEPT !.allocated = {s}]
    BY <1>0, <1>1 DEF EnterPlain, StateScenes, DesktopStruct
  <2> HIDE DEF EnterPlain
  <2>2. StateScenes \cap {s} = {s} /\ s \notin {"Main", "Locked", "PinTimeout", "LockMenu"}
    BY <1>1 DEF StateScenes
  <2>3. Entered([r EXCEPT !.allocated = {s}])
    BY <1>0, <2>2 DEF Kept, DesktopStruct
  <2> QED BY <1>a, <2>1, <2>2, <2>3
<1>2. CASE s = "Main"
  <2>1. StateScenes \cap {s} = {}
    BY <1>2 DEF StateScenes
  <2>2. EnterPlain(r, s) = [r EXCEPT !.subscribed = TRUE, !.new_idle_callback = TRUE]
    BY <1>2 DEF EnterPlain, desktop_scene_main_on_enter
  <2>3. Entered([r EXCEPT !.subscribed = TRUE, !.new_idle_callback = TRUE])
    BY <1>0, <1>2, <2>1 DEF Kept, DesktopStruct
  <2> QED BY <1>2, <1>a, <2>2, <2>3
<1>3. CASE s = "LockMenu"
  <2>1. StateScenes \cap {s} = {}
    BY <1>3 DEF StateScenes
  <2>2. EnterPlain(r, s) = [r EXCEPT !.settings_pin = r.stored_pin, !.lock_menu_state = 0]
    BY <1>3 DEF EnterPlain, desktop_scene_lock_menu_on_enter
  <2>3. Entered([r EXCEPT !.settings_pin = r.stored_pin, !.lock_menu_state = 0])
    BY <1>0, <1>3, <2>1 DEF Kept, DesktopStruct
  <2> QED BY <1>3, <1>a, <2>2, <2>3
<1>4. CASE s = "PinTimeout"
  <2>1. StateScenes \cap {s} = {}
    BY <1>4 DEF StateScenes
  <2>2. EnterPlain(r, s) = [r EXCEPT !.pin_timer = TRUE]
    BY <1>4 DEF EnterPlain, desktop_scene_pin_timeout_on_enter
  <2>3. Entered([r EXCEPT !.pin_timer = TRUE])
    BY <1>0, <1>4, <2>1 DEF Kept, DesktopStruct
  <2> QED BY <1>4, <1>a, <2>2, <2>3
<1>5. CASE s \notin StateScenes \cup {"Main", "LockMenu", "PinTimeout", "Locked"}
  <2>1. StateScenes \cap {s} = {}
    BY <1>5 DEF StateScenes
  <2>2. EnterPlain(r, s) = r
    BY <1>5 DEF EnterPlain, StateScenes
  <2> QED BY <1>0, <1>5, <2>1, <2>2 DEF Moved, Kept, DesktopStruct
<1>6. CASE s = "Locked" /\ d.locked_state = "REPEAT_ENTER"
  <2>1. StateScenes \cap {s} = {}
    BY <1>6 DEF StateScenes
  <2>2. desktop_scene_locked_on_enter(r) = [r EXCEPT !.new_idle_callback = TRUE]
    BY <1>0, <1>6 DEF desktop_scene_locked_on_enter, Kept
  <2>3. Entered([r EXCEPT !.new_idle_callback = TRUE])
    BY <1>0, <1>6, <2>1 DEF Kept, DesktopStruct
  <2> QED BY <1>6, <1>a, <2>2, <2>3
<1> QED BY <1>1, <1>2, <1>3, <1>4, <1>5, <1>6 DEF StateScenes


\* One scene more.
LEMMA NextMoved ==
    ASSUME NEW d, Turn(d), NEW s \in Scenes, s # "Locked"
    PROVE  Moved(d, NextScene(d, s), Append(d.stack, s))
<1> DEFINE st == Append(d.stack, s)
           x == OnExit(d, Cur(d))
<1>1. d \in DesktopStruct /\ d.stack \in Seq(Scenes) /\ d.stack # <<>>
  BY DEF Turn, DesktopStruct
<1>2. st \in Seq(Scenes) /\ st # <<>> /\ Top(st) = s
  BY <1>1 DEF Top
<1>3. x \in DesktopStruct /\ x.stack = d.stack /\ Left(d, [x EXCEPT !.stack = st], Cur(d), st)
  BY <1>2, Leave
<1>4. NextScene(d, s) = OnEnter([x EXCEPT !.stack = Append(@, s)], s)
  BY <1>1 DEF NextScene, SM!scene_manager_next_scene, SM!CurrentScene, SM!Last, Cur, Top
<1> HIDE DEF x
<1>5. [x EXCEPT !.stack = Append(@, s)] = [x EXCEPT !.stack = st]
  BY <1>3 DEF DesktopStruct
<1>6. NextScene(d, s) = EnterPlain([x EXCEPT !.stack = st], s)
  BY <1>4, <1>5 DEF OnEnter
<1> HIDE DEF st
<1> QED BY <1>1, <1>2, <1>3, <1>6, Arrive DEF st

\* The scene on top is left.
LEMMA BackMoved ==
    ASSUME NEW d, Turn(d), StackInLayers(d.stack), Cur(d) # "Main",
           d.stack[Len(d.stack) - 1] = "Locked" => d.locked_state = "REPEAT_ENTER"
    PROVE  Moved(d, PreviousScene(d), SubSeq(d.stack, 1, Len(d.stack) - 1))
<1> DEFINE n == Len(d.stack) - 1
           st == SubSeq(d.stack, 1, n)
           x == OnExit([d EXCEPT !.stack = st], Cur(d))
<1>1. d \in DesktopStruct /\ d.stack \in Seq(Scenes) /\ d.stack # <<>>
  BY DEF Turn, DesktopStruct
<1>2. Len(d.stack) \in Nat /\ Len(d.stack) >= 2
  BY <1>1, TopSays DEF Cur
<1>3. n \in 1 .. Len(d.stack)
  BY <1>2
<1> HIDE DEF n
<1>4. st \in Seq(Scenes) /\ st # <<>> /\ Top(st) = d.stack[n] /\ Top(st) \in Scenes
  BY <1>1, <1>3, Popped, ElementOfSeq
<1>5. [d EXCEPT !.stack = SM!Front(@)] = [d EXCEPT !.stack = st]
  BY <1>1 DEF SM!Front, n, DesktopStruct
<1>6. Left(d, x, Cur(d), st)
  BY <1>4, Leave
<1>7. x.stack = st /\ x \in DesktopStruct
  BY <1>6 DEF Left
<1>8. PreviousScene(d) = OnEnter(x, Top(st))
  <2>1. SM!CurrentScene(d) = Cur(d)
    BY DEF SM!CurrentScene, SM!Last, Cur, Top
  <2>2. SM!CurrentScene(x) = Top(st)
    BY <1>7 DEF SM!CurrentScene, SM!Last, Top
  <2>3. PreviousScene(d) = IF x.stack = <<>> THEN x ELSE OnEnter(x, SM!CurrentScene(x))
    BY <1>5, <2>1 DEF PreviousScene, SM!scene_manager_previous_scene
  <2> QED BY <1>4, <1>7, <2>2, <2>3
<1> HIDE DEF x, st
<1>9. CASE Top(st) = "Locked"
  <2>1. d.locked_state = "REPEAT_ENTER"
    BY <1>4, <1>9 DEF n
  <2>2. PreviousScene(d) = desktop_scene_locked_on_enter(x)
    BY <1>8, <1>9 DEF OnEnter
  <2>3. Moved(d, PreviousScene(d), st)
    BY <1>1, <1>4, <1>6, <1>9, <2>1, <2>2, Arrive
  <2> QED BY <2>3 DEF st, n
<1>10. CASE Top(st) # "Locked"
  <2>1. PreviousScene(d) = EnterPlain(x, Top(st))
    BY <1>8, <1>10 DEF OnEnter
  <2>2. Moved(d, PreviousScene(d), st)
    BY <1>1, <1>4, <1>6, <1>10, <2>1, Arrive
  <2> QED BY <2>2 DEF st, n
<1> QED BY <1>9, <1>10

\* There is a last one.
LEMMA LastOf ==
    ASSUME NEW n \in Nat, NEW S \in SUBSET (1 .. n), S # {}
    PROVE  /\ SM!Max(S) \in S /\ \A j \in S : j <= SM!Max(S)
<1> DEFINE T == {n - i : i \in S}
<1>1. T \subseteq Nat /\ T # {}
  <2>1. \A i \in S : n - i \in Nat
    <3>1. \A i \in S : i \in Int /\ 1 <= i /\ i <= n
      OBVIOUS
    <3> QED BY <3>1
  <2> QED BY <2>1
<1>2. PICK x \in T : \A y \in T : ~(<<y, x>> \in OpToRel(<, Nat))
  BY <1>1, NatLessThanWellFounded, WFMin
<1>3. \A y \in T : ~(y < x)
  BY <1>1, <1>2 DEF OpToRel
<1>4. PICK i \in S : x = n - i
  OBVIOUS
<1>5. \A j \in S : j \in Int
  OBVIOUS
<1>6. ASSUME NEW j \in S PROVE i >= j
  <2>1. n - j \in T
    OBVIOUS
  <2>2. ~(n - j < n - i)
    BY <2>1, <1>3, <1>4
  <2> QED BY <2>2
<1>7. SM!Max(S) \in S /\ \A j \in S : SM!Max(S) >= j
  BY <1>6 DEF SM!Max
<1> QED BY <1>5, <1>7

\* Back to the last one of a name.
LEMMA SearchMoved ==
    ASSUME NEW d, Turn(d), StackInLayers(d.stack), NEW s \in {"Main", "Locked"},
           Cur(d) # s, In(d.stack, s), s = "Locked" => d.locked_state = "REPEAT_ENTER"
    PROVE  \E n \in 1 .. Len(d.stack) - 1 :
             d.stack[n] = s /\ Moved(d, SearchScene(d, s), SubSeq(d.stack, 1, n))
<1> DEFINE found == {i \in 1 .. Len(d.stack) - 1 : d.stack[i] = s}
           n == SM!Max(found)
           st == SubSeq(d.stack, 1, n)
           x == OnExit([d EXCEPT !.stack = st], Cur(d))
<1>1. d \in DesktopStruct /\ d.stack \in Seq(Scenes) /\ d.stack # <<>>
  BY DEF Turn, DesktopStruct
<1>2. Len(d.stack) \in Nat /\ Len(d.stack) >= 1 /\ Len(d.stack) - 1 \in Nat
  BY <1>1, TopSays
<1>3. found # {}
  <2>1. PICK i \in 1 .. Len(d.stack) : d.stack[i] = s
    BY DEF In
  <2>2. i # Len(d.stack)
    BY <2>1 DEF Cur, Top
  <2>3. i \in 1 .. Len(d.stack) - 1
    BY <1>2, <2>2
  <2> QED BY <2>1, <2>3
<1>4. n \in found
  BY <1>2, <1>3, LastOf
<1> HIDE DEF n
<1>5. n \in 1 .. Len(d.stack) - 1 /\ d.stack[n] = s
  BY <1>4
<1>6. n \in 1 .. Len(d.stack)
  BY <1>2, <1>5
<1>7. st \in Seq(Scenes) /\ st # <<>> /\ Top(st) = s /\ s \in Scenes
  BY <1>1, <1>5, <1>6, Popped DEF Scenes
<1>8. Left(d, x, Cur(d), st)
  BY <1>7, Leave
<1>9. SearchScene(d, s) = OnEnter(x, s)
  <2>1. SM!CurrentScene(d) = Cur(d)
    BY DEF SM!CurrentScene, SM!Last, Cur, Top
  <2>2. [d EXCEPT !.stack = SubSeq(@, 1, n)] = [d EXCEPT !.stack = st]
    BY <1>1 DEF DesktopStruct
  <2> QED
    BY <1>3, <2>1, <2>2
    DEF SearchScene, SM!scene_manager_search_and_switch_to_previous_scene, n
<1> HIDE DEF x, st, found
<1>10. Moved(d, SearchScene(d, s), st)
  <2>1. CASE s = "Locked"
    BY <1>1, <1>7, <1>8, <1>9, <2>1, Arrive DEF OnEnter
  <2>2. CASE s = "Main"
    BY <1>1, <1>7, <1>8, <1>9, <2>2, Arrive DEF OnEnter
  <2> QED BY <2>1, <2>2
<1> QED BY <1>5, <1>10 DEF st


\* d is locked: r shows the lock, or already the timeout.
Locks(d, r) ==
    LET st == Append(d.stack, "Locked")
    IN  /\ r \in DesktopStruct /\ r.subscribed = FALSE /\ r.allocated = {}
        /\ r.locked /\ r.lockdown /\ r.locked_state = "REPEAT_ENTER"
        /\ r.usb = (d.usb /\ ~d.rtc_lock) /\ r.pin_locked = d.rtc_lock
        /\ r.rtc_lock = d.rtc_lock /\ r.stored_pin = d.stored_pin
        /\ \/ r.stack = st /\ r.pin_timer = d.pin_timer
           \/ d.rtc_lock /\ r.stack = Append(st, "PinTimeout") /\ r.pin_timer

LEMMA LockMoved ==
    ASSUME NEW d, Turn(d), d.locked_state = "FIRST_ENTER"
    PROVE  Locks(d, NextScene(d, "Locked"))
<1> DEFINE st == Append(d.stack, "Locked")
           x == OnExit(d, Cur(d))
           y == [x EXCEPT !.stack = st]
           called == [y EXCEPT !.new_idle_callback = TRUE]
           held == [desktop_helpers_lock_system(called, y.rtc_lock)
                    EXCEPT !.locked = TRUE, !.pin_locked = y.rtc_lock,
                           !.settings_pin = IF y.rtc_lock THEN y.stored_pin ELSE @,
                           !.locked_state = "REPEAT_ENTER"]
           r == NextScene(d, "Locked")
<1>1. d \in DesktopStruct /\ d.stack \in Seq(Scenes) /\ d.stack # <<>>
  BY DEF Turn, DesktopStruct
<1>2. st \in Seq(Scenes) /\ st # <<>> /\ Top(st) = "Locked"
  BY <1>1 DEF Top, Scenes
<1>3. x \in DesktopStruct /\ x.stack = d.stack /\ Left(d, y, Cur(d), st)
  BY <1>2, Leave
<1>4. r = OnEnter([x EXCEPT !.stack = Append(@, "Locked")], "Locked")
  BY <1>1 DEF NextScene, SM!scene_manager_next_scene, SM!CurrentScene, SM!Last, Cur, Top
<1> HIDE DEF x
<1>5. [x EXCEPT !.stack = Append(@, "Locked")] = y
  BY <1>3 DEF DesktopStruct
<1>6. r = desktop_scene_locked_on_enter(y)
  BY <1>4, <1>5 DEF OnEnter
<1> HIDE DEF st, y, r
<1>7. /\ y \in DesktopStruct /\ y.stack = st /\ Kept(d, y)
      /\ y.subscribed = FALSE /\ y.allocated = {}
      /\ y.pin_timer = d.pin_timer /\ y.settings_pin = d.settings_pin
  BY <1>3 DEF Left
<1>8. \/ r = held
      \/ d.rtc_lock /\ r = InHandler!scene_manager_next_scene(held, "PinTimeout")
  <2>1. y.locked_state = "FIRST_ENTER" /\ y.rtc_lock = d.rtc_lock
    BY <1>7 DEF Kept
  <2> QED BY <1>6, <2>1 DEF desktop_scene_locked_on_enter
<1>9. called \in DesktopStruct /\ called.stack = st /\ Kept(d, called)
      /\ called.subscribed = FALSE /\ called.allocated = {}
      /\ called.pin_timer = d.pin_timer /\ called.settings_pin = d.settings_pin
  BY <1>7 DEF DesktopStruct, Kept
<1>10. y.rtc_lock = d.rtc_lock /\ y.stored_pin = d.stored_pin
       /\ y.rtc_lock \in BOOLEAN /\ y.stored_pin \in BOOLEAN
  BY <1>7 DEF Kept, DesktopStruct
<1> HIDE DEF called
<1> DEFINE h == desktop_helpers_lock_system(called, y.rtc_lock)
<1>11. /\ h \in DesktopStruct /\ h.stack = st /\ h.lockdown /\ h.usb = (d.usb /\ ~d.rtc_lock)
       /\ h.subscribed = FALSE /\ h.allocated = {} /\ h.pin_timer = d.pin_timer
       /\ h.rtc_lock = d.rtc_lock /\ h.stored_pin = d.stored_pin
  BY <1>9, <1>10 DEF desktop_helpers_lock_system, Kept, DesktopStruct
<1> HIDE DEF h
<1>12. /\ held \in DesktopStruct /\ held.stack = st
       /\ held.lockdown /\ held.usb = (d.usb /\ ~d.rtc_lock)
       /\ held.subscribed = FALSE /\ held.allocated = {} /\ held.pin_timer = d.pin_timer
       /\ held.rtc_lock = d.rtc_lock /\ held.stored_pin = d.stored_pin
       /\ held.locked /\ held.pin_locked = d.rtc_lock /\ held.locked_state = "REPEAT_ENTER"
  BY <1>10, <1>11 DEF DesktopStruct, h
<1> HIDE DEF held
<1>13. ASSUME r = held PROVE Locks(d, r)
  BY <1>12, <1>13 DEF Locks, st
<1>14. ASSUME d.rtc_lock, r = InHandler!scene_manager_next_scene(held, "PinTimeout")
       PROVE  Locks(d, r)
  <2> DEFINE su == Append(st, "PinTimeout")
             k == [held EXCEPT !.stack = su]
  <2>1. InHandler!CurrentScene(held) = "Locked"
    BY <1>2, <1>12 DEF InHandler!CurrentScene, InHandler!Last, Top
  <2>2. OnExit(held, "Locked") = held
    BY DEF OnExit
  <2>3. [held EXCEPT !.stack = Append(@, "PinTimeout")] = k
    BY <1>12 DEF DesktopStruct
  <2>4. r = EnterPlain(k, "PinTimeout")
    BY <1>2, <1>12, <1>14, <2>1, <2>2, <2>3 DEF InHandler!scene_manager_next_scene
  <2>5. r = [k EXCEPT !.pin_timer = TRUE]
    BY <2>4 DEF EnterPlain, desktop_scene_pin_timeout_on_enter
  <2>6. su \in Seq(Scenes)
    BY <1>2 DEF Scenes
  <2> HIDE DEF su
  <2>7. /\ r \in DesktopStruct /\ r.stack = su /\ r.pin_timer
        /\ r.lockdown /\ r.usb = (d.usb /\ ~d.rtc_lock)
        /\ r.subscribed = FALSE /\ r.allocated = {}
        /\ r.rtc_lock = d.rtc_lock /\ r.stored_pin = d.stored_pin
        /\ r.locked /\ r.pin_locked = d.rtc_lock /\ r.locked_state = "REPEAT_ENTER"
    BY <1>12, <2>5, <2>6 DEF DesktopStruct
  <2> QED BY <1>14, <2>7 DEF Locks, su, st
<1> QED BY <1>8, <1>13, <1>14 DEF r


(***************************************************************************)
(* The scenes agree with what they have set.                               *)
(***************************************************************************)
LC(d) ==
    /\ In(d.stack, "Locked") => d.locked_state = "REPEAT_ENTER"
    /\ d.lockdown <=> In(d.stack, "Locked")
    /\ d.rtc_lock <=> ~d.usb
    /\ d.rtc_lock => d.lockdown /\ d.pin_locked /\ d.stored_pin
    /\ d.locked => In(d.stack, "Locked")
    /\ In(d.stack, "PinInput") \/ In(d.stack, "PinTimeout") => d.pin_locked
    /\ d.pin_timer => In(d.stack, "PinTimeout")

Sound(d) ==
    /\ Turn(d) /\ StackInLayers(d.stack) /\ LC(d)
    /\ d.new_idle_callback /\ Cur(d) \notin {"Main", "Locked"} => In(d.stack, "Locked")

\* What a scene finds when it is entered.
Fresh(r) ==
    /\ Cur(r) = "LockMenu" => r.settings_pin = r.stored_pin
    /\ Cur(r) = "PinTimeout" => r.pin_timer

LEMMA PushSound ==
    ASSUME NEW d, Sound(d), NEW s \in Scenes, s # "Locked", Layer(Cur(d)) <= Layer(s),
           Layer(Cur(d)) \in 1 .. 3 => Layer(Cur(d)) < Layer(s),
           s \in {"PinInput", "PinTimeout"} => In(d.stack, "Locked") /\ d.pin_locked
    PROVE  /\ Sound(NextScene(d, s)) /\ Kept(d, NextScene(d, s)) /\ Fresh(NextScene(d, s))
           /\ Cur(NextScene(d, s)) = s
           /\ In(NextScene(d, s).stack, "Locked") <=> In(d.stack, "Locked")
<1> DEFINE r == NextScene(d, s)
           st == Append(d.stack, s)
<1>0. Turn(d) /\ d \in DesktopStruct /\ d.stack \in Seq(Scenes) /\ d.stack # <<>>
      /\ StackInLayers(d.stack) /\ LC(d)
  BY DEF Sound, Turn, DesktopStruct
<1>1. Moved(d, r, st)
  BY <1>0, NextMoved
<1>2. /\ StackInLayers(st) /\ st # <<>> /\ Top(st) = s
      /\ \A x : In(st, x) <=> In(d.stack, x) \/ x = s
  BY <1>0, Pushed DEF Cur
<1> HIDE DEF r, st
<1>3. r.stack = st /\ Cur(r) = s /\ Kept(d, r) /\ r \in DesktopStruct
  BY <1>1, <1>2 DEF Moved, Cur
<1>4. Fresh(r)
  BY <1>1, <1>2, <1>3 DEF Moved, Fresh, Kept
<1>5. Turn(r)
  BY <1>1, <1>2, <1>3 DEF Turn, Moved
<1>6. In(r.stack, "Locked") <=> In(d.stack, "Locked")
  BY <1>2, <1>3
<1>7. LC(r)
  <2>1. r.pin_timer => In(r.stack, "PinTimeout")
    BY <1>0, <1>1, <1>2, <1>3 DEF LC, Moved
  <2>2. In(r.stack, "PinInput") \/ In(r.stack, "PinTimeout") => r.pin_locked
    BY <1>0, <1>2, <1>3 DEF LC, Kept
  <2> QED BY <1>0, <1>3, <1>6, <2>1, <2>2 DEF LC, Kept
<1>8. r.new_idle_callback /\ Cur(r) \notin {"Main", "Locked"} => In(r.stack, "Locked")
  <2>1. In(d.stack, Cur(d))
    BY <1>0, TopSays DEF Cur
  <2> QED BY <1>1, <1>2, <1>3, <1>6, <2>1 DEF Moved, Sound
<1> QED BY <1>2, <1>3, <1>4, <1>5, <1>6, <1>7, <1>8 DEF Sound, r

LEMMA BackSound ==
    ASSUME NEW d, Sound(d), Cur(d) \notin {"Main", "Locked", "PinInput"},
           Cur(d) = "PinTimeout" => ~d.pin_timer
    PROVE  /\ Sound(PreviousScene(d)) /\ Kept(d, PreviousScene(d)) /\ Fresh(PreviousScene(d))
           /\ In(PreviousScene(d).stack, "Locked") <=> In(d.stack, "Locked")
<1> DEFINE r == PreviousScene(d)
           n == Len(d.stack) - 1
           st == SubSeq(d.stack, 1, n)
<1>0. Turn(d) /\ d \in DesktopStruct /\ d.stack \in Seq(Scenes) /\ d.stack # <<>>
      /\ StackInLayers(d.stack) /\ LC(d)
  BY DEF Sound, Turn, DesktopStruct
<1>1. Len(d.stack) \in Nat /\ Len(d.stack) >= 2
  BY <1>0, TopSays DEF Cur
<1>2. n \in 1 .. Len(d.stack) /\ n + 1 = Len(d.stack)
  BY <1>1
<1>3. d.stack[n] = "Locked" => d.locked_state = "REPEAT_ENTER"
  BY <1>0, <1>2 DEF LC, In
<1>4. Moved(d, r, st)
  BY <1>0, <1>3, BackMoved
<1> HIDE DEF r, n
<1>5. /\ StackInLayers(st) /\ st # <<>> /\ st \in Seq(Scenes)
      /\ \A x : In(st, x) => In(d.stack, x)
      /\ \A x : In(d.stack, x) => In(st, x) \/ \E i \in n + 1 .. Len(d.stack) : d.stack[i] = x
  BY <1>0, <1>2, Popped
<1>6. \A x : In(d.stack, x) => In(st, x) \/ x = Cur(d)
  <2>1. \A i \in n + 1 .. Len(d.stack) : i = Len(d.stack)
    BY <1>1, <1>2
  <2> QED BY <1>5, <2>1 DEF Cur, Top
<1>7. Top(st) \in Scenes /\ In(st, Top(st))
  BY <1>5, TopSays
<1> HIDE DEF st
<1>8. r.stack = st /\ Cur(r) = Top(st) /\ Kept(d, r) /\ r \in DesktopStruct
  BY <1>4 DEF Moved, Cur
<1>9. Fresh(r)
  BY <1>4, <1>8 DEF Moved, Fresh, Kept
<1>10. Turn(r)
  BY <1>4, <1>5, <1>7, <1>8 DEF Turn, Moved
<1>11. In(r.stack, "Locked") <=> In(d.stack, "Locked")
  BY <1>5, <1>6, <1>8
<1>12. LC(r)
  <2>1. r.pin_timer => In(r.stack, "PinTimeout")
    <3>1. CASE Top(st) = "PinTimeout"
      BY <1>7, <1>8, <3>1
    <3>2. CASE Top(st) # "PinTimeout"
      BY <1>0, <1>4, <1>6, <1>8, <3>2 DEF LC, Moved
    <3> QED BY <3>1, <3>2
  <2>2. In(r.stack, "PinInput") \/ In(r.stack, "PinTimeout") => r.pin_locked
    BY <1>0, <1>5, <1>8 DEF LC, Kept
  <2> QED BY <1>0, <1>8, <1>11, <2>1, <2>2 DEF LC, Kept
<1>13. r.new_idle_callback /\ Cur(r) \notin {"Main", "Locked"} => In(r.stack, "Locked")
  BY <1>4, <1>8, <1>11 DEF Moved, Sound
<1> QED BY <1>5, <1>8, <1>9, <1>10, <1>11, <1>12, <1>13 DEF Sound, r

LEMMA SearchMainSound ==
    ASSUME NEW d, Turn(d), StackInLayers(d.stack), Cur(d) # "Main",
           ~d.lockdown, ~d.rtc_lock, d.usb, ~d.locked, ~d.pin_timer
    PROVE  /\ Sound(SearchScene(d, "Main")) /\ Kept(d, SearchScene(d, "Main"))
           /\ Cur(SearchScene(d, "Main")) = "Main"
           /\ ~In(SearchScene(d, "Main").stack, "Locked")
<1> DEFINE r == SearchScene(d, "Main")
<1>0. d \in DesktopStruct /\ d.stack \in Seq(Scenes) /\ d.stack # <<>>
  BY DEF Turn, DesktopStruct
<1>1. In(d.stack, "Main") /\ Len(d.stack) \in Nat
  BY <1>0, TopSays
<1>2. PICK n \in 1 .. Len(d.stack) - 1 :
        d.stack[n] = "Main" /\ Moved(d, r, SubSeq(d.stack, 1, n))
  BY <1>1, SearchMoved
<1>3. n \in 1 .. Len(d.stack)
  BY <1>1
<1> DEFINE st == SubSeq(d.stack, 1, n)
<1>4. StackInLayers(st) /\ st # <<>> /\ st \in Seq(Scenes) /\ Top(st) = "Main"
  BY <1>0, <1>2, <1>3, Popped
<1>5. ~In(st, "Locked") /\ ~In(st, "PinInput") /\ ~In(st, "PinTimeout")
  BY <1>4, TopSays
<1>6. Moved(d, r, st)
  BY <1>2
<1> HIDE DEF r, st
<1>7. r.stack = st /\ Cur(r) = "Main" /\ Kept(d, r) /\ r \in DesktopStruct
  BY <1>4, <1>6 DEF Moved, Cur
<1>8. Turn(r)
  BY <1>4, <1>6, <1>7 DEF Turn, Moved, Scenes
<1>9. LC(r)
  BY <1>4, <1>5, <1>6, <1>7 DEF LC, Kept, Moved
<1> QED BY <1>4, <1>5, <1>7, <1>8, <1>9 DEF Sound, r

LEMMA SearchLockedSound ==
    ASSUME NEW d, Sound(d), Cur(d) = "PinInput"
    PROVE  /\ Sound(SearchScene(d, "Locked")) /\ Kept(d, SearchScene(d, "Locked"))
           /\ Cur(SearchScene(d, "Locked")) = "Locked"
           /\ In(SearchScene(d, "Locked").stack, "Locked")
<1> DEFINE r == SearchScene(d, "Locked")
<1>0. Turn(d) /\ d \in DesktopStruct /\ d.stack \in Seq(Scenes) /\ d.stack # <<>>
      /\ StackInLayers(d.stack) /\ LC(d)
  BY DEF Sound, Turn, DesktopStruct
<1>1. In(d.stack, "Locked") /\ ~In(d.stack, "PinTimeout") /\ Len(d.stack) \in Nat
  BY <1>0, TopSays DEF Cur
<1>2. PICK n \in 1 .. Len(d.stack) - 1 :
        d.stack[n] = "Locked" /\ Moved(d, r, SubSeq(d.stack, 1, n))
  BY <1>0, <1>1, SearchMoved DEF LC
<1>3. n \in 1 .. Len(d.stack)
  BY <1>1
<1> DEFINE st == SubSeq(d.stack, 1, n)
<1>4. StackInLayers(st) /\ st # <<>> /\ st \in Seq(Scenes) /\ Top(st) = "Locked"
  BY <1>0, <1>2, <1>3, Popped
<1>5. In(st, "Locked") /\ ~In(st, "PinInput") /\ ~In(st, "PinTimeout")
  BY <1>4, TopSays
<1>6. Moved(d, r, st)
  BY <1>2
<1> HIDE DEF r, st
<1>7. r.stack = st /\ Cur(r) = "Locked" /\ Kept(d, r) /\ r \in DesktopStruct
  BY <1>4, <1>6 DEF Moved, Cur
<1>8. Turn(r)
  BY <1>4, <1>6, <1>7 DEF Turn, Moved, Scenes
<1>9. LC(r)
  BY <1>0, <1>1, <1>4, <1>5, <1>6, <1>7 DEF LC, Kept, Moved
<1> QED BY <1>4, <1>5, <1>7, <1>8, <1>9 DEF Sound, r

LEMMA LockSound ==
    ASSUME NEW d, Turn(d), d.locked_state = "FIRST_ENTER", StackInLayers(d.stack),
           Cur(d) \in {"Main", "LockMenu"}, ~d.pin_timer, d.usb, d.rtc_lock => d.stored_pin
    PROVE  /\ Sound(NextScene(d, "Locked")) /\ Fresh(NextScene(d, "Locked"))
           /\ Cur(NextScene(d, "Locked")) \in {"Locked", "PinTimeout"}
           /\ NextScene(d, "Locked").locked
           /\ In(NextScene(d, "Locked").stack, "Locked")
           /\ NextScene(d, "Locked").stored_pin = d.stored_pin
<1> DEFINE r == NextScene(d, "Locked")
           st == Append(d.stack, "Locked")
           su == Append(st, "PinTimeout")
<1>0. d \in DesktopStruct /\ d.stack \in Seq(Scenes) /\ d.stack # <<>>
      /\ {"Main", "LockMenu", "Locked", "PinTimeout"} \subseteq Scenes
  BY DEF Turn, DesktopStruct, Scenes
<1>1. /\ Layer("Main") = 0 /\ Layer("LockMenu") = 0
      /\ Layer("Locked") = 1 /\ Layer("PinTimeout") = 3
  BY DEF Layer
<1>2. /\ st \in Seq(Scenes) /\ StackInLayers(st) /\ st # <<>> /\ Top(st) = "Locked"
      /\ In(st, "Locked")
  BY <1>0, <1>1, Pushed DEF Cur
<1>3. ~In(st, "PinInput") /\ ~In(st, "PinTimeout")
  BY <1>2, TopSays
<1> HIDE DEF st
<1>4. /\ su \in Seq(Scenes) /\ StackInLayers(su) /\ su # <<>> /\ Top(su) = "PinTimeout"
      /\ \A x : In(su, x) <=> In(st, x) \/ x = "PinTimeout"
  BY <1>0, <1>1, <1>2, Pushed
<1> HIDE DEF su
<1>5. Locks(d, r)
  BY LockMoved
<1> HIDE DEF r
<1>6. /\ r \in DesktopStruct /\ r.subscribed = FALSE /\ r.allocated = {}
      /\ r.locked /\ r.lockdown /\ r.locked_state = "REPEAT_ENTER"
      /\ r.usb = (d.usb /\ ~d.rtc_lock) /\ r.pin_locked = d.rtc_lock
      /\ r.rtc_lock = d.rtc_lock /\ r.stored_pin = d.stored_pin
      /\ \/ r.stack = st /\ r.pin_timer = d.pin_timer
         \/ d.rtc_lock /\ r.stack = su /\ r.pin_timer
  BY <1>5 DEF Locks, st, su
<1>7. d.rtc_lock \in BOOLEAN /\ d.usb \in BOOLEAN /\ d.stored_pin \in BOOLEAN /\ r.usb \in BOOLEAN
  BY <1>0, <1>6 DEF DesktopStruct
<1>8. CASE r.stack = st /\ r.pin_timer = d.pin_timer
  <2>1. Cur(r) = "Locked" /\ StateScenes \cap {Cur(r)} = {}
    BY <1>2, <1>8 DEF Cur, StateScenes
  <2>2. Turn(r)
    BY <1>0, <1>2, <1>6, <1>8, <2>1 DEF Turn
  <2>3. LC(r)
    BY <1>2, <1>3, <1>6, <1>7, <1>8 DEF LC
  <2> QED BY <1>2, <1>6, <1>8, <2>1, <2>2, <2>3 DEF Sound, Fresh, r
<1>9. CASE d.rtc_lock /\ r.stack = su /\ r.pin_timer
  <2>1. Cur(r) = "PinTimeout" /\ StateScenes \cap {Cur(r)} = {}
    BY <1>4, <1>9 DEF Cur, StateScenes
  <2>2. Turn(r)
    BY <1>0, <1>4, <1>6, <1>9, <2>1 DEF Turn
  <2>3. LC(r)
    BY <1>2, <1>3, <1>4, <1>6, <1>7, <1>9 DEF LC
  <2> QED BY <1>2, <1>4, <1>6, <1>9, <2>1, <2>2, <2>3 DEF Sound, Fresh, r
<1> QED BY <1>6, <1>8, <1>9


(***************************************************************************)
(* The events that wait agree with the scenes.                             *)
(***************************************************************************)
QC(d, q) ==
    /\ OnceIn(q, "Unlocked") /\ OnceIn(q, "PinTimeoutExit")
    /\ In(q, "Unlocked") => Cur(d) = "Locked" /\ ~d.pin_locked
    /\ d.locked <=> In(d.stack, "Locked") /\ ~In(q, "Unlocked")
    /\ In(q, "PinTimeoutExit") => Cur(d) = "PinTimeout"
    /\ Cur(d) = "PinTimeout" => (d.pin_timer <=> ~In(q, "PinTimeoutExit"))
    /\ In(q, "ShowPinInput") => d.pin_locked /\ Cur(d) \in {"Locked", "PinInput"}
    /\ Cur(d) = "Locked" => InOrder(q, PinEvents, {"ShowPinInput"})
    /\ Cur(d) = "PinInput" => InOrder(q, {"ShowPinInput"}, PinEvents)
    /\ Cur(d) = "LockMenu" /\ d.settings_pin => d.stored_pin
    /\ Pairs(q) => d.stored_pin /\ (Cur(d) = "LockMenu" => d.settings_pin)

Good(d, q) == Sound(d) /\ q \in Seq(SceneEvents) /\ QC(d, q)

\* A scene that is entered while none of the events waits that mean something
\* later than in their own scene.
LEMMA Quiet ==
    ASSUME NEW r, Sound(r), NEW q \in Seq(SceneEvents), Fresh(r),
           ~In(q, "Unlocked"), ~In(q, "PinTimeoutExit"), ~In(q, "ShowPinInput"),
           r.locked <=> In(r.stack, "Locked"), Pairs(q) => r.stored_pin
    PROVE  Good(r, q)
<1>1. OnceIn(q, "Unlocked") /\ OnceIn(q, "PinTimeoutExit")
  BY DEF OnceIn, In
<1>2. InOrder(q, PinEvents, {"ShowPinInput"}) /\ InOrder(q, {"ShowPinInput"}, PinEvents)
  BY DEF InOrder, In
<1> QED BY <1>1, <1>2 DEF Good, QC, Fresh

\* An event that does nothing.
LEMMA Dropped ==
    ASSUME NEW d, NEW q, Good(d, q), q # <<>>, Head(q) \notin {"Unlocked", "PinTimeoutExit"}
    PROVE  Good(d, Tail(q))
<1> DEFINE t == Tail(q)
<1>1. q \in Seq(SceneEvents) /\ QC(d, q)
  BY DEF Good
<1>2. /\ t \in Seq(SceneEvents)
      /\ \A x : In(t, x) => In(q, x)
      /\ \A x : In(q, x) => x = Head(q) \/ In(t, x)
      /\ \A x : OnceIn(q, x) => OnceIn(t, x)
      /\ \A E, F : InOrder(q, E, F) => InOrder(t, E, F)
      /\ Pairs(t) => Pairs(q)
  BY <1>1, Taken
<1> HIDE DEF t
<1>3. /\ In(t, "Unlocked") <=> In(q, "Unlocked")
      /\ In(t, "PinTimeoutExit") <=> In(q, "PinTimeoutExit")
  BY <1>2
<1>4. QC(d, t)
  BY <1>1, <1>2, <1>3 DEF QC
<1> QED BY <1>2, <1>4 DEF Good, t

\* A change of the record that the scenes do not see.
Same(d, r) ==
    /\ r \in DesktopStruct /\ r.stack = d.stack /\ r.subscribed = d.subscribed
    /\ r.allocated = d.allocated /\ r.new_idle_callback = d.new_idle_callback

LEMMA TurnSame ==
    ASSUME NEW d, NEW r, Turn(d), Same(d, r)
    PROVE  Turn(r) /\ Cur(r) = Cur(d)
BY DEF Turn, Same, Cur

LEMMA MainEvent ==
    ASSUME NEW d, NEW q, Good(d, q), q # <<>>, Cur(d) = "Main"
    PROVE  Good(desktop_scene_main_on_event(d, Head(q)), Tail(q))
<1> DEFINE e == Head(q)
           t == Tail(q)
<1>0. Sound(d) /\ QC(d, q) /\ q \in Seq(SceneEvents) /\ Turn(d) /\ LC(d)
      /\ d.stack \in Seq(Scenes) /\ d.stack # <<>> /\ StackInLayers(d.stack)
  BY DEF Good, Sound, Turn, DesktopStruct
<1>1. t \in Seq(SceneEvents) /\ (\A x : In(t, x) => In(q, x)) /\ (Pairs(t) => Pairs(q)) /\ In(q, e)
  BY <1>0, Taken
<1>2. /\ ~In(q, "Unlocked") /\ ~In(q, "PinTimeoutExit") /\ ~In(q, "ShowPinInput")
      /\ ~In(d.stack, "Locked") /\ ~d.locked /\ (Pairs(q) => d.stored_pin)
  BY <1>0, TopSays DEF QC, Cur
<1> HIDE DEF e, t
<1>3. e \notin {"Unlocked", "PinTimeoutExit"}
  BY <1>1, <1>2
<1>4. ASSUME NEW s \in {"LockMenu", "Debug"} PROVE Good(NextScene(d, s), t)
  <2>1. s \in Scenes /\ Layer(Cur(d)) = 0 /\ Layer(s) = 0
    BY DEF Layer, Scenes
  <2>2. /\ Sound(NextScene(d, s)) /\ Kept(d, NextScene(d, s)) /\ Fresh(NextScene(d, s))
        /\ ~In(NextScene(d, s).stack, "Locked")
    BY <1>0, <1>2, <2>1, PushSound
  <2> QED BY <1>1, <1>2, <2>2, Quiet DEF Kept
<1>5. Good(d, t)
  BY <1>3, Dropped DEF e, t
<1>6. desktop_scene_main_on_event(d, e) \in {NextScene(d, "LockMenu"), NextScene(d, "Debug"), d}
  BY DEF desktop_scene_main_on_event
<1>7. Good(desktop_scene_main_on_event(d, e), t)
  BY <1>4, <1>5, <1>6
<1> QED BY <1>7 DEF e, t

LEMMA LockMenuEvent ==
    ASSUME NEW d, NEW q, Good(d, q), q # <<>>, Cur(d) = "LockMenu",
           Head(q) = "PinLock" => d.settings_pin
    PROVE  Good(desktop_scene_lock_menu_on_event(d, Head(q)), Tail(q))
<1> DEFINE e == Head(q)
           t == Tail(q)
<1>0. Sound(d) /\ QC(d, q) /\ q \in Seq(SceneEvents) /\ Turn(d) /\ LC(d) /\ d \in DesktopStruct
      /\ d.stack \in Seq(Scenes) /\ d.stack # <<>> /\ StackInLayers(d.stack)
  BY DEF Good, Sound, Turn, DesktopStruct
<1>1. t \in Seq(SceneEvents) /\ (\A x : In(t, x) => In(q, x)) /\ (Pairs(t) => Pairs(q)) /\ In(q, e)
  BY <1>0, Taken
<1>2. /\ ~In(q, "Unlocked") /\ ~In(q, "PinTimeoutExit") /\ ~In(q, "ShowPinInput")
      /\ ~In(d.stack, "Locked") /\ ~In(d.stack, "PinTimeout") /\ (Pairs(q) => d.stored_pin)
      /\ (d.settings_pin => d.stored_pin)
  BY <1>0, TopSays DEF QC, Cur
<1>3. ~d.locked /\ ~d.lockdown /\ ~d.rtc_lock /\ d.usb /\ ~d.pin_timer
  BY <1>0, <1>2 DEF LC
<1> HIDE DEF e, t
<1>4. e \notin {"Unlocked", "PinTimeoutExit"}
  BY <1>1, <1>2
<1>5. ASSUME NEW c, Same(d, c), c.stored_pin = d.stored_pin, c.usb = d.usb,
             c.pin_timer = d.pin_timer, c.rtc_lock => d.stored_pin
      PROVE  Good(LockScene(c), t)
  <2> DEFINE b == [c EXCEPT !.locked_state = "FIRST_ENTER"]
  <2>1. /\ Same(d, b) /\ b.locked_state = "FIRST_ENTER" /\ ~b.pin_timer /\ b.usb
        /\ (b.rtc_lock => b.stored_pin) /\ b.stored_pin = d.stored_pin /\ b.stack = d.stack
    BY <1>3, <1>5 DEF Same, DesktopStruct
  <2> HIDE DEF b
  <2>2. Turn(b) /\ Cur(b) = "LockMenu"
    BY <1>0, <2>1, TurnSame
  <2> DEFINE r == NextScene(b, "Locked")
  <2>3. Sound(r) /\ Fresh(r) /\ r.locked /\ In(r.stack, "Locked") /\ r.stored_pin = d.stored_pin
    BY <1>0, <2>1, <2>2, LockSound
  <2> HIDE DEF r
  <2>4. Good(r, t)
    BY <1>1, <1>2, <2>3, Quiet
  <2> QED BY <2>4 DEF LockScene, r, b
<1>6. CASE e = "Lock"
  <2> DEFINE c == [d EXCEPT !.lock_menu_state = 0]
  <2>1. /\ Same(d, c) /\ c.stored_pin = d.stored_pin /\ c.usb = d.usb
        /\ c.pin_timer = d.pin_timer /\ (c.rtc_lock => d.stored_pin)
    BY <1>0, <1>3 DEF Same, DesktopStruct
  <2>2. desktop_scene_lock_menu_on_event(d, e) = LockScene(c)
    BY <1>6 DEF desktop_scene_lock_menu_on_event
  <2> HIDE DEF c
  <2> QED BY <1>5, <2>1, <2>2 DEF e, t
<1>7. CASE e = "PinLock"
  <2> DEFINE c == [d EXCEPT !.rtc_lock = TRUE]
  <2>0. d.stored_pin
    BY <1>2, <1>7 DEF e
  <2>1. /\ Same(d, c) /\ c.stored_pin = d.stored_pin /\ c.usb = d.usb
        /\ c.pin_timer = d.pin_timer /\ (c.rtc_lock => d.stored_pin)
    BY <1>0, <2>0 DEF Same, DesktopStruct
  <2>2. desktop_scene_lock_menu_on_event(d, e) = LockScene(c)
    BY <1>7 DEF desktop_scene_lock_menu_on_event
  <2> HIDE DEF c
  <2> QED BY <1>5, <2>1, <2>2 DEF e, t
<1>8. CASE e = "LockMenuExit"
  <2> DEFINE c == [d EXCEPT !.lock_menu_state = 0]
             r == SearchScene(c, "Main")
  <2>1. /\ Same(d, c) /\ c.stored_pin = d.stored_pin /\ c.usb = d.usb /\ c.stack = d.stack
        /\ c.pin_timer = d.pin_timer /\ c.rtc_lock = d.rtc_lock /\ c.locked = d.locked
        /\ c.lockdown = d.lockdown
    BY <1>0 DEF Same, DesktopStruct
  <2>2. desktop_scene_lock_menu_on_event(d, e) = r
    BY <1>8 DEF desktop_scene_lock_menu_on_event
  <2> HIDE DEF c
  <2>3. Turn(c) /\ Cur(c) = "LockMenu"
    BY <1>0, <2>1, TurnSame
  <2>4. Sound(r) /\ Kept(c, r) /\ Cur(r) = "Main" /\ ~In(r.stack, "Locked")
    BY <1>0, <1>3, <2>1, <2>3, SearchMainSound
  <2> HIDE DEF r
  <2>5. Fresh(r) /\ ~r.locked /\ r.stored_pin = d.stored_pin
    BY <1>3, <2>1, <2>4 DEF Fresh, Kept
  <2>6. Good(r, t)
    BY <1>1, <1>2, <2>4, <2>5, Quiet
  <2> QED BY <2>2, <2>6 DEF e, t
<1>9. CASE e \notin {"Lock", "PinLock", "LockMenuExit"}
  <2>1. desktop_scene_lock_menu_on_event(d, e) = d
    BY <1>9 DEF desktop_scene_lock_menu_on_event
  <2> QED BY <1>4, <2>1, Dropped DEF e, t
<1> QED BY <1>6, <1>7, <1>8, <1>9


LEMMA UnlockedSound ==
    ASSUME NEW d, Sound(d), Cur(d) \in {"Locked", "PinInput"}, NEW c, Same(d, c),
           ~c.locked, c.pin_timer = d.pin_timer, c.stored_pin = d.stored_pin
    PROVE  /\ Sound(Unlocked(c)) /\ Fresh(Unlocked(c)) /\ ~Unlocked(c).locked
           /\ ~In(Unlocked(c).stack, "Locked") /\ Unlocked(c).stored_pin = d.stored_pin
<1> DEFINE b == [c EXCEPT !.pin_fails = 0]
           u == desktop_helpers_unlock_system(b)
           r == SearchScene(u, "Main")
<1>0. Turn(d) /\ LC(d) /\ d.stack \in Seq(Scenes) /\ d.stack # <<>> /\ StackInLayers(d.stack)
  BY DEF Sound, Turn, DesktopStruct
<1>1. ~In(d.stack, "PinTimeout")
  BY <1>0, TopSays DEF Cur
<1>2. ~d.pin_timer
  BY <1>0, <1>1 DEF LC
<1>3. /\ Same(d, b) /\ ~b.locked /\ b.pin_timer = d.pin_timer /\ b.stored_pin = d.stored_pin
  BY DEF Same, DesktopStruct
<1> HIDE DEF b
<1>4. /\ Same(d, u) /\ u.stack = d.stack /\ ~u.locked /\ u.pin_timer = d.pin_timer
      /\ u.stored_pin = d.stored_pin /\ ~u.rtc_lock /\ ~u.lockdown /\ u.usb
  BY <1>3 DEF desktop_helpers_unlock_system, Same, DesktopStruct
<1> HIDE DEF u
<1>5. Turn(u) /\ Cur(u) = Cur(d)
  BY <1>0, <1>4, TurnSame
<1>6. Sound(r) /\ Kept(u, r) /\ Cur(r) = "Main" /\ ~In(r.stack, "Locked")
  BY <1>0, <1>2, <1>4, <1>5, SearchMainSound
<1>7. r = Unlocked(c)
  BY DEF Unlocked, u, b
<1> HIDE DEF r
<1> QED BY <1>4, <1>6, <1>7 DEF Fresh, Kept

LEMMA LockedEvent ==
    ASSUME NEW d, NEW q, Good(d, q), q # <<>>, Cur(d) = "Locked"
    PROVE  Good(desktop_scene_locked_on_event(d, Head(q)), Tail(q))
<1> DEFINE e == Head(q)
           t == Tail(q)
<1>0. Sound(d) /\ QC(d, q) /\ q \in Seq(SceneEvents) /\ Turn(d) /\ LC(d) /\ d \in DesktopStruct
      /\ d.stack \in Seq(Scenes) /\ d.stack # <<>> /\ StackInLayers(d.stack)
  BY DEF Good, Sound, Turn, DesktopStruct
<1>1. /\ t \in Seq(SceneEvents) /\ (\A x : In(t, x) => In(q, x)) /\ (Pairs(t) => Pairs(q)) /\ In(q, e)
      /\ \A x : OnceIn(q, x) /\ x = e => ~In(t, x)
      /\ \A E, F : InOrder(q, E, F) /\ e \in F => \A x \in E : ~In(q, x)
  BY <1>0, Taken
<1>2. /\ ~In(q, "PinTimeoutExit") /\ In(d.stack, "Locked") /\ (Pairs(q) => d.stored_pin)
      /\ OnceIn(q, "Unlocked") /\ InOrder(q, PinEvents, {"ShowPinInput"})
      /\ (In(q, "Unlocked") => ~d.pin_locked /\ ~d.locked)
      /\ (In(q, "ShowPinInput") => d.pin_locked)
      /\ (d.locked <=> ~In(q, "Unlocked"))
  BY <1>0, TopSays DEF QC, Cur
<1> HIDE DEF e, t
<1>3. CASE e = "Unlocked"
  <2>1. ~In(t, "Unlocked") /\ ~In(t, "ShowPinInput") /\ ~In(t, "PinTimeoutExit") /\ ~d.locked
    BY <1>1, <1>2, <1>3
  <2>2. desktop_scene_locked_on_event(d, e) = Unlocked(d)
    BY <1>3 DEF desktop_scene_locked_on_event
  <2>3. Same(d, d)
    BY <1>0 DEF Same
  <2> DEFINE r == Unlocked(d)
  <2>4. /\ Sound(r) /\ Fresh(r) /\ ~r.locked /\ ~In(r.stack, "Locked")
        /\ r.stored_pin = d.stored_pin
    BY <1>0, <2>1, <2>3, UnlockedSound
  <2> HIDE DEF r
  <2>5. Good(r, t)
    BY <1>1, <1>2, <2>1, <2>4, Quiet
  <2> QED BY <2>2, <2>5 DEF e, t, r
<1>4. CASE e = "ShowPinInput"
  <2>1. d.pin_locked /\ ~In(t, "Unlocked") /\ ~In(t, "PinTimeoutExit") /\ d.locked
    BY <1>1, <1>2, <1>4
  <2>2. desktop_scene_locked_on_event(d, e) = NextScene(d, "PinInput")
    BY <1>4 DEF desktop_scene_locked_on_event
  <2>3. "PinInput" \in Scenes /\ Layer("Locked") = 1 /\ Layer("PinInput") = 2
    BY DEF Scenes, Layer
  <2> DEFINE r == NextScene(d, "PinInput")
  <2>4. /\ Sound(r) /\ Kept(d, r) /\ Fresh(r) /\ Cur(r) = "PinInput" /\ In(r.stack, "Locked")
    BY <1>0, <1>2, <2>1, <2>3, PushSound
  <2> HIDE DEF r
  <2>5. \A x \in PinEvents : ~In(t, x)
    BY <1>1, <1>2, <1>4
  <2>6. InOrder(t, {"ShowPinInput"}, PinEvents)
    BY <2>5 DEF InOrder, In
  <2>7. OnceIn(t, "Unlocked") /\ OnceIn(t, "PinTimeoutExit")
    BY <2>1 DEF OnceIn, In
  <2>8. QC(r, t)
    BY <1>1, <1>2, <2>1, <2>4, <2>6, <2>7 DEF QC, Kept
  <2> QED BY <1>1, <2>2, <2>4, <2>8 DEF e, t, r, Good
<1>5. CASE e \notin {"Unlocked", "ShowPinInput"}
  <2>1. desktop_scene_locked_on_event(d, e) = d
    BY <1>5 DEF desktop_scene_locked_on_event
  <2>2. e # "PinTimeoutExit"
    BY <1>1, <1>2
  <2> QED BY <1>5, <2>1, <2>2, Dropped DEF e, t
<1> QED BY <1>3, <1>4, <1>5

LEMMA PinInputEvent ==
    ASSUME NEW d, NEW q, Good(d, q), q # <<>>, Cur(d) = "PinInput"
    PROVE  Good(desktop_scene_pin_input_on_event(d, Head(q)), Tail(q))
<1> DEFINE e == Head(q)
           t == Tail(q)
<1>0. Sound(d) /\ QC(d, q) /\ q \in Seq(SceneEvents) /\ Turn(d) /\ LC(d) /\ d \in DesktopStruct
      /\ d.stack \in Seq(Scenes) /\ d.stack # <<>> /\ StackInLayers(d.stack)
  BY DEF Good, Sound, Turn, DesktopStruct
<1>1. /\ t \in Seq(SceneEvents) /\ (\A x : In(t, x) => In(q, x)) /\ (Pairs(t) => Pairs(q)) /\ In(q, e)
      /\ \A E, F : InOrder(q, E, F) /\ e \in F => \A x \in E : ~In(q, x)
  BY <1>0, Taken
<1>2. /\ ~In(q, "PinTimeoutExit") /\ In(d.stack, "Locked") /\ (Pairs(q) => d.stored_pin)
      /\ ~In(q, "Unlocked") /\ d.locked /\ InOrder(q, {"ShowPinInput"}, PinEvents)
  BY <1>0, TopSays DEF QC, Cur
<1>3. d.pin_locked
  <2>1. In(d.stack, "PinInput")
    BY <1>0, TopSays DEF Cur
  <2> QED BY <1>0, <2>1 DEF LC
<1> HIDE DEF e, t
<1>4. e \in PinEvents => ~In(t, "ShowPinInput")
  BY <1>1, <1>2
<1>5. CASE e = "UnlockFailed"
  <2> DEFINE c == [d EXCEPT !.pin_fails = d.pin_fails + 1]
             r == NextScene(c, "PinTimeout")
  <2>1. desktop_scene_pin_input_on_event(d, e) \in {c, r}
    BY <1>5 DEF desktop_scene_pin_input_on_event
  <2>0. d.pin_fails + 1 \in Nat
    BY <1>0 DEF DesktopStruct
  <2>2. /\ Same(d, c) /\ c.stack = d.stack /\ c.locked_state = d.locked_state
        /\ c.locked = d.locked /\ c.pin_locked = d.pin_locked /\ c.lockdown = d.lockdown
        /\ c.usb = d.usb /\ c.rtc_lock = d.rtc_lock /\ c.stored_pin = d.stored_pin
        /\ c.pin_timer = d.pin_timer /\ c.settings_pin = d.settings_pin
    BY <1>0, <2>0 DEF Same, DesktopStruct
  <2> HIDE DEF c
  <2>3. Turn(c) /\ Cur(c) = Cur(d)
    BY <1>0, <2>2, TurnSame
  <2>4. Sound(c)
    BY <1>0, <2>2, <2>3 DEF Sound, LC, Same
  <2>5. Good(d, t)
    BY <1>5, Dropped DEF e, t
  <2>6. Good(c, t)
    BY <2>2, <2>3, <2>4, <2>5 DEF Good, QC
  <2>7. "PinTimeout" \in Scenes /\ Layer("PinInput") = 2 /\ Layer("PinTimeout") = 3
    BY DEF Scenes, Layer
  <2>8. /\ Sound(r) /\ Kept(c, r) /\ Fresh(r) /\ In(r.stack, "Locked")
    <3>1. Layer(Cur(c)) <= Layer("PinTimeout") /\ Layer(Cur(c)) < Layer("PinTimeout")
      BY <2>3, <2>7
    <3>2. In(c.stack, "Locked") /\ c.pin_locked
      BY <1>2, <1>3, <2>2
    <3>3. /\ Sound(r) /\ Kept(c, r) /\ Fresh(r)
          /\ In(r.stack, "Locked") <=> In(c.stack, "Locked")
      BY <2>4, <2>7, <3>1, <3>2, PushSound
    <3> QED BY <3>2, <3>3
  <2> HIDE DEF r
  <2>9. r.locked /\ r.stored_pin = d.stored_pin
    BY <1>2, <2>2, <2>8 DEF Kept
  <2>10. Good(r, t)
    BY <1>1, <1>2, <1>4, <1>5, <2>8, <2>9, Quiet DEF PinEvents
  <2> QED BY <2>1, <2>6, <2>10 DEF e, t
<1>6. CASE e = "PinInputUnlocked"
  <2> DEFINE c == [d EXCEPT !.locked = FALSE, !.pin_locked = FALSE]
             r == Unlocked(c)
  <2>1. desktop_scene_pin_input_on_event(d, e) = r
    BY <1>6 DEF desktop_scene_pin_input_on_event
  <2>2. Same(d, c) /\ ~c.locked /\ c.pin_timer = d.pin_timer /\ c.stored_pin = d.stored_pin
    BY <1>0 DEF Same, DesktopStruct
  <2> HIDE DEF c
  <2>3. /\ Sound(r) /\ Fresh(r) /\ ~r.locked /\ ~In(r.stack, "Locked")
        /\ r.stored_pin = d.stored_pin
    BY <1>0, <2>2, UnlockedSound
  <2> HIDE DEF r
  <2>4. Good(r, t)
    BY <1>1, <1>2, <1>4, <1>6, <2>3, Quiet DEF PinEvents
  <2> QED BY <2>1, <2>4 DEF e, t
<1>7. CASE e = "PinInputBack"
  <2> DEFINE r == SearchScene(d, "Locked")
  <2>1. desktop_scene_pin_input_on_event(d, e) = r
    BY <1>7 DEF desktop_scene_pin_input_on_event
  <2>2. Sound(r) /\ Kept(d, r) /\ Cur(r) = "Locked" /\ In(r.stack, "Locked")
    BY <1>0, SearchLockedSound
  <2> HIDE DEF r
  <2>3. Fresh(r) /\ r.locked /\ r.stored_pin = d.stored_pin
    BY <1>2, <2>2 DEF Fresh, Kept
  <2>4. Good(r, t)
    BY <1>1, <1>2, <1>4, <1>7, <2>2, <2>3, Quiet DEF PinEvents
  <2> QED BY <2>1, <2>4 DEF e, t
<1>8. CASE e \notin PinEvents
  <2>1. desktop_scene_pin_input_on_event(d, e) = d
    BY <1>8 DEF desktop_scene_pin_input_on_event, PinEvents
  <2>2. e \notin {"PinTimeoutExit", "Unlocked"}
    BY <1>1, <1>2
  <2> QED BY <2>1, <2>2, Dropped DEF e, t
<1> QED BY <1>5, <1>6, <1>7, <1>8 DEF PinEvents

LEMMA OtherEvent ==
    ASSUME NEW d, NEW q, Good(d, q), q # <<>>,
           Cur(d) \notin {"Main", "LockMenu", "Locked", "PinInput"}
    PROVE  Good(OtherOnEvent(d, Head(q)), Tail(q))
<1> DEFINE e == Head(q)
           t == Tail(q)
<1>0. Sound(d) /\ QC(d, q) /\ q \in Seq(SceneEvents) /\ Turn(d) /\ LC(d) /\ d \in DesktopStruct
      /\ d.stack \in Seq(Scenes) /\ d.stack # <<>> /\ StackInLayers(d.stack)
  BY DEF Good, Sound, Turn, DesktopStruct
<1>1. /\ t \in Seq(SceneEvents) /\ (\A x : In(t, x) => In(q, x)) /\ (Pairs(t) => Pairs(q)) /\ In(q, e)
      /\ \A x : OnceIn(q, x) /\ x = e => ~In(t, x)
  BY <1>0, Taken
<1>2. /\ ~In(q, "Unlocked") /\ ~In(q, "ShowPinInput") /\ (Pairs(q) => d.stored_pin)
      /\ (In(q, "PinTimeoutExit") => Cur(d) = "PinTimeout" /\ ~d.pin_timer)
      /\ (d.locked <=> In(d.stack, "Locked")) /\ OnceIn(q, "PinTimeoutExit")
  BY <1>0 DEF QC
<1>3. SM!CurrentScene(d) = Cur(d)
  BY DEF SM!CurrentScene, SM!Last, Cur, Top
<1> HIDE DEF e, t
<1>4. ASSUME ~In(t, "PinTimeoutExit"), Cur(d) = "PinTimeout" => ~d.pin_timer
      PROVE  Good(PreviousScene(d), t)
  <2> DEFINE r == PreviousScene(d)
  <2>1. /\ Sound(r) /\ Kept(d, r) /\ Fresh(r)
        /\ In(r.stack, "Locked") <=> In(d.stack, "Locked")
    BY <1>0, <1>4, BackSound
  <2> HIDE DEF r
  <2>2. (r.locked <=> In(r.stack, "Locked")) /\ r.stored_pin = d.stored_pin
    BY <1>2, <2>1 DEF Kept
  <2>3. Good(r, t)
    BY <1>1, <1>2, <1>4, <2>1, <2>2, Quiet
  <2> QED BY <2>3 DEF r
<1>5. CASE Cur(d) = "PinTimeout" /\ e = "PinTimeoutExit"
  <2>1. OtherOnEvent(d, e) = PreviousScene(d)
    BY <1>3, <1>5 DEF OtherOnEvent
  <2> QED BY <1>1, <1>2, <1>4, <1>5, <2>1 DEF e, t
<1>6. CASE <<Cur(d), e>> \in {<<"FirstStart", "FirstStartCompleted">>,
            <<"HwMismatch", HW_MISMATCH_BACK_EVENT>>, <<"Fault", "FaultExit">>}
  <2>1. OtherOnEvent(d, e) = PreviousScene(d)
    BY <1>3, <1>6 DEF OtherOnEvent
  <2>2. Cur(d) # "PinTimeout"
    BY <1>6
  <2> QED BY <1>1, <1>2, <1>4, <2>1, <2>2 DEF e, t
<1>7. CASE Cur(d) = "Debug" /\ e = "DebugExit"
  <2> DEFINE r == NextScene(d, "Main")
  <2>1. OtherOnEvent(d, e) = r
    BY <1>3, <1>7 DEF OtherOnEvent
  <2>2. "Main" \in Scenes /\ Layer("Main") = 0 /\ Layer("Debug") = 0
    BY DEF Scenes, Layer
  <2>3. /\ Sound(r) /\ Kept(d, r) /\ Fresh(r)
        /\ In(r.stack, "Locked") <=> In(d.stack, "Locked")
    BY <1>0, <1>7, <2>2, PushSound
  <2> HIDE DEF r
  <2>4. (r.locked <=> In(r.stack, "Locked")) /\ r.stored_pin = d.stored_pin
    BY <1>2, <2>3 DEF Kept
  <2>5. Good(r, t)
    BY <1>1, <1>2, <1>7, <2>3, <2>4, Quiet
  <2> QED BY <2>1, <2>5 DEF e, t
<1>8. CASE OtherOnEvent(d, e) = d /\ ~(Cur(d) = "PinTimeout" /\ e = "PinTimeoutExit")
  <2>1. e \notin {"Unlocked", "PinTimeoutExit"}
    BY <1>1, <1>2, <1>8
  <2> QED BY <1>8, <2>1, Dropped DEF e, t
<1>9. \/ Cur(d) = "PinTimeout" /\ e = "PinTimeoutExit"
      \/ <<Cur(d), e>> \in {<<"FirstStart", "FirstStartCompleted">>,
            <<"HwMismatch", HW_MISMATCH_BACK_EVENT>>, <<"Fault", "FaultExit">>}
      \/ Cur(d) = "Debug" /\ e = "DebugExit"
      \/ OtherOnEvent(d, e) = d
  BY <1>3 DEF OtherOnEvent
<1> QED BY <1>5, <1>6, <1>7, <1>8, <1>9


(***************************************************************************)
(* Keys and timers.                                                        *)
(***************************************************************************)
\* A view posts an event.
LEMMA PostGood ==
    ASSUME NEW d, NEW q, Good(d, q), NEW e \in SceneEvents, e \notin {"Unlocked", "PinTimeoutExit"},
           e = "ShowPinInput" => Cur(d) = "Locked" /\ d.pin_locked,
           e \in PinEvents => Cur(d) = "PinInput",
           e \in LockMenuEvents /\ In(q, "PinLock") => Cur(d) = "LockMenu" /\ d.settings_pin
    PROVE  Good(d, Append(q, e))
<1> DEFINE w == Append(q, e)
<1>0. q \in Seq(SceneEvents) /\ QC(d, q) /\ Sound(d)
  BY DEF Good
<1>1. /\ w \in Seq(SceneEvents)
      /\ \A x : In(w, x) <=> In(q, x) \/ x = e
      /\ \A x : OnceIn(q, x) /\ (x = e => ~In(q, x)) => OnceIn(w, x)
      /\ \A E, F : InOrder(q, E, F) /\ (e \in E => e \notin F /\ \A x \in F : ~In(q, x))
                    => InOrder(w, E, F)
      /\ Pairs(w) => Pairs(q) \/ (In(q, "PinLock") /\ e \in LockMenuEvents)
  BY <1>0, Posted
<1> HIDE DEF w
<1>2. In(w, "Unlocked") <=> In(q, "Unlocked")
  BY <1>1
<1>3. In(w, "PinTimeoutExit") <=> In(q, "PinTimeoutExit")
  BY <1>1
<1>4. OnceIn(w, "Unlocked") /\ OnceIn(w, "PinTimeoutExit")
  BY <1>0, <1>1 DEF QC
<1>5. Cur(d) = "Locked" => InOrder(w, PinEvents, {"ShowPinInput"})
  <2>1. Cur(d) = "Locked" => e \notin PinEvents
    OBVIOUS
  <2> QED BY <1>0, <1>1, <2>1 DEF QC
<1>6. Cur(d) = "PinInput" => InOrder(w, {"ShowPinInput"}, PinEvents)
  <2>1. Cur(d) = "PinInput" => e \notin {"ShowPinInput"}
    OBVIOUS
  <2> QED BY <1>0, <1>1, <2>1 DEF QC
<1>7. In(w, "ShowPinInput") => d.pin_locked /\ Cur(d) \in {"Locked", "PinInput"}
  BY <1>0, <1>1 DEF QC
<1>8. Pairs(w) => d.stored_pin /\ (Cur(d) = "LockMenu" => d.settings_pin)
  BY <1>0, <1>1 DEF QC
<1>9. QC(d, w)
  BY <1>0, <1>2, <1>3, <1>4, <1>5, <1>6, <1>7, <1>8 DEF QC
<1> QED BY <1>0, <1>1, <1>9 DEF Good, w

\* The third Back in the locked view.
LEMMA OpenGood ==
    ASSUME NEW d, NEW q, Good(d, q), Cur(d) = "Locked", d.locked, ~d.pin_locked
    PROVE  Good([d EXCEPT !.locked = FALSE], Append(q, "Unlocked"))
<1> DEFINE w == Append(q, "Unlocked")
           c == [d EXCEPT !.locked = FALSE]
<1>0. q \in Seq(SceneEvents) /\ QC(d, q) /\ Sound(d) /\ Turn(d) /\ d \in DesktopStruct
  BY DEF Good, Sound, Turn
<1>1. /\ w \in Seq(SceneEvents)
      /\ \A x : In(w, x) <=> In(q, x) \/ x = "Unlocked"
      /\ \A x : OnceIn(q, x) /\ (x = "Unlocked" => ~In(q, x)) => OnceIn(w, x)
      /\ \A E, F : InOrder(q, E, F) /\ ("Unlocked" \in E => "Unlocked" \notin F /\ \A x \in F : ~In(q, x))
                    => InOrder(w, E, F)
      /\ Pairs(w) => Pairs(q) \/ (In(q, "PinLock") /\ "Unlocked" \in LockMenuEvents)
  <2> DEFINE e == "Unlocked"
  <2>1. e \in SceneEvents
    BY DEF SceneEvents
  <2> HIDE DEF e
  <2>2. /\ Append(q, e) \in Seq(SceneEvents)
        /\ \A x : In(Append(q, e), x) <=> In(q, x) \/ x = e
        /\ \A x : OnceIn(q, x) /\ (x = e => ~In(q, x)) => OnceIn(Append(q, e), x)
        /\ \A E, F : InOrder(q, E, F) /\ (e \in E => e \notin F /\ \A x \in F : ~In(q, x))
                      => InOrder(Append(q, e), E, F)
        /\ Pairs(Append(q, e)) => Pairs(q) \/ (In(q, "PinLock") /\ e \in LockMenuEvents)
    BY <1>0, <2>1, Posted
  <2> QED BY <2>2 DEF e
<1>2. /\ Same(d, c) /\ c.stack = d.stack /\ c.locked_state = d.locked_state
      /\ ~c.locked /\ c.pin_locked = d.pin_locked /\ c.lockdown = d.lockdown
      /\ c.usb = d.usb /\ c.rtc_lock = d.rtc_lock /\ c.stored_pin = d.stored_pin
      /\ c.pin_timer = d.pin_timer /\ c.settings_pin = d.settings_pin
  BY <1>0 DEF Same, DesktopStruct
<1> HIDE DEF w, c
<1>3. Turn(c) /\ Cur(c) = Cur(d)
  BY <1>0, <1>2, TurnSame
<1>4. Sound(c)
  BY <1>0, <1>2, <1>3 DEF Sound, LC, Same
<1>5. ~In(q, "Unlocked") /\ ~In(q, "ShowPinInput") /\ ~In(q, "PinTimeoutExit")
  BY <1>0 DEF QC
<1>6. OnceIn(w, "Unlocked") /\ OnceIn(w, "PinTimeoutExit")
  BY <1>0, <1>1, <1>5 DEF QC
<1>7. InOrder(w, PinEvents, {"ShowPinInput"})
  BY <1>0, <1>1 DEF QC, PinEvents
<1>8. Pairs(w) => Pairs(q)
  BY <1>1 DEF LockMenuEvents
<1>9. In(w, "Unlocked") /\ ~In(w, "ShowPinInput") /\ ~In(w, "PinTimeoutExit")
  BY <1>1, <1>5
<1>10. QC(c, w)
  BY <1>0, <1>2, <1>3, <1>6, <1>7, <1>8, <1>9 DEF QC
<1> QED BY <1>1, <1>4, <1>10 DEF Good, w, c

\* The timeout is over, under its own scene or under one of the boot.
LEMMA TimerGood ==
    ASSUME NEW d, NEW q, Good(d, q), d.pin_timer
    PROVE  /\ Cur(d) \in BootScenes => Good([d EXCEPT !.pin_timer = FALSE], q)
           /\ Cur(d) \notin BootScenes =>
                Good([d EXCEPT !.pin_timer = FALSE], Append(q, "PinTimeoutExit"))
<1> DEFINE w == Append(q, "PinTimeoutExit")
           c == [d EXCEPT !.pin_timer = FALSE]
<1>0. q \in Seq(SceneEvents) /\ QC(d, q) /\ Sound(d) /\ Turn(d) /\ d \in DesktopStruct /\ LC(d)
      /\ d.stack \in Seq(Scenes) /\ d.stack # <<>> /\ StackInLayers(d.stack)
  BY DEF Good, Sound, Turn, DesktopStruct
<1>1. /\ w \in Seq(SceneEvents)
      /\ \A x : In(w, x) <=> In(q, x) \/ x = "PinTimeoutExit"
      /\ \A x : OnceIn(q, x) /\ (x = "PinTimeoutExit" => ~In(q, x)) => OnceIn(w, x)
      /\ Pairs(w) => Pairs(q) \/ (In(q, "PinLock") /\ "PinTimeoutExit" \in LockMenuEvents)
  <2> DEFINE e == "PinTimeoutExit"
  <2>1. e \in SceneEvents
    BY DEF SceneEvents
  <2> HIDE DEF e
  <2>2. /\ Append(q, e) \in Seq(SceneEvents)
        /\ \A x : In(Append(q, e), x) <=> In(q, x) \/ x = e
        /\ \A x : OnceIn(q, x) /\ (x = e => ~In(q, x)) => OnceIn(Append(q, e), x)
        /\ \A E, F : InOrder(q, E, F) /\ (e \in E => e \notin F /\ \A x \in F : ~In(q, x))
                      => InOrder(Append(q, e), E, F)
        /\ Pairs(Append(q, e)) => Pairs(q) \/ (In(q, "PinLock") /\ e \in LockMenuEvents)
    BY <1>0, <2>1, Posted
  <2> QED BY <2>2 DEF e
<1>2. /\ Same(d, c) /\ c.stack = d.stack /\ c.locked_state = d.locked_state
      /\ c.locked = d.locked /\ c.pin_locked = d.pin_locked /\ c.lockdown = d.lockdown
      /\ c.usb = d.usb /\ c.rtc_lock = d.rtc_lock /\ c.stored_pin = d.stored_pin
      /\ ~c.pin_timer /\ c.settings_pin = d.settings_pin
  BY <1>0 DEF Same, DesktopStruct
<1> HIDE DEF w, c
<1>3. Turn(c) /\ Cur(c) = Cur(d)
  BY <1>0, <1>2, TurnSame
<1>4. Sound(c)
  BY <1>0, <1>2, <1>3 DEF Sound, LC, Same
<1>5. ASSUME Cur(d) \in BootScenes PROVE Good(c, q)
  BY <1>0, <1>2, <1>3, <1>4, <1>5 DEF Good, QC, BootScenes
<1>6. ASSUME Cur(d) \notin BootScenes PROVE Good(c, w)
  <2>1. Cur(d) = "PinTimeout"
    <3>1. In(d.stack, "PinTimeout")
      BY <1>0 DEF LC
    <3>2. Cur(d) \notin {"Main", "LockMenu", "Debug", "Locked", "PinInput"} /\ Cur(d) \in Scenes
      BY <1>0, <3>1, TopSays DEF Cur
    <3> QED BY <1>6, <3>2 DEF Scenes, BootScenes
  <2>2. ~In(q, "PinTimeoutExit") /\ ~In(q, "Unlocked") /\ ~In(q, "ShowPinInput")
    BY <1>0, <2>1 DEF QC
  <2>3. /\ In(w, "PinTimeoutExit") /\ ~In(w, "Unlocked") /\ ~In(w, "ShowPinInput")
        /\ OnceIn(w, "PinTimeoutExit") /\ OnceIn(w, "Unlocked") /\ (Pairs(w) => Pairs(q))
    BY <1>0, <1>1, <2>2 DEF QC, LockMenuEvents
  <2>4. QC(c, w)
    BY <1>0, <1>2, <1>3, <2>1, <2>2, <2>3 DEF QC
  <2> QED BY <1>1, <1>4, <2>4 DEF Good
<1> QED BY <1>5, <1>6 DEF w, c

\* A Back that no view consumes.
LEMMA BackGood ==
    ASSUME NEW d, NEW q, Good(d, q), Cur(d) \in {"LockMenu", "Debug", "HwMismatch", "Fault"}
    PROVE  Good(PreviousScene(d), q)
<1> DEFINE r == PreviousScene(d)
<1>0. Sound(d) /\ QC(d, q) /\ q \in Seq(SceneEvents)
  BY DEF Good
<1>1. /\ Sound(r) /\ Kept(d, r) /\ Fresh(r)
      /\ In(r.stack, "Locked") <=> In(d.stack, "Locked")
  BY <1>0, BackSound
<1> HIDE DEF r
<1>2. /\ ~In(q, "Unlocked") /\ ~In(q, "ShowPinInput") /\ ~In(q, "PinTimeoutExit")
      /\ Pairs(q) => d.stored_pin
      /\ d.locked <=> In(d.stack, "Locked")
  BY <1>0 DEF QC
<1>3. (r.locked <=> In(r.stack, "Locked")) /\ r.stored_pin = d.stored_pin
  BY <1>1, <1>2 DEF Kept
<1>4. Good(r, q)
  BY <1>0, <1>1, <1>2, <1>3, Quiet
<1> QED BY <1>4 DEF r

\* The lock menu looks for the new PIN, and starts its setup.
LEMMA LockMenuGood ==
    ASSUME NEW d, NEW q, Good(d, q), NEW p \in {0, 1}, NEW c,
           \/ c = [d EXCEPT !.lock_menu_state = p]
           \/ Cur(d) = "LockMenu" /\ c = [d EXCEPT !.settings_pin = d.stored_pin, !.lock_menu_state = p]
    PROVE  Good(c, q) /\ Cur(c) = Cur(d)
<1>0. q \in Seq(SceneEvents) /\ QC(d, q) /\ Sound(d) /\ Turn(d) /\ d \in DesktopStruct
  BY DEF Good, Sound, Turn
<1>2. /\ Same(d, c) /\ c.stack = d.stack /\ c.locked_state = d.locked_state
      /\ c.locked = d.locked /\ c.pin_locked = d.pin_locked /\ c.lockdown = d.lockdown
      /\ c.usb = d.usb /\ c.rtc_lock = d.rtc_lock /\ c.stored_pin = d.stored_pin
      /\ c.pin_timer = d.pin_timer
      /\ c.settings_pin = d.settings_pin \/ c.settings_pin = d.stored_pin
  BY <1>0 DEF Same, DesktopStruct
<1>3. Turn(c) /\ Cur(c) = Cur(d)
  BY <1>0, <1>2, TurnSame
<1>4. Sound(c)
  BY <1>0, <1>2, <1>3 DEF Sound, LC, Same
<1>5. QC(c, q)
  BY <1>0, <1>2, <1>3 DEF QC
<1> QED BY <1>0, <1>3, <1>4, <1>5 DEF Good

\* An application has set or removed the PIN.
LEMMA PinGood ==
    ASSUME NEW d, NEW q, Good(d, q), NEW pin \in BOOLEAN,
           d.stored_pin => pin \/ (Cur(d) = "Main" /\ q = <<>>)
    PROVE  Good([d EXCEPT !.stored_pin = pin], q) /\ Cur([d EXCEPT !.stored_pin = pin]) = Cur(d)
<1> DEFINE c == [d EXCEPT !.stored_pin = pin]
<1>0. q \in Seq(SceneEvents) /\ QC(d, q) /\ Sound(d) /\ Turn(d) /\ d \in DesktopStruct /\ LC(d)
      /\ d.stack \in Seq(Scenes) /\ d.stack # <<>> /\ StackInLayers(d.stack)
  BY DEF Good, Sound, Turn, DesktopStruct
<1>2. /\ Same(d, c) /\ c.stack = d.stack /\ c.locked_state = d.locked_state
      /\ c.locked = d.locked /\ c.pin_locked = d.pin_locked /\ c.lockdown = d.lockdown
      /\ c.usb = d.usb /\ c.rtc_lock = d.rtc_lock /\ c.stored_pin = pin
      /\ c.pin_timer = d.pin_timer /\ c.settings_pin = d.settings_pin
  BY <1>0 DEF Same, DesktopStruct
<1> HIDE DEF c
<1>3. Turn(c) /\ Cur(c) = Cur(d)
  BY <1>0, <1>2, TurnSame
<1>4. d.rtc_lock => pin
  <2>1. CASE Cur(d) = "Main"
    BY <1>0, <2>1, TopSays DEF LC, Cur
  <2>2. CASE Cur(d) # "Main"
    BY <1>0, <2>2 DEF LC
  <2> QED BY <2>1, <2>2
<1>5. Sound(c)
  BY <1>0, <1>2, <1>3, <1>4 DEF Sound, LC, Same
<1>6. Pairs(q) => d.stored_pin /\ pin
  <2>1. ~Pairs(<<>>)
    BY DEF Pairs
  <2> QED BY <1>0, <2>1 DEF QC
<1>7. QC(c, q)
  <2>1. Cur(c) = "LockMenu" /\ c.settings_pin => c.stored_pin
    BY <1>0, <1>2, <1>3 DEF QC
  <2> QED BY <1>0, <1>2, <1>3, <1>6, <2>1 DEF QC
<1> QED BY <1>0, <1>3, <1>5, <1>7 DEF Good, c


(***************************************************************************)
(* The boot.                                                               *)
(***************************************************************************)
\* The scenes of the boot so far.
Booted(d) == Sound(d) /\ Fresh(d) /\ (d.locked <=> In(d.stack, "Locked"))

\* A boot begins with what the RTC and the settings kept.
Starts(c) ==
    /\ c \in DesktopStruct /\ c.stack = <<>> /\ c.allocated = {} /\ ~c.locked /\ ~c.lockdown
    /\ c.usb /\ ~c.pin_timer /\ c.locked_state = "FIRST_ENTER"
    /\ c.rtc_lock => c.stored_pin

LEMMA OffStarts ==
    ASSUME NEW l \in BOOLEAN, NEW p \in BOOLEAN, NEW f \in Nat, NEW pin \in BOOLEAN
    PROVE  Starts([Off(l, p, f) EXCEPT !.stored_pin = pin, !.settings_pin = pin,
                                       !.rtc_lock = @ /\ pin])
<1>0. <<>> \in Seq(Scenes) /\ {} \in SUBSET Scenes
  OBVIOUS
<1> DEFINE o == Off(l, p, f)
<1>1. /\ o \in DesktopStruct /\ o.stack = <<>> /\ o.allocated = {} /\ ~o.locked /\ ~o.lockdown
      /\ o.usb /\ ~o.pin_timer /\ o.locked_state = "FIRST_ENTER"
  <2>1. o = [stack |-> <<>>, subscribed |-> FALSE, new_idle_callback |-> FALSE,
     allocated |-> {}, lock_menu_state |-> 0, locked_state |-> "FIRST_ENTER",
     locked |-> FALSE, pin_locked |-> FALSE, lockdown |-> FALSE, usb |-> TRUE,
     pin_timer |-> FALSE, rtc_lock |-> l, stored_pin |-> p,
     settings_pin |-> FALSE, pin_fails |-> f]
    BY DEF Off
  <2> HIDE DEF o
  <2> QED BY <1>0, <2>1 DEF DesktopStruct
<1> HIDE DEF o
<1>2. Starts([o EXCEPT !.stored_pin = pin, !.settings_pin = pin, !.rtc_lock = @ /\ pin])
  BY <1>1 DEF DesktopStruct, Starts
<1> QED BY <1>2 DEF o

LEMMA MainBooted ==
    ASSUME NEW c, Starts(c)
    PROVE  LET m == NextScene(c, "Main")
           IN  Booted(IfScene(m, m.rtc_lock, "Locked"))
<1> DEFINE m == NextScene(c, "Main")
           s == IfScene(m, m.rtc_lock, "Locked")
           b == [c EXCEPT !.stack = Append(@, "Main")]
<1>0. <<"Main">> \in Seq(Scenes) /\ Append(<<>>, "Main") = <<"Main">>
  BY DEF Scenes
<1>1. /\ c \in DesktopStruct /\ c.stack = <<>> /\ c.allocated = {} /\ ~c.locked /\ ~c.lockdown
      /\ c.usb /\ ~c.pin_timer /\ c.locked_state = "FIRST_ENTER"
      /\ (c.rtc_lock => c.stored_pin)
  BY DEF Starts
<1>2. m = desktop_scene_main_on_enter(b)
  BY <1>1 DEF NextScene, SM!scene_manager_next_scene, OnEnter, EnterPlain
<1> DEFINE one == <<"Main">>
<1>c. b = [c EXCEPT !.stack = one] /\ one \in Seq(Scenes)
  BY <1>0, <1>1 DEF DesktopStruct
<1> HIDE DEF b, one
<1>3. /\ b \in DesktopStruct /\ b.stack = one /\ b.allocated = {} /\ ~b.locked /\ ~b.lockdown
      /\ b.usb /\ ~b.pin_timer /\ b.locked_state = "FIRST_ENTER"
      /\ (b.rtc_lock => b.stored_pin)
  BY <1>1, <1>c DEF DesktopStruct
<1>d. /\ m \in DesktopStruct /\ m.stack = one /\ m.allocated = {} /\ ~m.locked /\ ~m.lockdown
      /\ m.usb /\ ~m.pin_timer /\ m.locked_state = "FIRST_ENTER" /\ m.subscribed
      /\ (m.rtc_lock => m.stored_pin)
  BY <1>2, <1>3 DEF desktop_scene_main_on_enter, DesktopStruct
<1> HIDE DEF m
<1>4. /\ m \in DesktopStruct /\ m.stack = <<"Main">> /\ m.allocated = {} /\ ~m.locked /\ ~m.lockdown
      /\ m.usb /\ ~m.pin_timer /\ m.locked_state = "FIRST_ENTER" /\ m.subscribed
      /\ (m.rtc_lock => m.stored_pin)
  BY <1>d DEF one
<1>5. Cur(m) = "Main" /\ StateScenes \cap {"Main"} = {} /\ "Main" \in Scenes
  BY <1>4 DEF Cur, Top, StateScenes, Scenes
<1>6. Turn(m)
  BY <1>0, <1>4, <1>5 DEF Turn
<1>7. StackInLayers(m.stack)
  <2>1. Len(<<"Main">>) = 1 /\ <<"Main">>[1] = "Main"
    OBVIOUS
  <2>2. \A i \in 1 .. 1 : i = 1
    OBVIOUS
  <2> QED BY <1>4, <2>1, <2>2 DEF StackInLayers
<1>8. ~In(m.stack, "Locked") /\ ~In(m.stack, "PinInput") /\ ~In(m.stack, "PinTimeout")
  BY <1>0, <1>4, <1>5, <1>7, TopSays DEF Cur
<1>9. CASE m.rtc_lock
  <2>1. s = NextScene(m, "Locked")
    BY <1>9 DEF IfScene
  <2>2. /\ Sound(s) /\ Fresh(s) /\ s.locked /\ In(s.stack, "Locked")
    BY <1>4, <1>5, <1>6, <1>7, <1>9, <2>1, LockSound
  <2> QED BY <2>2 DEF Booted, m
<1>10. CASE ~m.rtc_lock
  <2>1. s = m
    BY <1>10 DEF IfScene
  <2>2. LC(m)
    BY <1>4, <1>8, <1>10 DEF LC
  <2>3. Sound(m) /\ Fresh(m)
    BY <1>5, <1>6, <1>7, <2>2 DEF Sound, Fresh
  <2> HIDE DEF s
  <2>4. Booted(s)
    BY <1>4, <1>8, <2>1, <2>3 DEF Booted
  <2> QED BY <2>4 DEF s, m
<1> QED BY <1>9, <1>10

LEMMA MoreBooted ==
    ASSUME NEW d, Booted(d), NEW b, NEW s \in BootScenes
    PROVE  Booted(IfScene(d, b, s))
<1>0. Sound(d) /\ Cur(d) \in Scenes /\ s \in Scenes /\ s \notin {"Locked", "PinInput", "PinTimeout"}
  BY DEF Booted, Sound, Turn, BootScenes, Scenes
<1>1. Layer(s) = 4 /\ Layer(Cur(d)) \in 0 .. 4
  BY <1>0, LayerValues
<1> DEFINE r == NextScene(d, s)
<1>2. /\ Sound(r) /\ Kept(d, r) /\ Fresh(r)
      /\ In(r.stack, "Locked") <=> In(d.stack, "Locked")
  BY <1>0, <1>1, PushSound
<1> HIDE DEF r
<1>3. Booted(r)
  BY <1>2 DEF Booted, Kept
<1> QED BY <1>3 DEF IfScene, r


(***************************************************************************)
(* The invariant of the scenes.                                            *)
(***************************************************************************)
DeskInv ==
    /\ app \in {"none", "seen", "setup", "off"}
    /\ app = "off" => /\ \E l, p \in BOOLEAN, f \in Nat : desk = Off(l, p, f)
                      /\ queue = <<>> /\ events = {}
    /\ app # "off" => Good(desk, queue)
    /\ app = "seen" => Cur(desk) = "Main" /\ queue = <<>>
    /\ app = "setup" => Cur(desk) = "LockMenu" /\ \A x \in LockMenuEvents : ~In(queue, x)

LEMMA On ==
    ASSUME DeskInv, app # "off"
    PROVE  /\ Good(desk, queue) /\ Sound(desk) /\ Turn(desk) /\ desk \in DesktopStruct
           /\ queue \in Seq(SceneEvents) /\ Current = Cur(desk) /\ Cur(desk) \in Scenes
           /\ \A e : Waits(e) <=> In(queue, e)
           /\ \A s : OnStack(s) <=> In(desk.stack, s)
<1>1. Good(desk, queue)
  BY DEF DeskInv
<1>2. /\ Sound(desk) /\ Turn(desk) /\ desk \in DesktopStruct /\ queue \in Seq(SceneEvents)
      /\ desk.stack # <<>> /\ desk.stack \in Seq(Scenes) /\ Cur(desk) \in Scenes
  BY <1>1 DEF Good, Sound, Turn, DesktopStruct
<1>3. Current = Cur(desk)
  BY <1>2 DEF Current, SM!CurrentScene, SM!Last, Cur, Top
<1>4. DOMAIN queue = 1 .. Len(queue) /\ DOMAIN desk.stack = 1 .. Len(desk.stack)
  BY <1>2
<1> QED BY <1>1, <1>2, <1>3, <1>4 DEF Waits, In, OnStack

LEMMA KeyStep ==
    ASSUME Overtaken = {}, DeskInv, Key PROVE DeskInv'
<1>1. app = "none" /\ ~(SetupAsked /\ Waits("PinLock")) /\ UNCHANGED <<desk, app, events>>
  BY DEF Key, KeyAllowed
<1>2. PICK e \in KeyEvents : queue' = Append(queue, e)
  BY DEF Key, Post
<1>3. /\ Good(desk, queue) /\ Current = Cur(desk) /\ Cur(desk) \in Scenes
      /\ (Waits("PinLock") <=> In(queue, "PinLock"))
  BY <1>1, On
<1>4. /\ e = "ShowPinInput" => Cur(desk) = "Locked" /\ desk.pin_locked
      /\ e \in PinEvents => Cur(desk) = "PinInput"
      /\ e \in LockMenuEvents => Cur(desk) = "LockMenu"
      /\ e \in SceneEvents /\ e \notin {"Unlocked", "PinTimeoutExit"}
  <2> DEFINE s == Cur(desk)
  <2>0. s \in Scenes /\ s = Current
    BY <1>3
  <2> HIDE DEF s
  <2>1. CASE s = "Main"
    <3>1. e \in {"OpenLockMenu", "OpenDebug"}
      BY <2>0, <2>1 DEF KeyEvents
    <3> QED BY <3>1 DEF PinEvents, LockMenuEvents, SceneEvents
  <2>2. CASE s = "LockMenu"
    <3>1. e \in {"Lock", "PinLock", "LockMenuExit"}
      BY <2>0, <2>2 DEF KeyEvents
    <3> QED BY <2>2, <3>1 DEF PinEvents, LockMenuEvents, SceneEvents, s
  <2>3. CASE s \in {"Debug", "FirstStart", "HwMismatch", "Fault"}
    <3>1. e \in {"DebugExit", "FirstStartCompleted", "OpenLockMenu", "FaultExit"}
      BY <2>0, <2>3 DEF KeyEvents, HW_MISMATCH_BACK_EVENT
    <3> QED BY <3>1 DEF PinEvents, LockMenuEvents, SceneEvents
  <2>4. CASE s = "Locked"
    <3>1. e = "ShowPinInput" /\ desk.pin_locked
      BY <2>0, <2>4 DEF KeyEvents
    <3> QED BY <2>4, <3>1 DEF PinEvents, LockMenuEvents, SceneEvents, s
  <2>5. CASE s = "PinInput"
    <3>1. e \in {"PinInputBack", "PinInputUnlocked", "UnlockFailed"}
      BY <2>0, <2>5 DEF KeyEvents
    <3> QED BY <2>5, <3>1 DEF PinEvents, LockMenuEvents, SceneEvents, s
  <2>6. CASE s = "PinTimeout"
    BY <2>0, <2>6 DEF KeyEvents
  <2> QED BY <2>0, <2>1, <2>2, <2>3, <2>4, <2>5, <2>6 DEF Scenes
<1>5. e \in LockMenuEvents /\ In(queue, "PinLock") => desk.settings_pin
  BY <1>1, <1>3, <1>4 DEF SetupAsked
<1>6. Good(desk, Append(queue, e))
  BY <1>3, <1>4, <1>5, PostGood
<1> QED BY <1>1, <1>2, <1>6 DEF DeskInv

LEMMA LockedInputStep ==
    ASSUME Overtaken = {}, DeskInv, desktop_view_locked_input PROVE DeskInv'
<1>1. /\ app = "none" /\ UNCHANGED <<app, events>> /\ Current = "Locked"
      /\ desk.locked /\ ~desk.pin_locked /\ desk' = [desk EXCEPT !.locked = FALSE]
      /\ queue' = Append(queue, "Unlocked")
  BY DEF desktop_view_locked_input, KeyAllowed, Post
<1>2. Good(desk, queue) /\ Current = Cur(desk)
  BY <1>1, On
<1>3. Good(desk', queue')
  BY <1>1, <1>2, OpenGood
<1> QED BY <1>1, <1>3 DEF DeskInv

LEMMA BackStep ==
    ASSUME Overtaken = {}, DeskInv, scene_manager_handle_back_event PROVE DeskInv'
<1>1. /\ app = "none" /\ UNCHANGED <<app, events, queue>>
      /\ Current \in {"LockMenu", "Debug", "HwMismatch", "Fault"}
      /\ desk' = PreviousScene(desk)
  BY DEF scene_manager_handle_back_event, KeyAllowed
<1>2. Good(desk, queue) /\ Current = Cur(desk)
  BY <1>1, On
<1>3. Good(desk', queue')
  BY <1>1, <1>2, BackGood
<1> QED BY <1>1, <1>3 DEF DeskInv

LEMMA PinInputTimerStep ==
    ASSUME Overtaken = {}, DeskInv, desktop_view_pin_input_timer_callback PROVE DeskInv'
<1>1. /\ app # "off" /\ UNCHANGED <<app, events, desk>> /\ Current = "PinInput"
      /\ queue' = Append(queue, "PinInputBack")
  BY DEF desktop_view_pin_input_timer_callback, Alive, Post
<1>2. Good(desk, queue) /\ Current = Cur(desk)
  BY <1>1, On
<1>3. app = "none"
  BY <1>1, <1>2 DEF DeskInv
<1> DEFINE e == "PinInputBack"
<1>4. e \in SceneEvents /\ e \notin {"Unlocked", "PinTimeoutExit", "ShowPinInput"}
      /\ e \notin LockMenuEvents
  BY DEF SceneEvents, PinEvents, LockMenuEvents
<1> HIDE DEF e
<1>5. Good(desk, Append(queue, e))
  BY <1>1, <1>2, <1>4, PostGood
<1> QED BY <1>1, <1>3, <1>5 DEF DeskInv, e

LEMMA PinTimeoutTimerStep ==
    ASSUME Overtaken = {}, DeskInv, desktop_view_pin_timeout_timer_callback PROVE DeskInv'
<1>1. /\ app # "off" /\ UNCHANGED <<app, events>> /\ desk.pin_timer
      /\ desk' = [desk EXCEPT !.pin_timer = FALSE]
      /\ IF Current \in BootScenes THEN queue' = queue
         ELSE queue' = Append(queue, "PinTimeoutExit")
  BY DEF desktop_view_pin_timeout_timer_callback, Alive, Post
<1>2. Good(desk, queue) /\ Sound(desk) /\ Current = Cur(desk)
  BY <1>1, On
<1>3. app = "none"
  <2>1. desk.stack \in Seq(Scenes) /\ desk.stack # <<>> /\ StackInLayers(desk.stack) /\ LC(desk)
    BY <1>2 DEF Sound, Turn, DesktopStruct
  <2>2. In(desk.stack, "PinTimeout")
    BY <1>1, <2>1 DEF LC
  <2>3. Cur(desk) \notin {"Main", "LockMenu"}
    BY <2>1, <2>2, TopSays DEF Cur
  <2> QED BY <1>1, <2>3 DEF DeskInv
<1>4. Good(desk', queue')
  BY <1>1, <1>2, TimerGood
<1> QED BY <1>1, <1>3, <1>4 DEF DeskInv

LEMMA CustomEventStep ==
    ASSUME Overtaken = {}, DeskInv, scene_manager_handle_custom_event PROVE DeskInv'
<1>1. /\ app # "off" /\ UNCHANGED <<app, events>> /\ queue # <<>> /\ queue' = Tail(queue)
      /\ ~SetupStarts
      /\ desk' = CASE Current = "Main"     -> desktop_scene_main_on_event(desk, Head(queue))
                   [] Current = "LockMenu" -> desktop_scene_lock_menu_on_event(desk, Head(queue))
                   [] Current = "Locked"   -> desktop_scene_locked_on_event(desk, Head(queue))
                   [] Current = "PinInput" -> desktop_scene_pin_input_on_event(desk, Head(queue))
                   [] OTHER                -> OtherOnEvent(desk, Head(queue))
  BY DEF scene_manager_handle_custom_event, Alive
<1>2. Good(desk, queue) /\ Current = Cur(desk) /\ queue \in Seq(SceneEvents)
  BY <1>1, On
<1>3. Good(desk', queue')
  <2>1. CASE Cur(desk) = "Main"
    BY <1>1, <1>2, <2>1, MainEvent
  <2>2. CASE Cur(desk) = "LockMenu"
    BY <1>1, <1>2, <2>2, LockMenuEvent DEF SetupStarts, SetupAsked
  <2>3. CASE Cur(desk) = "Locked"
    BY <1>1, <1>2, <2>3, LockedEvent
  <2>4. CASE Cur(desk) = "PinInput"
    BY <1>1, <1>2, <2>4, PinInputEvent
  <2>5. CASE Cur(desk) \notin {"Main", "LockMenu", "Locked", "PinInput"}
    BY <1>1, <1>2, <2>5, OtherEvent
  <2> QED BY <2>1, <2>2, <2>3, <2>4, <2>5
<1>4. app # "seen"
  BY <1>1 DEF DeskInv
<1>5. ASSUME app = "setup" PROVE desk' = desk /\ \A x \in LockMenuEvents : ~In(queue', x)
  <2>1. Cur(desk) = "LockMenu" /\ \A x \in LockMenuEvents : ~In(queue, x)
    BY <1>5 DEF DeskInv
  <2>2. In(queue, Head(queue)) /\ \A x : In(queue', x) => In(queue, x)
    BY <1>1, <1>2, Taken
  <2>3. Head(queue) \notin {"Lock", "PinLock", "LockMenuExit"}
    BY <2>1, <2>2 DEF LockMenuEvents
  <2>4. desk' = desktop_scene_lock_menu_on_event(desk, Head(queue))
    BY <1>1, <1>2, <2>1
  <2> QED BY <2>1, <2>2, <2>3, <2>4 DEF desktop_scene_lock_menu_on_event
<1> QED BY <1>1, <1>3, <1>4, <1>5 DEF DeskInv

LEMMA PinSetupStep ==
    ASSUME Overtaken = {}, DeskInv, PinSetup PROVE DeskInv'
<1>1. /\ app # "off" /\ UNCHANGED events /\ queue # <<>> /\ queue' = Tail(queue)
      /\ Head(queue) = "PinLock" /\ Current = "LockMenu" /\ ~desk.settings_pin
      /\ IF app = "none" THEN app' = "setup" /\ desk' = [desk EXCEPT !.lock_menu_state = 1]
         ELSE UNCHANGED <<app, desk>>
  BY DEF PinSetup, Alive, SetupStarts, SetupAsked
<1>2. Good(desk, queue) /\ Current = Cur(desk) /\ queue \in Seq(SceneEvents) /\ QC(desk, queue)
  BY <1>1, On DEF Good
<1>3. app = "none"
  <2>1. In(queue, "PinLock") /\ "PinLock" \in LockMenuEvents
    BY <1>1, <1>2, Taken DEF LockMenuEvents
  <2> QED BY <1>1, <1>2, <2>1 DEF DeskInv
<1>4. \A x \in LockMenuEvents : ~In(queue', x)
  <2>1. ~Pairs(queue)
    BY <1>1, <1>2 DEF QC
  <2> QED BY <1>1, <1>2, <2>1, Taken
<1>5. Good(desk, queue')
  BY <1>1, <1>2, Dropped
<1>6. Good(desk', queue') /\ Cur(desk') = Cur(desk)
  BY <1>1, <1>3, <1>5, LockMenuGood
<1> QED BY <1>1, <1>2, <1>3, <1>4, <1>6 DEF DeskInv

LEMMA TickStep ==
    ASSUME Overtaken = {}, DeskInv, scene_manager_handle_tick_event PROVE DeskInv'
<1>1. /\ app # "off" /\ UNCHANGED <<events, queue, app>> /\ Current = "LockMenu"
      /\ desk' = [desk EXCEPT !.settings_pin = desk.stored_pin,
                              !.lock_menu_state = IF desk.stored_pin THEN 0 ELSE 1]
  BY DEF scene_manager_handle_tick_event, Alive
<1>2. Good(desk, queue) /\ Current = Cur(desk)
  BY <1>1, On
<1>3. Good(desk', queue') /\ Cur(desk') = Cur(desk)
  <2> DEFINE p == IF desk.stored_pin THEN 0 ELSE 1
  <2>1. p \in {0, 1}
    OBVIOUS
  <2> HIDE DEF p
  <2>2. desk' = [desk EXCEPT !.settings_pin = desk.stored_pin, !.lock_menu_state = p]
    BY <1>1 DEF p
  <2> QED BY <1>1, <1>2, <2>1, <2>2, LockMenuGood
<1> QED BY <1>1, <1>2, <1>3 DEF DeskInv

LEMMA AfterAppStep ==
    ASSUME DeskInv, AfterAppFinished PROVE DeskInv'
<1>1. app \in {"seen", "setup"} /\ app' = "none" /\ UNCHANGED <<events, queue>>
  BY DEF AfterAppFinished
<1>2. PICK pin \in BOOLEAN : /\ app = "setup" /\ desk.stored_pin => pin
                             /\ desk' = [desk EXCEPT !.stored_pin = pin]
  BY DEF AfterAppFinished
<1>3. Good(desk, queue)
  BY <1>1, On
<1>4. desk.stored_pin => pin \/ (Cur(desk) = "Main" /\ queue = <<>>)
  BY <1>1, <1>2 DEF DeskInv
<1>5. Good(desk', queue')
  BY <1>1, <1>2, <1>3, <1>4, PinGood
<1> QED BY <1>1, <1>5 DEF DeskInv

LEMMA BootStep ==
    ASSUME DeskInv, desktop_srv PROVE DeskInv'
<1>1. app = "off" /\ app' = "none" /\ UNCHANGED <<events, queue>>
  BY DEF desktop_srv
<1>2. PICK l \in BOOLEAN, p \in BOOLEAN, f \in Nat : desk = Off(l, p, f)
  BY <1>1 DEF DeskInv
<1>3. PICK shown \in SUBSET BootScenes, loaded \in BOOLEAN :
          LET pin    == desk.stored_pin /\ loaded
              start  == [desk EXCEPT !.stored_pin = pin, !.settings_pin = pin,
                                     !.rtc_lock = @ /\ pin]
              main   == NextScene(start, "Main")
              locked == IfScene(main, main.rtc_lock, "Locked")
              first  == IfScene(locked, "FirstStart" \in shown, "FirstStart")
              hw     == IfScene(first, "HwMismatch" \in shown, "HwMismatch")
          IN  desk' = IfScene(hw, "Fault" \in shown, "Fault")
  BY DEF desktop_srv
<1> DEFINE pin    == desk.stored_pin /\ loaded
           start  == [desk EXCEPT !.stored_pin = pin, !.settings_pin = pin,
                                  !.rtc_lock = @ /\ pin]
           main   == NextScene(start, "Main")
           locked == IfScene(main, main.rtc_lock, "Locked")
           first  == IfScene(locked, "FirstStart" \in shown, "FirstStart")
           hw     == IfScene(first, "HwMismatch" \in shown, "HwMismatch")
<1>4. desk' = IfScene(hw, "Fault" \in shown, "Fault")
  BY <1>3
<1>5. pin \in BOOLEAN
  OBVIOUS
<1> HIDE DEF pin
<1>6. Starts(start)
  BY <1>2, <1>5, OffStarts
<1> HIDE DEF start
<1>7. Booted(locked)
  BY <1>6, MainBooted
<1> HIDE DEF locked
<1>8. {"FirstStart", "HwMismatch", "Fault"} = BootScenes
  BY DEF BootScenes
<1>9. Booted(first)
  BY <1>7, <1>8, MoreBooted
<1> HIDE DEF first
<1>10. Booted(hw)
  BY <1>8, <1>9, MoreBooted
<1> HIDE DEF hw
<1>11. Booted(desk')
  BY <1>4, <1>8, <1>10, MoreBooted
<1>12. queue' = <<>> /\ queue' \in Seq(SceneEvents)
  BY <1>1 DEF DeskInv
<1>13. (\A x : ~In(queue', x)) /\ ~Pairs(queue')
  BY <1>12 DEF In, Pairs
<1>14. Good(desk', queue')
  BY <1>11, <1>12, <1>13, Quiet DEF Booted
<1> QED BY <1>1, <1>14 DEF DeskInv

\* Without power only the RTC and the settings keep anything.
LEMMA OffStep ==
    ASSUME DeskInv, PowerLost PROVE DeskInv'
<1>1. app # "off" /\ app' = "off" /\ events' = {} /\ queue' = <<>>
      /\ desk' = Off(desk.rtc_lock, desk.stored_pin, desk.pin_fails)
  BY DEF PowerLost
<1>2. desk.rtc_lock \in BOOLEAN /\ desk.stored_pin \in BOOLEAN /\ desk.pin_fails \in Nat
  BY <1>1, On DEF DesktopStruct
<1> QED BY <1>1, <1>2 DEF DeskInv


(***************************************************************************)
(* The animation manager.                                                  *)
(***************************************************************************)
AnimationEvents == {"NewIdleAnimation", "CheckAnimation", "InteractAnimation"}

\* A manager between two calls.
Fit(a) ==
    /\ a \in AnimationManagerStruct /\ a.failed = "none"
    /\ a.state = "Idle" => a.current_animation = "idle"
    /\ a.state = "Blocked" => a.current_animation = "blocking"
    /\ a.state \in {"FreezedIdle", "FreezedBlocked"} =>
         /\ a.current_animation = "none"
         /\ (a.freezed_animation_name = "blocking") <=> (a.state = "FreezedBlocked")
    /\ a.state \in {"FreezedIdle", "FreezedBlocked"} <=> a.freezed_animation_name # "none"
    /\ a.timer => a.state = "Idle"
    /\ a.one_shot_view <=> a.levelup_active
    /\ ~(a.levelup_pending /\ a.levelup_active)
    /\ a.levelup_pending \/ a.levelup_active => a.state \in {"Blocked", "FreezedBlocked"}

Awake(a) == a.state \in {"Idle", "Blocked"}

\* A notice or a letter blocks; otherwise the manager is as before.
LEMMA Checked ==
    ASSUME NEW a \in AnimationManagerStruct, NEW w \in World,
           NEW c, c = animation_manager_check_blocking(a, w)
    PROVE  /\ c[2] \in AnimationManagerStruct
           /\ c[2].failed = a.failed /\ c[2].freezed_animation_name = a.freezed_animation_name
           /\ c[2].levelup_active = a.levelup_active /\ c[2].one_shot_view = a.one_shot_view
           /\ c[1] => /\ c[2].state = "Blocked" /\ c[2].current_animation = "blocking"
                      /\ ~c[2].timer
           /\ ~c[1] => /\ c[2].state = a.state /\ c[2].current_animation = a.current_animation
                       /\ c[2].timer = a.timer /\ c[2].missed = a.missed
                       /\ c[2].levelup_pending = a.levelup_pending
<1> DEFINE n == SdNotice(a, w)
           mail == ~n[1] /\ w.level_up_is_pending
           b == [n[2] EXCEPT !.levelup_pending = mail \/ @]
<1>0. w.sd_status \in {"OK", "NOT_READY", "INTERNAL"} /\ w.level_up_is_pending \in BOOLEAN
  BY DEF World
<1>1. /\ n[1] \in BOOLEAN /\ n[2] \in AnimationManagerStruct
      /\ n[2].failed = a.failed /\ n[2].freezed_animation_name = a.freezed_animation_name
      /\ n[2].levelup_active = a.levelup_active /\ n[2].one_shot_view = a.one_shot_view
      /\ n[2].state = a.state /\ n[2].current_animation = a.current_animation
      /\ n[2].timer = a.timer /\ n[2].missed = a.missed
      /\ n[2].levelup_pending = a.levelup_pending
  <2>1. CASE w.sd_status = "INTERNAL"
    <3>1. n = <<TRUE, a>>
      BY <2>1 DEF SdNotice
    <3> QED BY <3>1
  <2>2. CASE w.sd_status = "NOT_READY"
    <3>1. n = <<FALSE, [a EXCEPT !.sd_shown_sd_ok = FALSE, !.sd_shown_no_db = FALSE]>>
      BY <2>2 DEF SdNotice
    <3> HIDE DEF n
    <3> QED BY <3>1 DEF AnimationManagerStruct
  <2>3. CASE w.sd_status = "OK"
    <3>1. n \in {<<TRUE, [a EXCEPT !.sd_shown_sd_ok = TRUE]>>,
                 <<FALSE, a>>,
                 <<TRUE, [a EXCEPT !.sd_shown_no_db = TRUE, !.sd_show_url = TRUE]>>,
                 <<TRUE, [a EXCEPT !.sd_show_url = FALSE]>>}
      BY <2>3 DEF SdNotice
    <3> HIDE DEF n
    <3>2. CASE n = <<TRUE, [a EXCEPT !.sd_shown_sd_ok = TRUE]>>
      BY <3>2 DEF AnimationManagerStruct
    <3>3. CASE n = <<FALSE, a>>
      BY <3>3
    <3>4. CASE n = <<TRUE, [a EXCEPT !.sd_shown_no_db = TRUE, !.sd_show_url = TRUE]>>
      BY <3>4 DEF AnimationManagerStruct
    <3>5. CASE n = <<TRUE, [a EXCEPT !.sd_show_url = FALSE]>>
      BY <3>5 DEF AnimationManagerStruct
    <3> QED BY <3>1, <3>2, <3>3, <3>4, <3>5
  <2> QED BY <1>0, <2>1, <2>2, <2>3
<1>2. c = IF n[1] \/ mail THEN <<TRUE, Block(b)>> ELSE <<FALSE, b>>
  BY DEF animation_manager_check_blocking
<1> HIDE DEF n
<1>3. mail \in BOOLEAN
  BY <1>0, <1>1
<1> HIDE DEF mail
<1>4. /\ b \in AnimationManagerStruct
      /\ b.failed = a.failed /\ b.freezed_animation_name = a.freezed_animation_name
      /\ b.levelup_active = a.levelup_active /\ b.one_shot_view = a.one_shot_view
      /\ b.state = a.state /\ b.current_animation = a.current_animation
      /\ b.timer = a.timer /\ b.missed = a.missed
      /\ ~mail => b.levelup_pending = a.levelup_pending
  BY <1>1, <1>3 DEF AnimationManagerStruct
<1> HIDE DEF b
<1>5. /\ Block(b) \in AnimationManagerStruct
      /\ Block(b).failed = a.failed /\ Block(b).freezed_animation_name = a.freezed_animation_name
      /\ Block(b).levelup_active = a.levelup_active /\ Block(b).one_shot_view = a.one_shot_view
      /\ Block(b).state = "Blocked" /\ Block(b).current_animation = "blocking"
      /\ ~Block(b).timer
  BY <1>4 DEF Block, animation_manager_replace_current_animation,
     AnimationManagerStruct, States, Kinds
<1>6. CASE n[1] \/ mail
  <2>1. c = <<TRUE, Block(b)>>
    BY <1>2, <1>6
  <2> QED BY <1>5, <2>1
<1>7. CASE ~(n[1] \/ mail)
  <2>1. c = <<FALSE, b>>
    BY <1>2, <1>7
  <2> QED BY <1>4, <1>7, <2>1
<1> QED BY <1>6, <1>7

\* An idle animation begins, with its timer.
LEMMA NewIdle ==
    ASSUME NEW a \in AnimationManagerStruct, NEW b, b = animation_manager_start_new_idle(a)
    PROVE  /\ b \in AnimationManagerStruct
           /\ b.failed = a.failed /\ b.freezed_animation_name = a.freezed_animation_name
           /\ b.levelup_active = a.levelup_active /\ b.one_shot_view = a.one_shot_view
           /\ b.levelup_pending = a.levelup_pending
           /\ b.state = "Idle" /\ b.current_animation = "idle" /\ b.timer
BY DEF animation_manager_start_new_idle, animation_manager_replace_current_animation,
   AnimationManagerStruct, States, Kinds

LEMMA AllocFit ==
    ASSUME NEW w \in World, NEW b, b = animation_manager_alloc(w)
    PROVE  Fit(b) /\ Awake(b) /\ (b.state = "Idle" => b.timer)
<1> DEFINE a == [state |-> "Idle", current_animation |-> "none",
              freezed_animation_name |-> "none", timer |-> FALSE,
              levelup_pending |-> FALSE, levelup_active |-> FALSE,
              one_shot_view |-> FALSE, sd_shown_sd_ok |-> TRUE,
              sd_shown_no_db |-> FALSE, sd_show_url |-> FALSE,
              missed |-> FALSE, failed |-> "none"]
           c == animation_manager_check_blocking(a, w)
           k == animation_manager_start_new_idle(c[2])
<1>1. b = IF c[1] THEN c[2] ELSE k
  BY DEF animation_manager_alloc
<1>2. /\ a \in AnimationManagerStruct /\ a.freezed_animation_name = "none" /\ a.failed = "none"
      /\ ~a.levelup_pending /\ ~a.levelup_active /\ ~a.one_shot_view
  BY DEF AnimationManagerStruct, States, Kinds
<1> HIDE DEF a, c
<1>3. /\ c[2] \in AnimationManagerStruct
      /\ c[2].failed = "none" /\ c[2].freezed_animation_name = "none"
      /\ ~c[2].levelup_active /\ ~c[2].one_shot_view
      /\ c[1] => c[2].state = "Blocked" /\ c[2].current_animation = "blocking" /\ ~c[2].timer
      /\ ~c[1] => ~c[2].levelup_pending
  BY <1>2, Checked DEF c
<1>4. /\ k \in AnimationManagerStruct
      /\ k.failed = c[2].failed /\ k.freezed_animation_name = c[2].freezed_animation_name
      /\ k.levelup_active = c[2].levelup_active /\ k.one_shot_view = c[2].one_shot_view
      /\ k.levelup_pending = c[2].levelup_pending
      /\ k.state = "Idle" /\ k.current_animation = "idle" /\ k.timer
  BY <1>3, NewIdle
<1> HIDE DEF k
<1>5. CASE c[1]
  <2>1. b = c[2]
    BY <1>1, <1>5
  <2> QED BY <1>3, <1>5, <2>1 DEF Fit, Awake
<1>6. CASE ~c[1]
  <2>1. b = k
    BY <1>1, <1>6
  <2> QED BY <1>3, <1>4, <1>6, <2>1 DEF Fit, Awake
<1> QED BY <1>5, <1>6

LEMMA NewIdleFit ==
    ASSUME NEW a, Fit(a), NEW b, b = animation_manager_new_idle_process(a)
    PROVE  Fit(b) /\ (Awake(b) <=> Awake(a)) /\ (b.state = "Idle" => b.timer)
<1>0. a \in AnimationManagerStruct
  BY DEF Fit
<1>1. CASE a.state = "Idle"
  <2>1. b = animation_manager_start_new_idle(a)
    BY <1>1 DEF animation_manager_new_idle_process
  <2>2. /\ b \in AnimationManagerStruct
           /\ b.failed = a.failed /\ b.freezed_animation_name = a.freezed_animation_name
           /\ b.levelup_active = a.levelup_active /\ b.one_shot_view = a.one_shot_view
           /\ b.levelup_pending = a.levelup_pending
           /\ b.state = "Idle" /\ b.current_animation = "idle" /\ b.timer
    BY <1>0, <2>1, NewIdle
  <2> QED BY <1>1, <2>2 DEF Fit, Awake
<1>2. CASE a.state # "Idle"
  BY <1>2 DEF animation_manager_new_idle_process
<1> QED BY <1>1, <1>2

LEMMA CheckFit ==
    ASSUME NEW a, Fit(a), NEW w \in World,
           NEW b, b = animation_manager_check_blocking_process(a, w)
    PROVE  /\ Fit(b) /\ (Awake(b) <=> Awake(a))
           /\ b.state = "Idle" => b.timer \/ (a.state = "Idle" /\ b.timer = a.timer /\ b.missed = a.missed)
<1> DEFINE c == animation_manager_check_blocking(a, w)
           k == animation_manager_start_new_idle(c[2])
<1>0. a \in AnimationManagerStruct
  BY DEF Fit
<1>1. CASE a.state # "Idle"
  <2>1. b = a
    BY <1>1 DEF animation_manager_check_blocking_process
  <2> QED BY <1>1, <2>1
<1>2. CASE a.state = "Idle"
  <2>1. b = IF c[1] \/ w.valid THEN c[2] ELSE k
    BY <1>2 DEF animation_manager_check_blocking_process
  <2>2. /\ c[2] \in AnimationManagerStruct
        /\ c[2].failed = a.failed /\ c[2].freezed_animation_name = a.freezed_animation_name
        /\ c[2].levelup_active = a.levelup_active /\ c[2].one_shot_view = a.one_shot_view
        /\ c[1] => /\ c[2].state = "Blocked" /\ c[2].current_animation = "blocking"
                   /\ ~c[2].timer
        /\ ~c[1] => /\ c[2].state = a.state /\ c[2].current_animation = a.current_animation
                    /\ c[2].timer = a.timer /\ c[2].missed = a.missed
                    /\ c[2].levelup_pending = a.levelup_pending
    BY <1>0, Checked
  <2> HIDE DEF c
  <2>3. /\ k \in AnimationManagerStruct
        /\ k.failed = c[2].failed /\ k.freezed_animation_name = c[2].freezed_animation_name
        /\ k.levelup_active = c[2].levelup_active /\ k.one_shot_view = c[2].one_shot_view
        /\ k.levelup_pending = c[2].levelup_pending
        /\ k.state = "Idle" /\ k.current_animation = "idle" /\ k.timer
    BY <2>2, NewIdle
  <2> HIDE DEF k
  <2>4. CASE c[1]
    <3>1. b = c[2]
      BY <2>1, <2>4
    <3> QED BY <1>2, <2>2, <2>4, <3>1 DEF Fit, Awake
  <2>5. CASE ~c[1] /\ b = c[2]
    BY <1>2, <2>2, <2>5 DEF Fit, Awake
  <2>6. CASE ~c[1] /\ b = k
    BY <1>2, <2>2, <2>3, <2>6 DEF Fit, Awake
  <2> QED BY <2>1, <2>4, <2>5, <2>6
<1> QED BY <1>1, <1>2

LEMMA InteractFit ==
    ASSUME NEW a, Fit(a), Awake(a), NEW w \in World,
           NEW b, b = animation_manager_interact_process(a, w)
    PROVE  Fit(b) /\ Awake(b) /\ (b.state = "Idle" => b.timer \/ b = a)
<1> DEFINE c == animation_manager_check_blocking(a, w)
           k == animation_manager_start_new_idle(c[2])
           i == animation_manager_start_new_idle(a)
<1>0. a \in AnimationManagerStruct
  BY DEF Fit
<1>1. CASE a.levelup_pending
  <2>1. ~a.one_shot_view /\ a.state = "Blocked"
    BY <1>1 DEF Fit, Awake
  <2>2. b = [a EXCEPT !.levelup_pending = FALSE, !.levelup_active = TRUE, !.one_shot_view = TRUE]
    BY <1>1, <2>1 DEF animation_manager_interact_process, Assert
  <2> QED BY <1>0, <2>1, <2>2 DEF Fit, Awake, AnimationManagerStruct
<1>2. CASE ~a.levelup_pending /\ a.levelup_active
  <2>1. a.one_shot_view
    BY <1>2 DEF Fit
  <2>2. b = [i EXCEPT !.levelup_active = FALSE, !.one_shot_view = FALSE]
    BY <1>2, <2>1 DEF animation_manager_interact_process, Assert
  <2>3. /\ i \in AnimationManagerStruct
           /\ i.failed = a.failed /\ i.freezed_animation_name = a.freezed_animation_name
           /\ i.levelup_active = a.levelup_active /\ i.one_shot_view = a.one_shot_view
           /\ i.levelup_pending = a.levelup_pending
           /\ i.state = "Idle" /\ i.current_animation = "idle" /\ i.timer
    BY <1>0, NewIdle
  <2> HIDE DEF i
  <2>4. /\ b \in AnimationManagerStruct
        /\ b.failed = a.failed /\ b.freezed_animation_name = a.freezed_animation_name
        /\ ~b.levelup_active /\ ~b.one_shot_view /\ b.levelup_pending = a.levelup_pending
        /\ b.state = "Idle" /\ b.current_animation = "idle" /\ b.timer
    BY <2>2, <2>3 DEF AnimationManagerStruct
  <2> QED BY <1>2, <2>4 DEF Fit, Awake
<1>3. CASE ~a.levelup_pending /\ ~a.levelup_active /\ a.state = "Blocked"
  <2>1. b = IF c[1] THEN c[2] ELSE k
    BY <1>3 DEF animation_manager_interact_process
  <2>2. /\ c[2] \in AnimationManagerStruct
        /\ c[2].failed = a.failed /\ c[2].freezed_animation_name = a.freezed_animation_name
        /\ c[2].levelup_active = a.levelup_active /\ c[2].one_shot_view = a.one_shot_view
        /\ c[1] => /\ c[2].state = "Blocked" /\ c[2].current_animation = "blocking"
                   /\ ~c[2].timer
        /\ ~c[1] => c[2].levelup_pending = a.levelup_pending
    BY <1>0, Checked
  <2> HIDE DEF c
  <2>3. /\ k \in AnimationManagerStruct
        /\ k.failed = c[2].failed /\ k.freezed_animation_name = c[2].freezed_animation_name
        /\ k.levelup_active = c[2].levelup_active /\ k.one_shot_view = c[2].one_shot_view
        /\ k.levelup_pending = c[2].levelup_pending
        /\ k.state = "Idle" /\ k.current_animation = "idle" /\ k.timer
    BY <2>2, NewIdle
  <2> HIDE DEF k
  <2>4. CASE c[1]
    <3>1. b = c[2]
      BY <2>1, <2>4
    <3> QED BY <1>3, <2>2, <2>4, <3>1 DEF Fit, Awake
  <2>5. CASE ~c[1]
    <3>1. b = k
      BY <2>1, <2>5
    <3> QED BY <1>3, <2>2, <2>3, <2>5, <3>1 DEF Fit, Awake
  <2> QED BY <2>4, <2>5
<1>4. CASE ~a.levelup_pending /\ ~a.levelup_active /\ a.state # "Blocked"
  <2>1. b = a
    BY <1>4 DEF animation_manager_interact_process
  <2> QED BY <2>1
<1> QED BY <1>1, <1>2, <1>3, <1>4

LEMMA UnloadFit ==
    ASSUME NEW a, Fit(a), Awake(a), NEW b, b = animation_manager_unload_and_stall_animation(a)
    PROVE  Fit(b) /\ b.state \in {"FreezedIdle", "FreezedBlocked"}
<1>1. /\ a \in AnimationManagerStruct /\ a.failed = "none" /\ a.freezed_animation_name = "none"
      /\ a.current_animation # "none" /\ a.state \in {"Idle", "Blocked"}
  BY DEF Fit, Awake
<1>2. b = [a EXCEPT !.state = IF @ = "Blocked" THEN "FreezedBlocked" ELSE "FreezedIdle",
                    !.timer = IF a.state = "Idle" THEN FALSE ELSE @,
                    !.freezed_animation_name = a.current_animation,
                    !.current_animation = "none"]
  BY <1>1 DEF animation_manager_unload_and_stall_animation, Assert,
     animation_manager_is_animation_loaded
<1>3. /\ b \in AnimationManagerStruct /\ b.failed = "none"
      /\ b.current_animation = "none" /\ b.freezed_animation_name = a.current_animation
      /\ b.state = (IF a.state = "Blocked" THEN "FreezedBlocked" ELSE "FreezedIdle")
      /\ b.levelup_pending = a.levelup_pending /\ b.levelup_active = a.levelup_active
      /\ b.one_shot_view = a.one_shot_view
      /\ b.timer = (IF a.state = "Idle" THEN FALSE ELSE a.timer)
  BY <1>1, <1>2 DEF AnimationManagerStruct, States, Kinds
<1>4. CASE a.state = "Blocked"
  BY <1>1, <1>3, <1>4 DEF Fit
<1>5. CASE a.state = "Idle"
  BY <1>1, <1>3, <1>5 DEF Fit
<1> QED BY <1>1, <1>4, <1>5

LEMMA LoadFit ==
    ASSUME NEW a, Fit(a), a.state \in {"FreezedIdle", "FreezedBlocked"}, NEW w \in World,
           NEW b, b = animation_manager_load_and_continue_animation(a, w)
    PROVE  Fit(b) /\ Awake(b) /\ (b.state = "Idle" => b.timer)
<1> DEFINE c == animation_manager_check_blocking(a, w)
           r == Restore(a, w)
           k == animation_manager_start_new_idle(r)
           s == IF animation_manager_is_animation_loaded(r) THEN r ELSE k
           \* What holds of the restored manager, whichever way it was restored.
           Half(x) == /\ x \in AnimationManagerStruct /\ x.failed = "none"
                      /\ ~(x.levelup_pending /\ x.levelup_active)
                      /\ x.one_shot_view <=> x.levelup_active
           Whole(x) == /\ Half(x) /\ (x.timer => x.state = "Idle")
                       /\ \/ x.state = "Idle" /\ x.current_animation = "idle" /\ x.timer
                             /\ ~x.levelup_pending /\ ~x.levelup_active
                          \/ x.state = "Blocked" /\ x.current_animation = "blocking"
<1>0. /\ a \in AnimationManagerStruct /\ a.failed = "none" /\ a.freezed_animation_name # "none"
      /\ a.current_animation = "none" /\ ~a.timer
      /\ a.state = "FreezedIdle" => ~a.levelup_pending /\ ~a.levelup_active
      /\ Half(a)
  BY DEF Fit
<1>1. b = [s EXCEPT !.freezed_animation_name = "none"]
  BY <1>0 DEF animation_manager_load_and_continue_animation, Assert,
     animation_manager_is_animation_loaded
<1>2. /\ c[2] \in AnimationManagerStruct
      /\ c[2].failed = "none"
      /\ c[2].levelup_active = a.levelup_active /\ c[2].one_shot_view = a.one_shot_view
      /\ c[1] => /\ c[2].state = "Blocked" /\ c[2].current_animation = "blocking"
                 /\ ~c[2].timer
      /\ ~c[1] => /\ c[2].current_animation = "none" /\ c[2].timer = a.timer
                  /\ c[2].levelup_pending = a.levelup_pending
  BY <1>0, Checked
<1>3. \/ Whole(r)
      \/ /\ Half(r) /\ ~r.levelup_pending /\ ~r.levelup_active /\ r.current_animation = "none"
  <2>1. CASE a.state = "FreezedBlocked"
    <3>1. r = [[a EXCEPT !.current_animation = "blocking"] EXCEPT !.state = "Blocked"]
      BY <2>1 DEF Restore, animation_manager_replace_current_animation
    <3> HIDE DEF r
    <3> QED BY <1>0, <3>1 DEF AnimationManagerStruct, States, Kinds
  <2>2. CASE a.state = "FreezedIdle"
    <3> DEFINE j == [[c[2] EXCEPT !.current_animation = "idle"]
                       EXCEPT !.state = "Idle", !.timer = TRUE, !.missed = FALSE]
    <3>1. r = IF ~c[1] /\ w.found /\ w.valid THEN j ELSE c[2]
      BY <2>2 DEF Restore, animation_manager_replace_current_animation
    <3> HIDE DEF r, c
    <3>2. CASE c[1]
      <4>1. r = c[2]
        BY <3>1, <3>2
      <4> QED BY <1>0, <1>2, <2>2, <3>2, <4>1
    <3>3. CASE ~c[1] /\ r = j
      BY <1>0, <1>2, <2>2, <3>3 DEF AnimationManagerStruct, States, Kinds
    <3>4. CASE ~c[1] /\ r = c[2]
      BY <1>0, <1>2, <2>2, <3>4
    <3> QED BY <3>1, <3>2, <3>3, <3>4
  <2> QED BY <2>1, <2>2
<1> HIDE DEF r
<1>4. Whole(s)
  <2>1. CASE r.current_animation # "none"
    <3>1. s = r /\ Whole(r)
      BY <1>3, <2>1 DEF animation_manager_is_animation_loaded
    <3> HIDE DEF s
    <3> QED BY <3>1
  <2>2. CASE r.current_animation = "none"
    <3>1. s = k /\ Half(r) /\ ~r.levelup_pending /\ ~r.levelup_active
      BY <1>3, <2>2 DEF animation_manager_is_animation_loaded
    <3> HIDE DEF s
    <3>2. Whole(k)
      BY <3>1, NewIdle
    <3> QED BY <3>1, <3>2
  <2> QED BY <2>1, <2>2
<1> HIDE DEF s
<1>5. Whole(b) /\ b.freezed_animation_name = "none"
  BY <1>1, <1>4 DEF AnimationManagerStruct, Kinds
<1> QED BY <1>5 DEF Fit, Awake

LEMMA FreshFit ==
    /\ \A a \in FreshManagers : Fit(a) /\ Awake(a) /\ (a.state = "Idle" => a.timer)
    /\ (CHOOSE a \in FreshManagers : TRUE) \in FreshManagers
<1>1. \A a \in FreshManagers : Fit(a) /\ Awake(a) /\ (a.state = "Idle" => a.timer)
  BY AllocFit DEF FreshManagers
<1>2. \E w : w \in World
  <2> DEFINE v == [sd_status |-> "OK", db_exists |-> TRUE, level_up_is_pending |-> TRUE,
                   valid |-> TRUE, found |-> TRUE]
  <2>1. v \in World
    BY DEF World
  <2> QED BY <2>1
<1>3. \E a : a \in FreshManagers
  BY <1>2 DEF FreshManagers
<1> QED BY <1>1, <1>3


(***************************************************************************)
(* The invariant.                                                          *)
(***************************************************************************)
AnimInv ==
    /\ Fit(am) /\ events \subseteq AnimationEvents
    /\ app = "seen" <=> ~Awake(am)
    /\ am.state = "Idle" => am.timer \/ "NewIdleAnimation" \in events \/ am.missed
    /\ app = "seen" => "InteractAnimation" \notin events

DesktopInv == DeskInv /\ AnimInv

LEMMA InitInv ==
    DesktopInit => DesktopInv
<1> SUFFICES ASSUME DesktopInit PROVE DesktopInv
  OBVIOUS
<1>1. am \in FreshManagers /\ events = {} /\ queue = <<>> /\ app = "off"
  BY FreshFit DEF DesktopInit
<1>2. \E l, p \in BOOLEAN, f \in Nat : desk = Off(l, p, f)
  <2>1. PICK l \in BOOLEAN, p \in BOOLEAN, f \in 0 .. MaxFails : desk = Off(l, p, f)
    BY DEF DesktopInit
  <2>2. f \in Nat
    BY DesktopScenesAssumption
  <2> QED BY <2>1, <2>2
<1>3. Fit(am) /\ Awake(am) /\ (am.state = "Idle" => am.timer)
  BY <1>1, FreshFit
<1>4. DeskInv
  BY <1>1, <1>2 DEF DeskInv
<1>5. AnimInv
  BY <1>1, <1>3 DEF AnimInv
<1> QED BY <1>4, <1>5 DEF DesktopInv

\* A step of the scenes, while no application covers them.
LEMMA AnimationKept ==
    ASSUME AnimInv, am' = am, events' = events, (app' = "seen") <=> (app = "seen")
    PROVE  AnimInv'
BY DEF AnimInv

\* A step of the animation manager.
LEMMA ScenesKept ==
    ASSUME DeskInv, app # "off", desk' = desk, queue' = queue, app' = app
    PROVE  DeskInv'
BY DEF DeskInv

LEMMA AnimationStep ==
    ASSUME Overtaken = {}, DesktopInv,
           \/ animation_manager_timer_callback \/ animation_manager_check_blocking_callback
           \/ animation_manager_interact_callback
           \/ NewIdleEvent \/ CheckEvent \/ InteractEvent
    PROVE  DesktopInv'
<1>0. DeskInv /\ AnimInv /\ Fit(am) /\ am \in AnimationManagerStruct
      /\ events \subseteq AnimationEvents
  BY DEF DesktopInv, AnimInv, Fit
<1>1. app # "off" /\ desk' = desk /\ queue' = queue /\ app' = app
  BY DEF animation_manager_timer_callback, animation_manager_check_blocking_callback,
     animation_manager_interact_callback, NewIdleEvent, CheckEvent, InteractEvent, Takes, Alive
<1>2. DeskInv'
  BY <1>0, <1>1, ScenesKept
<1>3. Sound(desk) /\ desk \in DesktopStruct /\ Current = Cur(desk)
  BY <1>0, <1>1, On
<1>4. CASE animation_manager_timer_callback
  <2>1. /\ am.timer /\ am' = [am EXCEPT !.timer = FALSE, !.missed = ~desk.new_idle_callback]
        /\ events' = events \cup (IF desk.new_idle_callback THEN {"NewIdleAnimation"} ELSE {})
    BY <1>4 DEF animation_manager_timer_callback
  <2>2. desk.new_idle_callback \in BOOLEAN
    BY <1>3 DEF DesktopStruct
  <2>3. Fit(am') /\ am'.state = am.state /\ am.state = "Idle"
        /\ am'.missed = ~desk.new_idle_callback
    BY <1>0, <2>1, <2>2 DEF Fit, AnimationManagerStruct
  <2>4. AnimInv'
    BY <1>0, <1>1, <2>1, <2>2, <2>3 DEF AnimInv, Awake, AnimationEvents
  <2> QED BY <1>2, <2>4 DEF DesktopInv
<1>5. CASE animation_manager_check_blocking_callback
  <2>1. am' = am /\ events' = events \cup {"CheckAnimation"}
    BY <1>5 DEF animation_manager_check_blocking_callback
  <2>2. AnimInv'
    BY <1>0, <1>1, <2>1 DEF AnimInv, AnimationEvents
  <2> QED BY <1>2, <2>2 DEF DesktopInv
<1>6. CASE animation_manager_interact_callback
  <2>1. am' = am /\ events' = events \cup {"InteractAnimation"} /\ app = "none"
    BY <1>6 DEF animation_manager_interact_callback
  <2>2. AnimInv'
    BY <1>0, <1>1, <2>1 DEF AnimInv, AnimationEvents
  <2> QED BY <1>2, <2>2 DEF DesktopInv
<1>7. CASE NewIdleEvent
  <2>1. /\ events' = events \ {"NewIdleAnimation"}
        /\ am' = IF Current \in {"Main", "Locked"} THEN animation_manager_new_idle_process(am)
                 ELSE [am EXCEPT !.missed = ~am.timer]
    BY <1>7 DEF NewIdleEvent, Takes
  <2>2. Fit(am') /\ (Awake(am') <=> Awake(am)) /\ (am'.state = "Idle" => am'.timer \/ am'.missed)
    <3>1. CASE Current \in {"Main", "Locked"}
      BY <1>0, <2>1, <3>1, NewIdleFit
    <3>2. CASE Current \notin {"Main", "Locked"}
      <4>1. am' = [am EXCEPT !.missed = ~am.timer] /\ am.timer \in BOOLEAN
        BY <1>0, <2>1, <3>2 DEF AnimationManagerStruct
      <4> QED BY <1>0, <4>1 DEF Fit, Awake, AnimationManagerStruct
    <3> QED BY <3>1, <3>2
  <2>3. AnimInv'
    BY <1>0, <1>1, <2>1, <2>2 DEF AnimInv
  <2> QED BY <1>2, <2>3 DEF DesktopInv
<1>8. CASE CheckEvent
  <2>1. /\ events' = events \ {"CheckAnimation"}
        /\ \/ am' = am
           \/ \E w \in World : am' = animation_manager_check_blocking_process(am, w)
    BY <1>8 DEF CheckEvent, Takes
  <2>2. /\ Fit(am') /\ (Awake(am') <=> Awake(am))
        /\ am'.state = "Idle" =>
             am'.timer \/ (am.state = "Idle" /\ am'.timer = am.timer /\ am'.missed = am.missed)
    <3>1. CASE am' = am
      BY <1>0, <3>1
    <3>2. CASE \E w \in World : am' = animation_manager_check_blocking_process(am, w)
      BY <1>0, <3>2, CheckFit
    <3> QED BY <2>1, <3>1, <3>2
  <2>3. AnimInv'
    BY <1>0, <1>1, <2>1, <2>2 DEF AnimInv
  <2> QED BY <1>2, <2>3 DEF DesktopInv
<1>9. CASE InteractEvent
  <2>1. /\ "InteractAnimation" \in events /\ events' = events \ {"InteractAnimation"}
        /\ \/ am' = am
           \/ \E w \in World : am' = animation_manager_interact_process(am, w)
    BY <1>9 DEF InteractEvent, Takes
  <2>2. app # "seen" /\ Awake(am)
    BY <1>0, <2>1 DEF AnimInv
  <2>3. Fit(am') /\ Awake(am') /\ (am'.state = "Idle" => am'.timer \/ am' = am)
    <3>1. CASE am' = am
      BY <1>0, <2>2, <3>1
    <3>2. CASE \E w \in World : am' = animation_manager_interact_process(am, w)
      BY <1>0, <2>2, <3>2, InteractFit
    <3> QED BY <2>1, <3>1, <3>2
  <2>4. AnimInv'
    BY <1>0, <1>1, <2>1, <2>2, <2>3 DEF AnimInv
  <2> QED BY <1>2, <2>4 DEF DesktopInv
<1> QED BY <1>4, <1>5, <1>6, <1>7, <1>8, <1>9

LEMMA AppStep ==
    ASSUME Overtaken = {}, DesktopInv,
           BeforeAppStarted \/ AfterAppFinished \/ desktop_srv \/ PowerLost
    PROVE  DesktopInv'
<1>0. DeskInv /\ AnimInv /\ Fit(am) /\ events \subseteq AnimationEvents
  BY DEF DesktopInv, AnimInv
<1>1. CASE BeforeAppStarted
  <2>1. /\ app = "none" /\ app' = "seen" /\ Current = "Main" /\ queue = <<>>
        /\ "InteractAnimation" \notin events
        /\ am' = animation_manager_unload_and_stall_animation(am)
        /\ UNCHANGED <<events, desk, queue>>
    BY <1>1 DEF BeforeAppStarted
  <2>2. Good(desk, queue) /\ Cur(desk) = "Main"
    BY <1>0, <2>1, On
  <2>3. DeskInv'
    BY <2>1, <2>2 DEF DeskInv
  <2>4. Awake(am)
    BY <1>0, <2>1 DEF AnimInv
  <2>5. Fit(am') /\ am'.state \in {"FreezedIdle", "FreezedBlocked"}
    BY <1>0, <2>1, <2>4, UnloadFit
  <2>6. AnimInv'
    BY <1>0, <2>1, <2>5 DEF AnimInv, Awake
  <2> QED BY <2>3, <2>6 DEF DesktopInv
<1>2. CASE AfterAppFinished
  <2>1. DeskInv'
    BY <1>0, <1>2, AfterAppStep
  <2>2. /\ app \in {"seen", "setup"} /\ app' = "none" /\ events' = events
        /\ am' \in IF desk.subscribed
                   THEN {animation_manager_load_and_continue_animation(am, w) : w \in World}
                   ELSE {am}
    BY <1>2 DEF AfterAppFinished
  <2>3. Turn(desk)
    BY <1>0, <2>2, On
  <2>4. CASE app = "seen"
    <3>1. desk.subscribed
      BY <1>0, <2>3, <2>4 DEF Turn, DeskInv
    <3>2. PICK w \in World : am' = animation_manager_load_and_continue_animation(am, w)
      BY <2>2, <3>1
    <3>3. am.state \in {"FreezedIdle", "FreezedBlocked"}
      BY <1>0, <2>4 DEF AnimInv, Awake, Fit, AnimationManagerStruct, States
    <3>4. Fit(am') /\ Awake(am') /\ (am'.state = "Idle" => am'.timer)
      BY <1>0, <3>2, <3>3, LoadFit
    <3>5. AnimInv'
      BY <1>0, <2>2, <3>4 DEF AnimInv
    <3> QED BY <2>1, <3>5 DEF DesktopInv
  <2>5. CASE app = "setup"
    <3>1. ~desk.subscribed
      BY <1>0, <2>3, <2>5 DEF Turn, DeskInv
    <3>2. am' = am
      BY <2>2, <3>1
    <3>3. AnimInv'
      BY <1>0, <2>2, <2>5, <3>2 DEF AnimInv
    <3> QED BY <2>1, <3>3 DEF DesktopInv
  <2> QED BY <2>2, <2>4, <2>5
<1>3. CASE desktop_srv
  <2>1. DeskInv'
    BY <1>0, <1>3, BootStep
  <2>2. app = "off" /\ app' = "none" /\ events' = events /\ am' \in FreshManagers
    BY <1>3 DEF desktop_srv
  <2>3. Fit(am') /\ Awake(am') /\ (am'.state = "Idle" => am'.timer)
    BY <2>2, FreshFit
  <2>4. AnimInv'
    BY <1>0, <2>2, <2>3 DEF AnimInv
  <2> QED BY <2>1, <2>4 DEF DesktopInv
<1>4. CASE PowerLost
  <2>1. DeskInv'
    BY <1>0, <1>4, OffStep
  <2>2. app' = "off" /\ events' = {} /\ am' \in FreshManagers
    BY <1>4, FreshFit DEF PowerLost
  <2>3. Fit(am') /\ Awake(am') /\ (am'.state = "Idle" => am'.timer)
    BY <2>2, FreshFit
  <2>4. AnimInv'
    BY <2>2, <2>3 DEF AnimInv
  <2> QED BY <2>1, <2>4 DEF DesktopInv
<1> QED BY <1>1, <1>2, <1>3, <1>4

LEMMA SceneStep ==
    ASSUME Overtaken = {}, DesktopInv,
           \/ Key \/ desktop_view_locked_input \/ scene_manager_handle_back_event
           \/ desktop_view_pin_input_timer_callback \/ desktop_view_pin_timeout_timer_callback
           \/ scene_manager_handle_custom_event \/ PinSetup \/ scene_manager_handle_tick_event
    PROVE  DesktopInv'
<1>0. DeskInv /\ AnimInv
  BY DEF DesktopInv
<1>1. DeskInv'
  BY <1>0, KeyStep, LockedInputStep, BackStep, PinInputTimerStep, PinTimeoutTimerStep,
     CustomEventStep, PinSetupStep, TickStep
<1>2. am' = am /\ events' = events /\ (app' = app \/ (app = "none" /\ app' = "setup"))
  BY DEF Key, desktop_view_locked_input, scene_manager_handle_back_event,
     desktop_view_pin_input_timer_callback, desktop_view_pin_timeout_timer_callback,
     scene_manager_handle_custom_event, PinSetup, scene_manager_handle_tick_event
<1>3. AnimInv'
  BY <1>0, <1>2, AnimationKept
<1> QED BY <1>1, <1>3 DEF DesktopInv

\* The scenes, the events that wait and the animation manager agree in every
\* state that the desktop reaches.
THEOREM DesktopInvariant ==
    ASSUME Overtaken = {} PROVE DesktopSpec => []DesktopInv
<1>1. DesktopInv /\ [DesktopNext]_vars => DesktopInv'
  <2> SUFFICES ASSUME DesktopInv, [DesktopNext]_vars PROVE DesktopInv'
    OBVIOUS
  <2>1. CASE UNCHANGED vars
    BY <2>1 DEF vars, DesktopInv, DeskInv, AnimInv
  <2>2. CASE DesktopNext
    BY <2>2, SceneStep, AnimationStep, AppStep DEF DesktopNext
  <2> QED BY <2>1, <2>2
<1> QED BY <1>1, InitInv, PTL DEF DesktopSpec


LEMMA AnimationFacts ==
    ASSUME AnimInv
    PROVE  AnimationMatchesState /\ IdleEndsUnlessMissed /\ LevelUpConsistent
<1>1. Fit(am) /\ am.state \in States
  BY DEF AnimInv, Fit, AnimationManagerStruct
<1>2. Frozen <=> ~Awake(am)
  BY <1>1 DEF Frozen, Awake, States
<1>3. LevelUpConsistent
  BY <1>1 DEF LevelUpConsistent, Fit
<1>4. AnimationMatchesState
  BY <1>1, <1>2, <1>3 DEF AnimationMatchesState, AnimInv, Fit, Frozen
<1> QED BY <1>3, <1>4 DEF AnimInv, IdleEndsUnlessMissed

LEMMA SceneFacts ==
    ASSUME DeskInv
    PROVE  LockedAsShown /\ ScenesInTurns /\ TimeoutServed
<1>1. CASE app = "off"
  <2>1. PICK l \in BOOLEAN, p \in BOOLEAN, f \in Nat : desk = Off(l, p, f)
    BY <1>1 DEF DeskInv
  <2>2. /\ desk.stack = <<>> /\ desk.subscribed = FALSE /\ desk.allocated = {}
        /\ desk.new_idle_callback = FALSE
    BY <2>1 DEF Off
  <2>3. Current = "none"
    BY <2>2 DEF Current
  <2>4. ScenesInTurns
    BY <2>2, <2>3 DEF ScenesInTurns
  <2> QED BY <1>1, <2>3, <2>4 DEF LockedAsShown, TimeoutServed
<1>2. CASE app # "off"
  <2>1. /\ Good(desk, queue) /\ Sound(desk) /\ Turn(desk) /\ desk \in DesktopStruct
        /\ Current = Cur(desk) /\ desk.stack \in Seq(Scenes)
        /\ \A e : Waits(e) <=> In(queue, e)
        /\ \A s : OnStack(s) <=> In(desk.stack, s)
    BY <1>2, On DEF DesktopStruct
  <2>2. LC(desk) /\ QC(desk, queue) /\ StackInLayers(desk.stack) /\ desk.stack # <<>>
    BY <2>1 DEF Good, Sound, Turn
  <2>3. In(desk.stack, Cur(desk))
    BY <2>1, <2>2, TopSays DEF Cur
  <2>4. LockedAsShown
    <3>1. Current \in {"PinInput", "PinTimeout"} => desk.pin_locked
      BY <2>1, <2>2, <2>3 DEF LC
    <3>2. desk.locked <=> OnStack("Locked") /\ ~Waits("Unlocked")
      BY <2>1, <2>2 DEF QC
    <3> QED BY <2>1, <2>2, <3>1, <3>2 DEF LockedAsShown, LC
  <2>5. ScenesInTurns
    BY <2>1 DEF ScenesInTurns, Sound, Turn, StateScenes
  <2>6. TimeoutServed
    <3>1. desk.pin_timer \in BOOLEAN /\ Waits("PinTimeoutExit") \in BOOLEAN
      BY <2>1 DEF DesktopStruct, Waits
    <3>2. Cur(desk) = "PinTimeout" => (desk.pin_timer <=> ~Waits("PinTimeoutExit"))
      BY <2>1, <2>2 DEF QC
    <3> QED BY <2>1, <3>1, <3>2 DEF TimeoutServed
  <2> QED BY <2>4, <2>5, <2>6
<1> QED BY <1>1, <1>2

\* No assertion of the animation manager fails, over any sequence of scenes,
\* applications, notices and presses (animation_manager.c).
THEOREM NoAssertionFails ==
    ASSUME Overtaken = {} PROVE DesktopSpec => []AssertionsHold
<1>1. DesktopInv => AssertionsHold
  <2> SUFFICES ASSUME DeskInv, AnimInv PROVE AssertionsHold
    BY DEF DesktopInv
  <2>1. /\ am.failed = "none" /\ am.state \in States
        /\ {am.current_animation, am.freezed_animation_name} \subseteq Kinds
        /\ events \subseteq AnimationEvents
    BY DEF AnimInv, Fit, AnimationManagerStruct
  <2>2. \A i \in DOMAIN desk.stack : desk.stack[i] \in Scenes
    <3>1. CASE app = "off"
      <4>1. desk.stack = <<>>
        BY <3>1 DEF DeskInv, Off
      <4> QED BY <4>1
    <3>2. CASE app # "off"
      <4>1. desk.stack \in Seq(Scenes)
        BY <3>2, On DEF DesktopStruct
      <4> QED BY <4>1
    <3> QED BY <3>1, <3>2
  <2> QED BY <2>1, <2>2 DEF AssertionsHold, AnimationEvents
<1> QED BY <1>1, DesktopInvariant, PTL

\* The animation in memory is of the kind the manager's state says, and there is
\* none exactly while an application has the memory.
THEOREM AnimationIsTheStates ==
    ASSUME Overtaken = {} PROVE DesktopSpec => []AnimationMatchesState
<1>1. DesktopInv => AnimationMatchesState
  BY AnimationFacts DEF DesktopInv
<1> QED BY <1>1, DesktopInvariant, PTL

\* An idle animation has its timer, or the event of its end waits, unless a
\* scene without the callback missed it.
THEOREM IdleEnds ==
    ASSUME Overtaken = {} PROVE DesktopSpec => []IdleEndsUnlessMissed
<1>1. DesktopInv => IdleEndsUnlessMissed
  BY AnimationFacts DEF DesktopInv
<1> QED BY <1>1, DesktopInvariant, PTL

\* A level up waits or is shown, never both, and only over a blocking animation.
THEOREM LevelUpIsConsistent ==
    ASSUME Overtaken = {} PROVE DesktopSpec => []LevelUpConsistent
<1>1. DesktopInv => LevelUpConsistent
  BY AnimationFacts DEF DesktopInv
<1> QED BY <1>1, DesktopInvariant, PTL

\* Gui, USB, the RTC's flag and the locked view say that the system is locked
\* exactly while the locked scene is on the stack (desktop_scene_locked.c).
THEOREM LockIsAsShown ==
    ASSUME Overtaken = {} PROVE DesktopSpec => []LockedAsShown
<1>1. DesktopInv => LockedAsShown
  BY SceneFacts DEF DesktopInv
<1> QED BY <1>1, DesktopInvariant, PTL

\* Whatever events come late, each scene's handlers run in turns.
THEOREM ScenesTakeTurns ==
    ASSUME Overtaken = {} PROVE DesktopSpec => []ScenesInTurns
<1>1. DesktopInv => ScenesInTurns
  BY SceneFacts DEF DesktopInv
<1> QED BY <1>1, DesktopInvariant, PTL

\* While the timeout after wrong PINs is shown, its timer runs or its event
\* waits, and never both (desktop_scene_pin_timeout.c).
THEOREM TimeoutIsServed ==
    ASSUME Overtaken = {} PROVE DesktopSpec => []TimeoutServed
<1>1. DesktopInv => TimeoutServed
  BY SceneFacts DEF DesktopInv
<1> QED BY <1>1, DesktopInvariant, PTL

=============================================================================
