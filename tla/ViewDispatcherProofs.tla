------------------------ MODULE ViewDispatcherProofs ------------------------
(***************************************************************************)
(* Proofs about the gui and a view dispatcher behind it, for any keys,     *)
(* views and sizes of the queues: neither of them calls into a view port   *)
(* or a view that was removed, and the release of every key that the       *)
(* dispatcher has seen go down is on its way.                              *)
(***************************************************************************)
EXTENDS ViewDispatcher, SequenceTheorems, WellFoundedInduction, TLAPS

(***************************************************************************)
(* Sequences.                                                              *)
(***************************************************************************)

\* What is left of a sequence without its item number p.
LEMMA RemoveAtProperties ==
    ASSUME NEW S, NEW s \in Seq(S), NEW p \in 1 .. Len(s)
    PROVE  /\ RemoveAt(s, p) \in Seq(S)
           /\ Len(RemoveAt(s, p)) = Len(s) - 1
           /\ \A i \in 1 .. Len(s) - 1 :
                RemoveAt(s, p)[i] = IF i < p THEN s[i] ELSE s[i + 1]
<1>1. /\ SubSeq(s, 1, p - 1) \in Seq(S)
      /\ Len(SubSeq(s, 1, p - 1)) = p - 1
      /\ \A i \in 1 .. p - 1 : SubSeq(s, 1, p - 1)[i] = s[i]
  <2>1. \A i \in 1 .. p - 1 : s[i] \in S
    BY ElementOfSeq
  <2> QED BY <2>1, SubSeqProperties
<1>2. /\ SubSeq(s, p + 1, Len(s)) \in Seq(S)
      /\ Len(SubSeq(s, p + 1, Len(s))) = Len(s) - p
      /\ \A i \in 1 .. Len(s) - p : SubSeq(s, p + 1, Len(s))[i] = s[p + i]
  <2>1. \A i \in p + 1 .. Len(s) : s[i] \in S
    BY ElementOfSeq
  <2>2. p + 1 \in Int /\ Len(s) \in Int
    OBVIOUS
  <2>3. /\ SubSeq(s, p + 1, Len(s)) \in Seq(S)
        /\ Len(SubSeq(s, p + 1, Len(s))) =
             IF p + 1 <= Len(s) THEN Len(s) - (p + 1) + 1 ELSE 0
        /\ \A i \in 1 .. Len(s) - (p + 1) + 1 :
             SubSeq(s, p + 1, Len(s))[i] = s[p + 1 + i - 1]
    BY <2>1, <2>2, SubSeqProperties
  <2> QED BY <2>3
<1>3. PICK a \in Seq(S), b \in Seq(S) :
        /\ RemoveAt(s, p) = a \o b
        /\ Len(a) = p - 1 /\ \A i \in 1 .. p - 1 : a[i] = s[i]
        /\ Len(b) = Len(s) - p /\ \A i \in 1 .. Len(s) - p : b[i] = s[p + i]
  BY <1>1, <1>2 DEF RemoveAt
<1>4. /\ a \o b \in Seq(S)
      /\ Len(a \o b) = Len(a) + Len(b)
      /\ \A i \in 1 .. Len(a) + Len(b) :
           (a \o b)[i] = IF i <= Len(a) THEN a[i] ELSE b[i - Len(a)]
  BY ConcatProperties
<1>5. PICK r \in Seq(S) :
        /\ RemoveAt(s, p) = r
        /\ Len(r) = Len(a) + Len(b)
        /\ \A i \in 1 .. Len(a) + Len(b) :
             r[i] = IF i <= Len(a) THEN a[i] ELSE b[i - Len(a)]
  BY <1>3, <1>4
<1>6. Len(r) = Len(s) - 1
  BY <1>3, <1>5
<1>7. ASSUME NEW i \in 1 .. Len(s) - 1
      PROVE  r[i] = IF i < p THEN s[i] ELSE s[i + 1]
  <2>0. /\ p \in Nat /\ i \in Nat /\ Len(s) \in Nat /\ p <= Len(s)
        /\ i \in 1 .. Len(a) + Len(b)
    BY <1>3
  <2>a. r[i] = IF i <= Len(a) THEN a[i] ELSE b[i - Len(a)]
    BY <2>0, <1>5
  <2>1. CASE i < p
    <3>1. i <= Len(a) /\ i \in 1 .. p - 1
      BY <2>0, <2>1, <1>3
    <3> QED BY <3>1, <2>a, <2>1, <1>3
  <2>2. CASE ~(i < p)
    <3>1. ~(i <= Len(a)) /\ i - Len(a) \in 1 .. Len(s) - p /\ p + (i - Len(a)) = i + 1
      BY <2>0, <2>2, <1>3
    <3>2. b[i - Len(a)] = s[p + (i - Len(a))]
      BY <3>1, <1>3
    <3> QED BY <3>1, <3>2, <2>a, <2>2
  <2> QED BY <2>1, <2>2
<1> QED
  BY <1>5, <1>6, <1>7

\* A set of positions has a last one.
LEMMA LastExists ==
    ASSUME NEW n \in Nat, NEW S \in SUBSET (1 .. n), S # {}
    PROVE  \E i \in S : \A j \in S : j <= i
<1> DEFINE T == {n - i : i \in S}
<1>1. T \subseteq Nat /\ T # {}
  <2>1. \A i \in S : n - i \in Nat
    <3>1. \A i \in S : i \in Int /\ 1 <= i /\ i <= n
      OBVIOUS
    <3> QED BY <3>1
  <2> QED BY <2>1
<1>2. PICK x \in T : \A y \in T : ~(<<y, x>> \in OpToRel(<, Nat))
  BY <1>1, NatLessThanWellFounded, WFMin
<1>3. \A y \in T : ~(y < x)
  BY <1>1, <1>2 DEF OpToRel
<1>4. PICK i \in S : x = n - i
  OBVIOUS
<1>5. ASSUME NEW j \in S PROVE j <= i
  <2>1. n - j \in T
    OBVIOUS
  <2>2. ~(n - j < n - i)
    BY <2>1, <1>3, <1>4
  <2> QED BY <2>2
<1> QED BY <1>5

\* A layer without p.
LEMMA LayerWithout ==
    ASSUME NEW S, NEW s \in Seq(S), IsInjective(s), NEW p,
           NEW w, \/ p \notin ToSet(s) /\ w = s
                  \/ \E q \in 1 .. Len(s) : s[q] = p /\ w = RemoveAt(s, q)
    PROVE  /\ w \in Seq(S) /\ IsInjective(w)
           /\ \A i \in 1 .. Len(w) : w[i] # p /\ \E j \in 1 .. Len(s) : s[j] = w[i]
<1>0. DOMAIN s = 1 .. Len(s) /\ Len(s) \in Nat
      /\ \A i, j \in 1 .. Len(s) : s[i] = s[j] => i = j
  BY DEF IsInjective
<1>1. CASE p \notin ToSet(s) /\ w = s
  <2>1. w = s /\ \A i \in 1 .. Len(s) : s[i] # p
    BY <1>1, <1>0 DEF ToSet
  <2> QED BY <2>1
<1>2. CASE \E q \in 1 .. Len(s) : s[q] = p /\ w = RemoveAt(s, q)
  <2>1. PICK q \in 1 .. Len(s) : s[q] = p /\ w = RemoveAt(s, q)
    BY <1>2
  <2>2. /\ w \in Seq(S) /\ Len(w) = Len(s) - 1
        /\ \A i \in 1 .. Len(s) - 1 : w[i] = IF i < q THEN s[i] ELSE s[i + 1]
    BY <2>1, RemoveAtProperties
  <2>3. ASSUME NEW i \in 1 .. Len(w)
        PROVE  \E j \in 1 .. Len(s) : /\ s[j] = w[i] /\ j # q
                                      /\ j = IF i < q THEN i ELSE i + 1
    <3>0. /\ i \in 1 .. Len(s) - 1 /\ i \in Nat /\ q \in Nat
          /\ i \in 1 .. Len(s) /\ i + 1 \in 1 .. Len(s)
      <4>1. i \in 1 .. Len(s) - 1
        BY <2>2
      <4>2. i \in Int /\ 1 <= i /\ i <= Len(s) - 1 /\ q \in Int /\ 1 <= q
        BY <4>1, <1>0
      <4> QED BY <4>1, <4>2, <1>0
    <3>1. CASE i < q
      <4>1. w[i] = s[i] /\ i # q
        BY <3>0, <3>1, <2>2
      <4> QED BY <4>1, <3>0, <3>1
    <3>2. CASE ~(i < q)
      <4>1. w[i] = s[i + 1] /\ i + 1 # q
        BY <3>0, <3>2, <2>2
      <4> QED BY <4>1, <3>0, <3>2
    <3> QED BY <3>1, <3>2
  <2>4. ASSUME NEW i \in 1 .. Len(w), NEW k \in 1 .. Len(w), w[i] = w[k] PROVE i = k
    <3>1. PICK a \in 1 .. Len(s) : s[a] = w[i] /\ a = IF i < q THEN i ELSE i + 1
      BY <2>3
    <3>2. PICK c \in 1 .. Len(s) : s[c] = w[k] /\ c = IF k < q THEN k ELSE k + 1
      BY <2>3
    <3>3. a = c
      BY <3>1, <3>2, <2>4, <1>0
    <3>4. i \in Int /\ k \in Int /\ q \in Int
      OBVIOUS
    <3> QED BY <3>1, <3>2, <3>3, <3>4
  <2>5. IsInjective(w)
    <3>1. DOMAIN w = 1 .. Len(w)
      BY <2>2
    <3> QED BY <2>4, <3>1 DEF IsInjective
  <2>6. ASSUME NEW i \in 1 .. Len(w) PROVE w[i] # p /\ \E j \in 1 .. Len(s) : s[j] = w[i]
    <3>1. PICK j \in 1 .. Len(s) : s[j] = w[i] /\ j # q
      BY <2>3
    <3> QED BY <3>1, <2>1, <1>0
  <2> QED BY <2>2, <2>5, <2>6
<1> QED BY <1>1, <1>2

\* A sequence with one more item, the others being from it and no other.
Extends(w, s, p) ==
    \A i \in 1 .. Len(w) : w[i] = p \/ \E j \in 1 .. Len(s) : s[j] = w[i]

LEMMA OneBehind ==
    ASSUME NEW S, NEW s \in Seq(S), IsInjective(s), NEW p \in S,
           \A i \in 1 .. Len(s) : s[i] # p
    PROVE  /\ Append(s, p) \in Seq(S) /\ IsInjective(Append(s, p))
           /\ Extends(Append(s, p), s, p)
<1> DEFINE w == Append(s, p)
<1>0. DOMAIN s = 1 .. Len(s) /\ Len(s) \in Nat
      /\ \A i, j \in 1 .. Len(s) : s[i] = s[j] => i = j
  BY DEF IsInjective
<1>1. /\ w \in Seq(S) /\ Len(w) = Len(s) + 1 /\ DOMAIN w = 1 .. Len(w)
      /\ w[Len(s) + 1] = p /\ \A i \in 1 .. Len(s) : w[i] = s[i]
  OBVIOUS
<1>2. \A i, j \in 1 .. Len(w) : w[i] = w[j] => i = j
  BY <1>1, <1>0
<1> QED BY <1>1, <1>2, <1>0 DEF IsInjective, Extends

LEMMA OneInFront ==
    ASSUME NEW S, NEW s \in Seq(S), IsInjective(s), NEW p \in S,
           \A i \in 1 .. Len(s) : s[i] # p
    PROVE  /\ <<p>> \o s \in Seq(S) /\ IsInjective(<<p>> \o s)
           /\ Extends(<<p>> \o s, s, p)
<1> DEFINE w == <<p>> \o s
<1>0. DOMAIN s = 1 .. Len(s) /\ Len(s) \in Nat
      /\ \A i, j \in 1 .. Len(s) : s[i] = s[j] => i = j
  BY DEF IsInjective
<1>1. /\ w \in Seq(S) /\ Len(w) = Len(s) + 1 /\ DOMAIN w = 1 .. Len(w)
      /\ w[1] = p /\ \A i \in 2 .. Len(w) : w[i] = s[i - 1]
  <2>1. <<p>> \in Seq(S) /\ Len(<<p>>) = 1 /\ <<p>>[1] = p
    OBVIOUS
  <2>2. /\ w \in Seq(S) /\ Len(w) = 1 + Len(s)
        /\ \A i \in 1 .. 1 + Len(s) : w[i] = IF i <= 1 THEN <<p>>[i] ELSE s[i - 1]
    BY <2>1, ConcatProperties
  <2> QED BY <2>1, <2>2, <1>0
<1>2. \A i, j \in 1 .. Len(w) : w[i] = w[j] => i = j
  <2> SUFFICES ASSUME NEW i \in 1 .. Len(w), NEW j \in 1 .. Len(w), w[i] = w[j] PROVE i = j
    OBVIOUS
  <2>1. CASE i \in 2 .. Len(w) /\ j \in 2 .. Len(w)
    <3>1. i - 1 \in 1 .. Len(s) /\ j - 1 \in 1 .. Len(s) /\ s[i - 1] = s[j - 1]
      BY <2>1, <1>1, <1>0
    <3>2. i - 1 = j - 1
      BY <3>1, <1>0
    <3> QED BY <3>2, <1>1, <1>0
  <2>2. \A k \in 2 .. Len(w) : w[k] # p
    BY <1>1, <1>0
  <2> QED BY <2>1, <2>2, <1>1, <1>0
<1>3. \A i \in 2 .. Len(w) : i - 1 \in 1 .. Len(s) /\ s[i - 1] = w[i]
  BY <1>1, <1>0
<1>4. \A i \in 1 .. Len(w) : i = 1 \/ i \in 2 .. Len(w)
  BY <1>1, <1>0
<1> QED BY <1>1, <1>2, <1>3, <1>4 DEF IsInjective, Extends

(***************************************************************************)
(* The gui.                                                                *)
(***************************************************************************)

\* NULL is no view port, and the layers are three.
LEMMA Ports ==
    /\ App \in ViewPorts /\ Desktop \in ViewPorts /\ Menu \in ViewPorts
    /\ NULL \notin ViewPorts /\ NULL \notin Views
    /\ "Fullscreen" \in Layers /\ "Window" \in Layers /\ "Desktop" \in Layers
BY ViewDispatcherAssumption DEF Layers

Attached == {p \in ViewPorts : attached[p]}

\* What gui_view_port_find_enabled finds is attached.
LEMMA FindEnabled ==
    ASSUME PortsConsistent, NEW l \in Layers
    PROVE  gui_view_port_find_enabled(l) \in Attached \cup {NULL}
<1> DEFINE on == {i \in DOMAIN layers[l] : is_enabled[layers[l][i]]}
<1>1. layers[l] \in Seq(ViewPorts) /\ DOMAIN layers[l] = 1 .. Len(layers[l]) /\ Len(layers[l]) \in Nat
  BY DEF PortsConsistent
<1>2. CASE on = {}
  BY <1>2 DEF gui_view_port_find_enabled
<1>3. CASE on # {}
  <2>1. \E i \in on : \A j \in on : j <= i
    BY <1>1, <1>3, LastExists
  <2>2. (CHOOSE i \in on : \A j \in on : j <= i) \in on
    BY <2>1
  <2>3. PICK i \in 1 .. Len(layers[l]) : gui_view_port_find_enabled(l) = layers[l][i]
    BY <1>1, <1>3, <2>2 DEF gui_view_port_find_enabled
  <2>4. layers[l][i] \in ViewPorts /\ attached[layers[l][i]]
    BY <1>1, <2>3 DEF PortsConsistent
  <2> QED BY <2>3, <2>4 DEF Attached
<1> QED BY <1>2, <1>3

LEMMA TopAttached ==
    ASSUME PortsConsistent
    PROVE  TopViewPort \in Attached \cup {NULL}
BY FindEnabled, Ports DEF TopViewPort, Above

\* The layers without p.
LEMMA WithoutLayers ==
    ASSUME PortsConsistent, NEW p
    PROVE  /\ Without(p) \in [Layers -> Seq(ViewPorts)]
           /\ \A l \in Layers : IsInjective(Without(p)[l])
           /\ \A l \in Layers : \A i \in 1 .. Len(Without(p)[l]) :
                Without(p)[l][i] # p /\ Without(p)[l][i] \in Attached
<1>1. ASSUME NEW l \in Layers
      PROVE  /\ Without(p)[l] \in Seq(ViewPorts) /\ IsInjective(Without(p)[l])
             /\ \A i \in 1 .. Len(Without(p)[l]) :
                  Without(p)[l][i] # p /\ Without(p)[l][i] \in Attached
  <2> DEFINE s == layers[l]
             w == Without(p)[l]
  <2>1. \/ p \notin ToSet(s) /\ w = s
        \/ \E q \in 1 .. Len(s) : s[q] = p /\ w = RemoveAt(s, q)
    <3>1. w = IF p \in ToSet(s) THEN RemoveAt(s, CHOOSE i \in DOMAIN s : s[i] = p) ELSE s
      BY DEF Without
    <3>2. DOMAIN s = 1 .. Len(s)
      BY DEF PortsConsistent
    <3> QED BY <3>1, <3>2 DEF ToSet
  <2>2. s \in Seq(ViewPorts) /\ IsInjective(s) /\ \A i \in 1 .. Len(s) : attached[s[i]]
    BY DEF PortsConsistent
  <2> HIDE DEF s, w
  <2>3. /\ w \in Seq(ViewPorts) /\ IsInjective(w)
        /\ \A i \in 1 .. Len(w) : w[i] # p /\ \E j \in 1 .. Len(s) : s[j] = w[i]
    BY <2>1, <2>2, LayerWithout
  <2>4. ASSUME NEW i \in 1 .. Len(w) PROVE w[i] # p /\ w[i] \in Attached
    <3>1. PICK j \in 1 .. Len(s) : s[j] = w[i]
      BY <2>3
    <3>2. s[j] \in ViewPorts /\ attached[s[j]]
      BY <2>2
    <3> QED BY <3>1, <3>2, <2>3 DEF Attached
  <2> QED BY <2>3, <2>4 DEF w
<1> QED BY <1>1 DEF Without

\* Moving p to one end of its layer.
LEMMA Reordered ==
    ASSUME PortsConsistent, NEW p \in Attached, NEW m, NEW w,
           w = Append(Without(p)[m], p) \/ w = <<p>> \o Without(p)[m],
           layers' = [Without(p) EXCEPT ![m] = w],
           UNCHANGED <<is_enabled, vertical, attached, lockdown, ongoing_input,
                       ongoing_input_view_port, gui_mutex, gui, gui_event, gui_target>>
    PROVE  PortsConsistent'
<1>1. /\ Without(p) \in [Layers -> Seq(ViewPorts)]
      /\ \A l \in Layers : IsInjective(Without(p)[l])
      /\ \A l \in Layers : \A i \in 1 .. Len(Without(p)[l]) :
           Without(p)[l][i] # p /\ Without(p)[l][i] \in Attached
  BY WithoutLayers
<1>2. ASSUME NEW l \in Layers
      PROVE  /\ layers'[l] \in Seq(ViewPorts) /\ IsInjective(layers'[l])
             /\ \A i \in 1 .. Len(layers'[l]) : layers'[l][i] \in Attached
  <2>1. CASE l # m
    <3>1. layers'[l] = Without(p)[l]
      BY <2>1, <1>1
    <3> QED BY <3>1, <1>1
  <2>2. CASE l = m
    <3> DEFINE s == Without(p)[l]
    <3>1. layers'[l] = w /\ s \in Seq(ViewPorts) /\ IsInjective(s) /\ w \in {Append(s, p), <<p>> \o s}
          /\ p \in ViewPorts /\ \A i \in 1 .. Len(s) : s[i] # p /\ s[i] \in Attached
      BY <2>2, <1>1 DEF Attached
    <3> HIDE DEF s
    <3>2. /\ w \in Seq(ViewPorts) /\ IsInjective(w)
          /\ Extends(w, s, p)
      BY <3>1, OneBehind, OneInFront
    <3> QED BY <3>1, <3>2 DEF Extends
  <2> QED BY <2>1, <2>2
<1>3. layers' \in [Layers -> Seq(ViewPorts)]
  BY <1>1, <1>2
<1>4. \A l \in Layers : \A i \in 1 .. Len(layers'[l]) : attached'[layers'[l][i]]
  BY <1>2 DEF Attached
<1> QED BY <1>2, <1>3, <1>4 DEF PortsConsistent, NoStaleViewPort

\* What does not touch the layers.
LEMMA PortsFlags ==
    ASSUME PortsConsistent,
           is_enabled' \in [ViewPorts -> BOOLEAN], vertical' \in [ViewPorts -> BOOLEAN],
           UNCHANGED <<layers, attached, ongoing_input, ongoing_input_view_port,
                       gui_mutex, gui, gui_event, gui_target>>
    PROVE  PortsConsistent'
BY DEF PortsConsistent, NoStaleViewPort

LEMMA OtherStepPorts ==
    ASSUME PortsConsistent, OtherStep
    PROVE  PortsConsistent'
<1>1. UNCHANGED <<ongoing_input, ongoing_input_view_port, gui_mutex, gui, gui_event, gui_target>>
  BY DEF OtherStep, OtherThread, SystemLocks
<1>2. {is_enabled, vertical} \subseteq [ViewPorts -> BOOLEAN]
  BY DEF PortsConsistent
<1>3. CASE gui_view_port_send_to_front(Menu)
  BY <1>1, <1>3, Ports, Reordered DEF gui_view_port_send_to_front, Attached
<1>4. CASE gui_view_port_send_to_back(Menu)
  BY <1>1, <1>4, Ports, Reordered DEF gui_view_port_send_to_back, Attached
<1>5. CASE /\ view_port_enabled_set(Menu, ~is_enabled[Menu])
           /\ UNCHANGED <<layers, vertical, attached, lockdown>>
  <2>1. is_enabled' \in [ViewPorts -> BOOLEAN]
    BY <1>2, <1>5 DEF view_port_enabled_set
  <2> QED BY <1>1, <1>2, <1>5, <2>1, PortsFlags
<1>6. CASE SystemLocks
  BY <1>1, <1>2, <1>6, PortsFlags DEF SystemLocks, gui_set_lockdown
<1> QED BY <1>3, <1>4, <1>5, <1>6 DEF OtherStep, OtherThread

\* gui_input: whoever is chosen is attached.
LEMMA OwnerAttached ==
    ASSUME PortsConsistent, NEW e
    PROVE  /\ Owner(e) \in Attached \cup {NULL}
           /\ Target(e) \in Attached \cup {NULL}
<1>1. ongoing_input_view_port \in Attached \cup {NULL}
  BY DEF PortsConsistent, NoStaleViewPort, Attached
<1>2. Owner(e) \in Attached \cup {NULL}
  BY <1>1, TopAttached DEF Owner
<1> QED BY <1>2 DEF Target

LEMMA gui_inputPorts ==
    ASSUME VDInv, gui_input
    PROVE  PortsConsistent'
<1> DEFINE e == Head(input_queue)
<1>1. e \in [key : Keys, type : InputType]
  <2>1. input_queue \in Seq([key : Keys, type : InputType]) /\ input_queue # <<>>
    BY DEF VDInv, KeysTypeOK, gui_input, Take
  <2> QED BY <2>1, HeadTailProperties
<1>2. e \in InputEvent /\ e.key \in Keys /\ e.key \in InputKey
  BY <1>1, KeyEventsAssumption DEF InputEvent
<1>3. [e EXCEPT !.key = view_port_rotate_buttons(@)] \in InputEvent
  BY <1>2 DEF InputEvent, view_port_rotate_buttons, InputKey
<1>4. /\ UNCHANGED <<layers, is_enabled, vertical, attached>>
      /\ ongoing_input' = Pressed(e, ongoing_input)
      /\ gui = "wait"
  BY DEF gui_input, portVars
<1>5. PortsConsistent
  BY DEF VDInv
<1>6. ongoing_input' \subseteq Keys
  BY <1>2, <1>4, <1>5 DEF Pressed, PortsConsistent
<1>7. \/ ongoing_input_view_port' = Owner(e)
      \/ ongoing_input_view_port' = ongoing_input_view_port
  BY DEF gui_input
<1>8. \/ /\ Target(e) # NULL /\ gui' = "deliver" /\ gui_mutex' = TRUE /\ gui_target' = Target(e)
         /\ gui_event' \in InputEvent
      \/ UNCHANGED <<gui, gui_mutex, gui_target, gui_event>>
  BY <1>2, <1>3 DEF gui_input, view_port_input
<1> HIDE DEF e
<1>9. ongoing_input_view_port' \in Attached \cup {NULL}
  BY <1>5, <1>7, OwnerAttached DEF PortsConsistent, NoStaleViewPort, Attached
<1>10. Target(e) \in Attached \cup {NULL}
  BY <1>5, OwnerAttached
<1>11. \/ gui' = "wait" /\ gui_mutex' = FALSE /\ gui_target' = NULL /\ gui_event' = NULL
       \/ gui' = "deliver" /\ gui_mutex' = TRUE /\ gui_target' \in Attached /\ gui_event' \in InputEvent
  BY <1>4, <1>5, <1>8, <1>10 DEF PortsConsistent
<1>12. NoStaleViewPort' /\ ongoing_input_view_port' \in ViewPorts \cup {NULL}
       /\ (gui_target' \in Attached => gui_target' \in ViewPorts)
  BY <1>4, <1>9, <1>11 DEF NoStaleViewPort, Attached
<1> QED BY <1>4, <1>5, <1>6, <1>11, <1>12 DEF PortsConsistent

LEMMA gui_unlockPorts ==
    ASSUME PortsConsistent, gui_unlock
    PROVE  PortsConsistent'
BY DEF PortsConsistent, NoStaleViewPort, gui_unlock, portVars

(***************************************************************************)
(* The dispatcher.                                                         *)
(***************************************************************************)
LEMMA MessageTypes ==
    /\ Stop \in Messages /\ Custom \in Messages
    /\ \A e \in InputEvent : Input(e) \in Messages /\ Input(e).type = "Input" /\ Input(e).event = e
    /\ \A m \in Messages : m.type = "Input" => m.event \in InputEvent /\ m = Input(m.event)
<1>1. Stop \in Messages /\ Custom \in Messages
  BY DEF Messages
<1>2. \A e \in InputEvent : Input(e) \in Messages
  BY DEF Messages
<1>3. \A e : Input(e).type = "Input" /\ Input(e).event = e
  BY DEF Input
<1>4. Stop.type # "Input" /\ Custom.type # "Input"
  BY DEF Stop, Custom
<1>5. ASSUME NEW m \in Messages, m.type = "Input" PROVE m.event \in InputEvent /\ m = Input(m.event)
  <2>1. PICK e \in InputEvent : m = Input(e)
    BY <1>4, <1>5 DEF Messages
  <2> QED BY <2>1, <1>3
<1> QED BY <1>1, <1>2, <1>3, <1>5

\* What may become of a queue that has become q.
LEMMA QueueType ==
    ASSUME NEW q \in Seq(Messages), Len(q) <= QueueSize, NEW r,
           r = q \/ (Len(q) < QueueSize /\ \E m \in Messages : r = Append(q, m))
    PROVE  r \in Seq(Messages) /\ Len(r) <= QueueSize
<1>1. Len(q) \in Nat /\ QueueSize \in Nat
  BY ViewDispatcherAssumption
<1>2. CASE r = q
  BY <1>2
<1>3. ASSUME NEW m \in Messages, r = Append(q, m), Len(q) < QueueSize
      PROVE  r \in Seq(Messages) /\ Len(r) <= QueueSize
  <2>1. r \in Seq(Messages) /\ Len(r) = Len(q) + 1
    BY <1>3
  <2> QED BY <2>1, <1>1, <1>3
<1> QED BY <1>2, <1>3

\* Setting a view sends a stop or nothing, and marks the view port.
LEMMA SetCurrentView ==
    ASSUME PortsConsistent, NEW v, NEW q, view_dispatcher_set_current_view(v, q)
    PROVE  /\ current_view' = v
           /\ queue' = q \/ (Len(q) < QueueSize /\ queue' = Append(q, Stop))
           /\ is_enabled' \in [ViewPorts -> BOOLEAN] /\ vertical' \in [ViewPorts -> BOOLEAN]
<1>1. is_enabled \in [ViewPorts -> BOOLEAN] /\ vertical \in [ViewPorts -> BOOLEAN]
  BY DEF PortsConsistent
<1>2. is_enabled' = [is_enabled EXCEPT ![App] = v # NULL]
      /\ vertical' = IF v = NULL THEN vertical ELSE [vertical EXCEPT ![App] = v \in VerticalViews]
  BY DEF view_dispatcher_set_current_view, view_port_enabled_set
<1>3. is_enabled' \in [ViewPorts -> BOOLEAN]
  BY <1>1, <1>2
<1>4. vertical' \in [ViewPorts -> BOOLEAN]
  <2> DEFINE b == v \in VerticalViews
  <2>1. b \in BOOLEAN /\ vertical' = IF v = NULL THEN vertical ELSE [vertical EXCEPT ![App] = b]
    BY <1>2
  <2> HIDE DEF b
  <2> QED BY <1>1, <2>1
<1> QED BY <1>3, <1>4 DEF view_dispatcher_set_current_view

\* So does whatever a view or a callback does.
LEMMA Reacted ==
    ASSUME VDInv, NEW q, Reaction(q)
    PROVE  /\ current_view' \in views \cup {NULL}
           /\ queue' = q \/ (Len(q) < QueueSize /\ queue' = Append(q, Stop))
           /\ is_enabled' \in [ViewPorts -> BOOLEAN] /\ vertical' \in [ViewPorts -> BOOLEAN]
<1>1. PortsConsistent /\ current_view \in views \cup {NULL}
      /\ is_enabled \in [ViewPorts -> BOOLEAN] /\ vertical \in [ViewPorts -> BOOLEAN]
  BY DEF VDInv, AppConsistent, PortsConsistent
<1>2. CASE UNCHANGED <<current_view, is_enabled, vertical>>
           /\ (queue' = q \/ (Len(q) < QueueSize /\ queue' = Append(q, Stop)))
  BY <1>1, <1>2
<1>3. ASSUME NEW v \in views \cup {NULL}, view_dispatcher_set_current_view(v, q)
      PROVE  /\ current_view' \in views \cup {NULL}
             /\ queue' = q \/ (Len(q) < QueueSize /\ queue' = Append(q, Stop))
             /\ is_enabled' \in [ViewPorts -> BOOLEAN] /\ vertical' \in [ViewPorts -> BOOLEAN]
  BY <1>1, <1>3, SetCurrentView
<1> QED BY <1>2, <1>3 DEF Reaction

\* The application's thread handles a message, a tick, or sets a view: the
\* gui's part is left alone except for the marks of the view port.
AppMoves ==
    /\ UNCHANGED <<stage, long, input_queue, layers, attached, ongoing_input,
                   ongoing_input_view_port, gui_mutex, gui, gui_event, gui_target>>
    /\ is_enabled' \in [ViewPorts -> BOOLEAN] /\ vertical' \in [ViewPorts -> BOOLEAN]
    /\ app \in {"setup", "run", "drain", "stopped"} /\ app' \in {"setup", "run", "drain", "stopped"}

LEMMA AppMovesInv ==
    ASSUME VDInv, AppMoves,
           views' \subseteq Views, {current_view', ongoing_input_view'} \subseteq views' \cup {NULL},
           vd_ongoing_input' \subseteq InputKey,
           NEW q \in Seq(Messages), Len(q) <= QueueSize,
           queue' = q \/ (Len(q) < QueueSize /\ \E m \in Messages : queue' = Append(q, m))
    PROVE  VDInv'
<1>1. KeysTypeOK'
  BY DEF VDInv, KeysTypeOK, AppMoves
<1>2. PortsConsistent'
  BY PortsFlags DEF VDInv, AppMoves
<1>3. queue' \in Seq(Messages) /\ Len(queue') <= QueueSize
  BY QueueType
<1>4. attached'[App] <=> app' # "none"
  BY DEF VDInv, AppConsistent, AppMoves
<1>5. Messages' = Messages
  BY DEF Messages, Stop, Custom, Input
<1>6. app' \in {"none", "setup", "run", "drain", "stopped"}
  BY DEF AppMoves
<1>7. AppConsistent'
  BY <1>3, <1>4, <1>5, <1>6 DEF AppConsistent
<1> QED BY <1>1, <1>2, <1>7 DEF VDInv

\* Where the gui's part of an action names what it leaves alone.
LEMMA Frames ==
    /\ UNCHANGED keyVars <=> UNCHANGED <<stage, long, input_queue>>
    /\ UNCHANGED guiVars <=>
         UNCHANGED <<layers, is_enabled, vertical, attached, lockdown, ongoing_input,
                     ongoing_input_view_port, gui_mutex, gui, gui_event, gui_target>>
    /\ UNCHANGED dispatcherVars <=>
         UNCHANGED <<app, views, current_view, ongoing_input_view, vd_ongoing_input, queue>>
    /\ UNCHANGED guiNow <=>
         UNCHANGED <<stage, long, input_queue, lockdown, ongoing_input, gui_mutex, gui,
                     gui_event, gui_target>>
    /\ UNCHANGED guiRest <=> UNCHANGED guiNow /\ UNCHANGED events
BY DEF keyVars, guiVars, portVars, dispatcherVars, guiNow, guiRest

LEMMA DispatcherFrame ==
    ASSUME VDInv, UNCHANGED dispatcherVars, attached'[App] = attached[App]
    PROVE  AppConsistent'
<1>1. Messages' = Messages
  BY DEF Messages, Stop, Custom, Input
<1> QED BY <1>1 DEF VDInv, AppConsistent, dispatcherVars

LEMMA GuiFrame ==
    ASSUME VDInv, UNCHANGED guiVars
    PROVE  PortsConsistent' /\ attached'[App] = attached[App]
BY Frames DEF VDInv, PortsConsistent, NoStaleViewPort

\* Publishing an event of a key.
LEMMA PublishType ==
    ASSUME KeysTypeOK, NEW k \in Keys, NEW t \in InputType, Publish(k, t)
    PROVE  /\ input_queue' \in Seq([key : Keys, type : InputType])
           /\ Len(input_queue') <= InputQueueSize
<1>1. Event(k, t) \in [key : Keys, type : InputType]
  BY DEF Event
<1>2. input_queue \in Seq([key : Keys, type : InputType]) /\ Len(input_queue) \in Nat
      /\ InputQueueSize \in Nat /\ Len(input_queue) < InputQueueSize
      /\ input_queue' = Append(input_queue, Event(k, t))
  BY KeyEventsAssumption DEF KeysTypeOK, Publish
<1>3. \A S : \A s \in Seq(S), e \in S : Append(s, e) \in Seq(S) /\ Len(Append(s, e)) = Len(s) + 1
  OBVIOUS
<1>4. input_queue' \in Seq([key : Keys, type : InputType]) /\ Len(input_queue') = Len(input_queue) + 1
  BY <1>1, <1>2, <1>3
<1> QED BY <1>2, <1>4

LEMMA KeyPreserves ==
    ASSUME VDInv, NEW k \in Keys, Presses(k) \/ Holds(k) \/ Follows(k)
    PROVE  VDInv'
<1>1. /\ KeysTypeOK
      /\ stage \in [Keys -> {"up", "press", "down", "short", "release"}]
      /\ long \in [Keys -> BOOLEAN]
      /\ UNCHANGED guiVars /\ UNCHANGED dispatcherVars
  BY Frames DEF VDInv, KeysTypeOK, Presses, Holds, Follows
<1>2. \A t \in {"Press", "Long", "Repeat", "Short", "Release"} : t \in InputType
  BY DEF InputType
<1>3. ASSUME Down(k) PROVE KeysTypeOK'
  BY <1>1, <1>3 DEF KeysTypeOK, Down, Goes
<1>4. ASSUME Long(k) PROVE KeysTypeOK'
  BY <1>1, <1>2, <1>4, PublishType DEF KeysTypeOK, Long
<1>5. ASSUME Repeat(k) PROVE KeysTypeOK'
  BY <1>1, <1>2, <1>5, PublishType DEF KeysTypeOK, Repeat
<1>6. ASSUME Up(k) PROVE KeysTypeOK'
  BY <1>1, <1>6 DEF KeysTypeOK, Up, Goes
<1>7. ASSUME Press(k) PROVE KeysTypeOK'
  BY <1>1, <1>2, <1>7, PublishType DEF KeysTypeOK, Press, Goes
<1>8. ASSUME Short(k) PROVE KeysTypeOK'
  BY <1>1, <1>2, <1>8, PublishType DEF KeysTypeOK, Short, Goes
<1>9. ASSUME Release(k) PROVE KeysTypeOK'
  BY <1>1, <1>2, <1>9, PublishType DEF KeysTypeOK, Release, Goes
<1>10. KeysTypeOK'
  BY <1>3, <1>4, <1>5, <1>6, <1>7, <1>8, <1>9 DEF Presses, Holds, Follows, Due
<1> QED BY <1>1, <1>10, GuiFrame, DispatcherFrame DEF VDInv

LEMMA GuiPreserves ==
    ASSUME VDInv, GuiStep
    PROVE  VDInv'
<1>1. KeysTypeOK /\ PortsConsistent /\ AppConsistent
  BY DEF VDInv
<1>2. CASE gui_input /\ UNCHANGED <<dispatcherVars, events>>
  <2>1. PortsConsistent'
    BY <1>2, gui_inputPorts
  <2>2. KeysTypeOK'
    <3>1. /\ input_queue \in Seq([key : Keys, type : InputType]) /\ input_queue # <<>>
          /\ Len(input_queue) <= InputQueueSize /\ InputQueueSize \in Nat
          /\ input_queue' = Tail(input_queue) /\ UNCHANGED <<stage, long>>
      BY <1>1, <1>2, KeyEventsAssumption DEF KeysTypeOK, gui_input, Take
    <3>2. \A S : \A s \in Seq(S) : s # <<>> => Tail(s) \in Seq(S) /\ Len(Tail(s)) = Len(s) - 1
                                               /\ Len(s) \in Nat
      BY HeadTailProperties
    <3>3. input_queue' \in Seq([key : Keys, type : InputType])
          /\ Len(input_queue') = Len(input_queue) - 1 /\ Len(input_queue) \in Nat
      BY <3>1, <3>2
    <3> QED BY <1>1, <3>1, <3>3 DEF KeysTypeOK
  <2>3. attached'[App] = attached[App] /\ UNCHANGED dispatcherVars
    BY <1>2 DEF gui_input, portVars
  <2> QED BY <2>1, <2>2, <2>3, DispatcherFrame DEF VDInv
<1>3. CASE view_dispatcher_input_callback
  <2>1. /\ gui_unlock /\ Len(queue) < QueueSize /\ queue' = Append(queue, Input(gui_event))
        /\ UNCHANGED <<app, views, current_view, ongoing_input_view, vd_ongoing_input>>
        /\ gui_target = App
    BY <1>3 DEF view_dispatcher_input_callback
  <2>2. PortsConsistent' /\ KeysTypeOK' /\ attached' = attached
    BY <1>1, <2>1, gui_unlockPorts DEF gui_unlock, KeysTypeOK, keyVars, portVars
  <2>3. Input(gui_event) \in Messages
    <3>1. gui_event \in InputEvent
      BY <1>1, <2>1, Ports DEF PortsConsistent
    <3> QED BY <3>1, MessageTypes
  <2>4. queue \in Seq(Messages) /\ Len(queue) <= QueueSize
    BY <1>1 DEF AppConsistent
  <2>5. queue' \in Seq(Messages) /\ Len(queue') <= QueueSize
    BY <2>1, <2>3, <2>4, QueueType
  <2>6. Messages' = Messages
    BY DEF Messages, Stop, Custom, Input
  <2>7. AppConsistent'
    BY <1>1, <2>1, <2>2, <2>5, <2>6 DEF AppConsistent
  <2> QED BY <2>2, <2>7 DEF VDInv
<1>4. CASE OtherInputCallback
  <2>1. gui_unlock /\ UNCHANGED dispatcherVars
    BY <1>4 DEF OtherInputCallback
  <2>2. PortsConsistent' /\ KeysTypeOK' /\ attached' = attached
    BY <1>1, <2>1, gui_unlockPorts DEF gui_unlock, KeysTypeOK, keyVars, portVars
  <2> QED BY <2>1, <2>2, DispatcherFrame DEF VDInv
<1> QED BY <1>2, <1>3, <1>4 DEF GuiStep

LEMMA OtherPreserves ==
    ASSUME VDInv, OtherStep
    PROVE  VDInv'
<1>1. PortsConsistent'
  BY OtherStepPorts DEF VDInv
<1>2. UNCHANGED keyVars /\ UNCHANGED dispatcherVars /\ UNCHANGED attached
  BY DEF OtherStep, OtherThread, SystemLocks, gui_view_port_send_to_front,
         gui_view_port_send_to_back, gui_set_lockdown
<1>3. KeysTypeOK'
  BY <1>2 DEF VDInv, KeysTypeOK, keyVars
<1> QED BY <1>1, <1>2, <1>3, DispatcherFrame DEF VDInv

\* The queue as it is, and without its head.
LEMMA QueueHead ==
    ASSUME VDInv, queue # <<>>
    PROVE  /\ Head(queue) \in Messages
           /\ Tail(queue) \in Seq(Messages) /\ Len(Tail(queue)) = Len(queue) - 1
           /\ Len(Tail(queue)) <= QueueSize
           /\ \A i \in 1 .. Len(queue) - 1 : Tail(queue)[i] = queue[i + 1]
           /\ Head(queue) = queue[1] /\ Len(queue) \in Nat \ {0}
<1>1. queue \in Seq(Messages) /\ Len(queue) <= QueueSize /\ QueueSize \in Nat
  BY ViewDispatcherAssumption DEF VDInv, AppConsistent
<1> QED BY <1>1, HeadTailProperties

LEMMA PressedKeys ==
    ASSUME NEW e \in InputEvent, NEW K, K \subseteq InputKey
    PROVE  Pressed(e, K) \subseteq InputKey
BY DEF InputEvent, Pressed

\* The application's thread, while its view port is attached.
LEMMA AppPreserves ==
    ASSUME VDInv,
           \/ view_dispatcher_send_custom_event
           \/ \E v \in Views : view_dispatcher_add_view(v) \/ view_dispatcher_remove_view(v)
           \/ view_dispatcher_switch_to_view
           \/ view_dispatcher_handle_tick_event
    PROVE  VDInv'
<1>1. /\ views \subseteq Views /\ current_view \in views \cup {NULL}
      /\ ongoing_input_view \in views \cup {NULL} /\ vd_ongoing_input \subseteq InputKey
      /\ queue \in Seq(Messages) /\ Len(queue) <= QueueSize
      /\ PortsConsistent
      /\ is_enabled \in [ViewPorts -> BOOLEAN] /\ vertical \in [ViewPorts -> BOOLEAN]
  BY DEF VDInv, AppConsistent, PortsConsistent
<1>2. CASE view_dispatcher_send_custom_event
  <2>1. AppMoves
    BY <1>1, <1>2, Frames DEF view_dispatcher_send_custom_event, AppMoves
  <2>2. /\ UNCHANGED <<views, current_view, ongoing_input_view, vd_ongoing_input>>
        /\ Len(queue) < QueueSize /\ queue' = Append(queue, Custom)
    BY <1>2 DEF view_dispatcher_send_custom_event
  <2> QED BY <1>1, <2>1, <2>2, MessageTypes, AppMovesInv
<1>3. ASSUME NEW v \in Views, view_dispatcher_add_view(v) PROVE VDInv'
  <2>1. AppMoves
    BY <1>1, <1>3, Frames DEF view_dispatcher_add_view, AppMoves
  <2>2. UNCHANGED <<current_view, ongoing_input_view, vd_ongoing_input, queue>>
        /\ views' = views \cup {v}
    BY <1>3 DEF view_dispatcher_add_view
  <2> QED BY <1>1, <2>1, <2>2, AppMovesInv
<1>4. ASSUME NEW v \in Views, view_dispatcher_remove_view(v) PROVE VDInv'
  <2>1. /\ current_view' = IF current_view = v THEN NULL ELSE current_view
        /\ queue' = queue \/ (Len(queue) < QueueSize /\ queue' = Append(queue, Stop))
        /\ is_enabled' \in [ViewPorts -> BOOLEAN] /\ vertical' \in [ViewPorts -> BOOLEAN]
    BY <1>1, <1>4, SetCurrentView DEF view_dispatcher_remove_view
  <2>2. AppMoves
    BY <1>4, <2>1, Frames DEF view_dispatcher_remove_view, AppMoves
  <2>3. /\ UNCHANGED vd_ongoing_input /\ views' = views \ {v}
        /\ ongoing_input_view' = IF ongoing_input_view = v THEN NULL ELSE ongoing_input_view
    BY <1>4 DEF view_dispatcher_remove_view
  <2> QED BY <1>1, <2>1, <2>2, <2>3, MessageTypes, AppMovesInv
<1>5. CASE view_dispatcher_switch_to_view
  <2>1. /\ current_view' = FirstView
        /\ queue' = queue \/ (Len(queue) < QueueSize /\ queue' = Append(queue, Stop))
        /\ is_enabled' \in [ViewPorts -> BOOLEAN] /\ vertical' \in [ViewPorts -> BOOLEAN]
    BY <1>1, <1>5, SetCurrentView DEF view_dispatcher_switch_to_view
  <2>2. AppMoves
    BY <1>5, <2>1, Frames DEF view_dispatcher_switch_to_view, AppMoves
  <2>3. UNCHANGED <<views, ongoing_input_view, vd_ongoing_input>> /\ FirstView \in views
    BY <1>5, ViewDispatcherAssumption DEF view_dispatcher_switch_to_view
  <2> QED BY <1>1, <2>1, <2>2, <2>3, MessageTypes, AppMovesInv
<1>6. CASE view_dispatcher_handle_tick_event
  <2>1. /\ current_view' \in views \cup {NULL}
        /\ queue' = queue \/ (Len(queue) < QueueSize /\ queue' = Append(queue, Stop))
        /\ is_enabled' \in [ViewPorts -> BOOLEAN] /\ vertical' \in [ViewPorts -> BOOLEAN]
    BY <1>6, Reacted DEF view_dispatcher_handle_tick_event
  <2>2. AppMoves
    BY <1>6, <2>1, Frames DEF view_dispatcher_handle_tick_event, AppMoves
  <2>3. UNCHANGED <<views, ongoing_input_view, vd_ongoing_input>>
    BY <1>6 DEF view_dispatcher_handle_tick_event
  <2> QED BY <1>1, <2>1, <2>2, <2>3, MessageTypes, AppMovesInv
<1> QED BY <1>2, <1>3, <1>4, <1>5, <1>6

\* An event the dispatcher gives to a view, or not.
LEMMA HandledInput ==
    ASSUME VDInv, NEW e \in InputEvent, NEW q, view_dispatcher_handle_input(e, q)
    PROVE  /\ {current_view', ongoing_input_view'} \subseteq views \cup {NULL}
           /\ vd_ongoing_input' = Pressed(e, vd_ongoing_input)
           /\ queue' = q \/ (Len(q) < QueueSize /\ queue' = Append(q, Stop))
           /\ is_enabled' \in [ViewPorts -> BOOLEAN] /\ vertical' \in [ViewPorts -> BOOLEAN]
<1>1. /\ current_view \in views \cup {NULL} /\ ongoing_input_view \in views \cup {NULL}
      /\ is_enabled \in [ViewPorts -> BOOLEAN] /\ vertical \in [ViewPorts -> BOOLEAN]
  BY DEF VDInv, AppConsistent, PortsConsistent
<1>2. vd_ongoing_input' = Pressed(e, vd_ongoing_input)
  BY DEF view_dispatcher_handle_input
<1>3. ongoing_input_view' \in {current_view, ongoing_input_view}
  BY DEF view_dispatcher_handle_input
<1>4. Reaction(q) \/ (queue' = q /\ UNCHANGED <<current_view, is_enabled, vertical>>)
  BY DEF view_dispatcher_handle_input
<1> QED BY <1>1, <1>2, <1>3, <1>4, Reacted

LEMMA RunPreserves ==
    ASSUME VDInv, AppRuns
    PROVE  VDInv'
<1>1. /\ views \subseteq Views /\ current_view \in views \cup {NULL}
      /\ ongoing_input_view \in views \cup {NULL} /\ vd_ongoing_input \subseteq InputKey
      /\ queue \in Seq(Messages) /\ Len(queue) <= QueueSize
      /\ is_enabled \in [ViewPorts -> BOOLEAN] /\ vertical \in [ViewPorts -> BOOLEAN]
  BY DEF VDInv, AppConsistent, PortsConsistent
<1>2. CASE view_dispatcher_run
  <2> DEFINE m == Head(queue)
             q == Tail(queue)
  <2>1. queue # <<>> /\ app = "run" /\ UNCHANGED <<guiRest, layers, attached, ongoing_input_view_port, views>>
    BY <1>2 DEF view_dispatcher_run
  <2>2. m \in Messages /\ q \in Seq(Messages) /\ Len(q) <= QueueSize
    BY <2>1, QueueHead
  <2>3. \/ m.type = "Stop" /\ app' = "drain" /\ queue' = q
           /\ UNCHANGED <<vd_ongoing_input, ongoing_input_view, current_view, is_enabled, vertical>>
        \/ m.type = "Input" /\ view_dispatcher_handle_input(m.event, q) /\ UNCHANGED app
        \/ m.type = "Custom" /\ Reaction(q) /\ UNCHANGED <<app, vd_ongoing_input, ongoing_input_view>>
    BY <1>2 DEF view_dispatcher_run
  <2> HIDE DEF m, q
  <2>4. /\ {current_view', ongoing_input_view'} \subseteq views \cup {NULL}
        /\ vd_ongoing_input' \subseteq InputKey
        /\ queue' = q \/ (Len(q) < QueueSize /\ queue' = Append(q, Stop))
        /\ is_enabled' \in [ViewPorts -> BOOLEAN] /\ vertical' \in [ViewPorts -> BOOLEAN]
        /\ app' \in {"run", "drain"}
    <3>1. CASE m.type = "Stop" /\ app' = "drain" /\ queue' = q
               /\ UNCHANGED <<vd_ongoing_input, ongoing_input_view, current_view, is_enabled, vertical>>
      BY <1>1, <3>1
    <3>2. CASE m.type = "Input" /\ view_dispatcher_handle_input(m.event, q) /\ UNCHANGED app
      <4>1. m.event \in InputEvent
        BY <2>2, <3>2, MessageTypes
      <4> QED BY <1>1, <2>1, <3>2, <4>1, HandledInput, PressedKeys
    <3>3. CASE m.type = "Custom" /\ Reaction(q) /\ UNCHANGED <<app, vd_ongoing_input, ongoing_input_view>>
      BY <1>1, <2>1, <3>3, Reacted
    <3> QED BY <2>3, <3>1, <3>2, <3>3
  <2>5. AppMoves
    BY <2>1, <2>4, Frames DEF AppMoves
  <2> QED BY <1>1, <2>1, <2>2, <2>4, <2>5, MessageTypes, AppMovesInv
<1>3. CASE Drain
  <2>1. AppMoves
    BY <1>1, <1>3, Frames DEF Drain, AppMoves
  <2>2. UNCHANGED <<views, current_view, ongoing_input_view>>
    BY <1>3 DEF Drain
  <2>3. CASE UNCHANGED <<vd_ongoing_input, queue>>
    BY <1>1, <2>1, <2>2, <2>3, AppMovesInv
  <2>4. CASE /\ queue # <<>> /\ queue' = Tail(queue)
             /\ vd_ongoing_input' = IF Head(queue).type = "Input"
                                    THEN Pressed(Head(queue).event, vd_ongoing_input)
                                    ELSE vd_ongoing_input
    <3>1. Head(queue) \in Messages /\ Tail(queue) \in Seq(Messages) /\ Len(Tail(queue)) <= QueueSize
      BY <2>4, QueueHead
    <3>2. vd_ongoing_input' \subseteq InputKey
      BY <1>1, <2>4, <3>1, MessageTypes, PressedKeys
    <3> QED BY <1>1, <2>1, <2>2, <2>4, <3>1, <3>2, AppMovesInv
  <2> QED BY <1>3, <2>3, <2>4 DEF Drain
<1> QED BY <1>2, <1>3 DEF AppRuns

LEMMA AttachPreserves ==
    ASSUME VDInv, view_dispatcher_attach_to_gui
    PROVE  VDInv'
<1>1. /\ app = "none" /\ app' = "setup" /\ ~attached[App]
      /\ layers' = [layers EXCEPT !["Fullscreen"] = Append(@, App)]
      /\ attached' = [attached EXCEPT ![App] = TRUE]
      /\ is_enabled' = [is_enabled EXCEPT ![App] = FALSE]
      /\ vertical' = [vertical EXCEPT ![App] = FALSE]
      /\ UNCHANGED <<stage, long, input_queue, lockdown, ongoing_input, gui_mutex, gui,
                     gui_event, gui_target, ongoing_input_view_port, views, current_view,
                     ongoing_input_view, vd_ongoing_input, queue>>
  BY Frames DEF view_dispatcher_attach_to_gui, gui_add_view_port, view_port_enabled_set,
         VDInv, AppConsistent
<1>2. PortsConsistent /\ KeysTypeOK /\ AppConsistent
  BY DEF VDInv
<1>3. /\ layers \in [Layers -> Seq(ViewPorts)]
      /\ is_enabled \in [ViewPorts -> BOOLEAN] /\ vertical \in [ViewPorts -> BOOLEAN]
      /\ attached \in [ViewPorts -> BOOLEAN]
      /\ \A l \in Layers : IsInjective(layers[l])
      /\ \A l \in Layers : \A i \in 1 .. Len(layers[l]) : attached[layers[l][i]] /\ layers[l][i] \in ViewPorts
  BY <1>2, ElementOfSeq DEF PortsConsistent
<1>4. /\ is_enabled' \in [ViewPorts -> BOOLEAN] /\ vertical' \in [ViewPorts -> BOOLEAN]
      /\ attached' \in [ViewPorts -> BOOLEAN]
      /\ attached'[App] = TRUE /\ \A p \in ViewPorts : attached[p] => attached'[p]
  BY <1>1, <1>3, Ports
<1>5. ASSUME NEW l \in Layers
      PROVE  /\ layers'[l] \in Seq(ViewPorts) /\ IsInjective(layers'[l])
             /\ \A i \in 1 .. Len(layers'[l]) : attached'[layers'[l][i]]
  <2>1. CASE l # "Fullscreen"
    <3>1. layers'[l] = layers[l]
      BY <1>1, <1>3, <2>1
    <3> QED BY <1>3, <1>4, <3>1
  <2>2. CASE l = "Fullscreen"
    <3> DEFINE s == layers[l]
               w == layers'[l]
    <3>1. s \in Seq(ViewPorts) /\ IsInjective(s) /\ w = Append(s, App) /\ App \in ViewPorts
          /\ \A i \in 1 .. Len(s) : s[i] # App /\ s[i] \in ViewPorts /\ attached[s[i]]
      BY <1>1, <1>3, <2>2, Ports
    <3> HIDE DEF s, w
    <3>2. w \in Seq(ViewPorts) /\ IsInjective(w) /\ Extends(w, s, App)
      BY <3>1, OneBehind
    <3>3. \A i \in 1 .. Len(w) : attached'[w[i]]
      BY <1>4, <3>1, <3>2 DEF Extends
    <3> QED BY <3>2, <3>3 DEF w
  <2> QED BY <2>1, <2>2
<1>6. layers' \in [Layers -> Seq(ViewPorts)]
  BY <1>1, <1>3, <1>5
<1>7. NoStaleViewPort' /\ ongoing_input_view_port' \in ViewPorts \cup {NULL}
  BY <1>1, <1>2, <1>4 DEF PortsConsistent, NoStaleViewPort
<1>8. PortsConsistent'
  BY <1>1, <1>2, <1>4, <1>5, <1>6, <1>7 DEF PortsConsistent
<1>9. Messages' = Messages
  BY DEF Messages, Stop, Custom, Input
<1>10. AppConsistent'
  BY <1>1, <1>2, <1>4, <1>9 DEF AppConsistent
<1>11. KeysTypeOK'
  BY <1>1, <1>2 DEF KeysTypeOK
<1> QED BY <1>8, <1>10, <1>11 DEF VDInv

LEMMA FreePreserves ==
    ASSUME VDInv, view_dispatcher_free
    PROVE  VDInv'
<1>1. /\ app' = "none" /\ queue' = <<>> /\ vd_ongoing_input' = {} /\ ~gui_mutex
      /\ layers' = Without(App) /\ attached' = [attached EXCEPT ![App] = FALSE]
      /\ ongoing_input_view_port' =
            IF ongoing_input_view_port = App THEN NULL ELSE ongoing_input_view_port
      /\ UNCHANGED <<stage, long, input_queue, lockdown, ongoing_input, gui_mutex, gui,
                     gui_event, gui_target, is_enabled, vertical, views, current_view,
                     ongoing_input_view>>
  BY Frames DEF view_dispatcher_free, gui_remove_view_port
<1>2. PortsConsistent /\ KeysTypeOK /\ AppConsistent
  BY DEF VDInv
<1>3. /\ layers' \in [Layers -> Seq(ViewPorts)]
      /\ \A l \in Layers : IsInjective(layers'[l])
      /\ \A l \in Layers : \A i \in 1 .. Len(layers'[l]) :
           layers'[l][i] # App /\ layers'[l][i] \in Attached
  BY <1>1, <1>2, WithoutLayers
<1>4. /\ attached' \in [ViewPorts -> BOOLEAN] /\ attached'[App] = FALSE
      /\ \A p \in Attached : p # App => attached'[p]
  BY <1>1, <1>2, Ports DEF PortsConsistent, Attached
<1>5. gui' = "wait" /\ gui_mutex' = FALSE /\ gui_target' = NULL /\ gui_event' = NULL
  BY <1>1, <1>2 DEF PortsConsistent
<1>6. /\ ongoing_input_view_port' \in ViewPorts \cup {NULL}
      /\ ongoing_input_view_port' # NULL => attached'[ongoing_input_view_port']
  BY <1>1, <1>2, <1>4 DEF PortsConsistent, NoStaleViewPort, Attached
<1>7. PortsConsistent'
  <2>1. \A l \in Layers : \A i \in 1 .. Len(layers'[l]) : attached'[layers'[l][i]]
    BY <1>3, <1>4
  <2>2. {is_enabled', vertical', attached'} \subseteq [ViewPorts -> BOOLEAN] /\ ongoing_input' \subseteq Keys
    BY <1>1, <1>2, <1>4 DEF PortsConsistent
  <2> QED BY <1>3, <1>5, <1>6, <2>1, <2>2 DEF PortsConsistent, NoStaleViewPort
<1>8. queue' \in Seq(Messages') /\ Len(queue') <= QueueSize
  BY <1>1, ViewDispatcherAssumption
<1>9. AppConsistent'
  BY <1>1, <1>2, <1>4, <1>8 DEF AppConsistent
<1>10. KeysTypeOK'
  BY <1>1, <1>2 DEF KeysTypeOK
<1> QED BY <1>7, <1>9, <1>10 DEF VDInv

LEMMA VDInvInit ==
    ASSUME VDInit
    PROVE  VDInv
<1>1. /\ stage \in [Keys -> {"up", "press", "down", "short", "release"}]
      /\ long \in [Keys -> BOOLEAN] /\ input_queue = <<>>
  BY DEF VDInit, KeyInit
<1>2. KeysTypeOK
  BY <1>1, KeyEventsAssumption DEF KeysTypeOK
<1>3. layers = [Desktop |-> <<Desktop>>, Window |-> <<>>, Fullscreen |-> <<Menu>>]
  BY DEF VDInit
<1>4. /\ attached[Desktop] /\ attached[Menu] /\ ~attached[App]
      /\ attached \in [ViewPorts -> BOOLEAN]
  BY Ports, ViewDispatcherAssumption DEF VDInit
<1>5. ASSUME NEW l \in Layers
      PROVE  /\ layers[l] \in Seq(ViewPorts) /\ IsInjective(layers[l])
             /\ \A i \in 1 .. Len(layers[l]) : attached[layers[l][i]]
  <2>1. layers[l] \in {<<>>, <<Desktop>>, <<Menu>>}
    BY <1>3 DEF Layers
  <2>2. ASSUME NEW p \in {Desktop, Menu}
        PROVE  /\ <<p>> \in Seq(ViewPorts) /\ IsInjective(<<p>>)
               /\ \A i \in 1 .. Len(<<p>>) : attached[<<p>>[i]]
    BY <1>4, Ports DEF IsInjective
  <2>3. <<>> \in Seq(ViewPorts) /\ IsInjective(<<>>) /\ 1 .. Len(<<>>) = {}
    BY DEF IsInjective
  <2>4. CASE layers[l] = <<>>
    BY <2>3, <2>4
  <2>5. CASE layers[l] \in {<<Desktop>>, <<Menu>>}
    BY <2>2, <2>5
  <2> QED BY <2>1, <2>4, <2>5
<1>6. layers \in [Layers -> Seq(ViewPorts)]
  <2>1. DOMAIN layers = Layers /\ layers = [l \in DOMAIN layers |-> layers[l]]
    BY <1>3 DEF Layers
  <2> QED BY <1>5, <2>1
<1>7. is_enabled \in [ViewPorts -> BOOLEAN] /\ vertical \in [ViewPorts -> BOOLEAN]
  BY DEF VDInit
<1>8. PortsConsistent
  BY <1>4, <1>5, <1>6, <1>7 DEF PortsConsistent, NoStaleViewPort, VDInit, gui_alloc
<1>9. AppConsistent
  BY <1>4, ViewDispatcherAssumption DEF AppConsistent, VDInit
<1> QED BY <1>2, <1>8, <1>9 DEF VDInv

\* The gui and the dispatcher are consistent with one another in every state.
THEOREM VDInvariant == VDSpec => []VDInv
<1>1. VDInit => VDInv
  BY VDInvInit
<1>2. VDInv /\ [VDNext]_vars => VDInv'
  <2> SUFFICES ASSUME VDInv, [VDNext]_vars PROVE VDInv'
    OBVIOUS
  <2>1. CASE UNCHANGED vars
    <3>1. UNCHANGED keyVars /\ UNCHANGED guiVars /\ UNCHANGED dispatcherVars
      BY <2>1 DEF vars
    <3>2. KeysTypeOK'
      BY <3>1 DEF VDInv, KeysTypeOK, keyVars
    <3> QED BY <3>1, <3>2, GuiFrame, DispatcherFrame DEF VDInv
  <2>2. CASE VDNext
    BY <2>2, KeyPreserves, GuiPreserves, OtherPreserves, AppPreserves, RunPreserves,
       AttachPreserves, FreePreserves DEF VDNext, AppStep
  <2> QED BY <2>1, <2>2
<1> QED BY <1>1, <1>2, PTL DEF VDSpec

\* The gui never calls a view port that was removed (view_port.c:122).
THEOREM GuiCallsLivePorts == VDSpec => []NoStaleViewPort
<1>1. VDInv => NoStaleViewPort
  BY DEF VDInv, PortsConsistent
<1> QED BY <1>1, VDInvariant, PTL

\* The dispatcher never calls a view that was removed, and the queues keep to
\* their sizes.
THEOREM DispatcherCallsLiveViews == VDSpec => []NoStaleView
<1>1. ASSUME VDInv PROVE NoStaleView
  <2>1. \A i \in DOMAIN input_queue : input_queue[i] \in InputEvent
    <3>1. input_queue \in Seq([key : Keys, type : InputType])
      BY <1>1 DEF VDInv, KeysTypeOK
    <3>2. \A S : \A s \in Seq(S) : \A i \in DOMAIN s : s[i] \in S
      OBVIOUS
    <3>3. [key : Keys, type : InputType] \subseteq InputEvent
      BY KeyEventsAssumption DEF InputEvent
    <3> QED BY <3>1, <3>2, <3>3
  <2>2. VDTypeOK
    BY <1>1, <2>1, Ports DEF VDTypeOK, VDInv, KeysTypeOK, PortsConsistent, AppConsistent
  <2>3. NoStaleViewPort
    BY <1>1 DEF VDInv, PortsConsistent
  <2> QED BY <1>1, <2>2, <2>3, Ports DEF NoStaleView, VDInv, AppConsistent
<1> QED BY <1>1, VDInvariant, PTL

(***************************************************************************)
(* Releases.  Two lemmas on a queue s of the gui's, for one key: up says   *)
(* that no event of its press is due, on that the gui has it as down.      *)
(***************************************************************************)
Released(s, k, from, to) == \E i \in from .. to : s[i] = Event(k, "Release")

InTurn(s, k, up, on) ==
    /\ \A i \in 1 .. Len(s) : s[i] = Event(k, "Press") =>
         /\ \A j \in i + 1 .. Len(s) : s[j] = Event(k, "Press") => Released(s, k, i + 1, j - 1)
         /\ on => Released(s, k, 1, i - 1)
         /\ up => Released(s, k, i + 1, Len(s))
    /\ up /\ on => Released(s, k, 1, Len(s))

LEMMA AppendInTurn ==
    ASSUME NEW S, NEW s \in Seq(S), NEW e \in S, NEW k,
           NEW up \in BOOLEAN, NEW on \in BOOLEAN, NEW up2 \in BOOLEAN,
           InTurn(s, k, up, on),
           e = Event(k, "Press") => up /\ ~up2,
           up2 => up \/ e = Event(k, "Release")
    PROVE  InTurn(Append(s, e), k, up2, on)
<1> DEFINE w == Append(s, e)
           n == Len(s)
<1>1. /\ n \in Nat /\ Len(w) = n + 1 /\ w[n + 1] = e
      /\ \A i \in 1 .. n : w[i] = s[i]
  OBVIOUS
<1> HIDE DEF w, n
<1>2. \A a, b \in Int : a >= 1 /\ b <= n /\ Released(s, k, a, b) => Released(w, k, a, b)
  <2>1. ASSUME NEW a \in Int, NEW b \in Int, a >= 1, b <= n, NEW i \in a .. b
        PROVE  i \in 1 .. n
    BY <1>1, <2>1
  <2> QED BY <1>1, <2>1 DEF Released
<1>3. \A a, b, c \in Int : Released(w, k, a, b) /\ b <= c => Released(w, k, a, c)
  <2>1. ASSUME NEW a \in Int, NEW b \in Int, NEW c \in Int, b <= c, NEW i \in a .. b
        PROVE  i \in a .. c
    BY <2>1
  <2> QED BY <2>1 DEF Released
<1>4. ASSUME NEW i \in 1 .. n, w[i] = Event(k, "Press")
      PROVE  /\ \A j \in i + 1 .. n : w[j] = Event(k, "Press") => Released(w, k, i + 1, j - 1)
             /\ on => Released(w, k, 1, i - 1)
             /\ up => Released(w, k, i + 1, n)
  <2>1. s[i] = Event(k, "Press") /\ i \in Int /\ 1 <= i /\ i <= n /\ n \in Int
    BY <1>1, <1>4
  <2>2. ASSUME NEW j \in i + 1 .. n, w[j] = Event(k, "Press")
        PROVE  Released(w, k, i + 1, j - 1)
    <3>1. j \in 1 .. n /\ j \in Int /\ j <= n
      BY <1>1, <2>1
    <3>2. Released(s, k, i + 1, j - 1)
      BY <1>1, <2>1, <2>2, <3>1 DEF InTurn, n
    <3>3. i + 1 \in Int /\ i + 1 >= 1 /\ j - 1 \in Int /\ j - 1 <= n
      BY <2>1, <3>1
    <3> QED BY <1>2, <3>2, <3>3
  <2>3. ASSUME on PROVE Released(w, k, 1, i - 1)
    <3>1. Released(s, k, 1, i - 1)
      BY <2>1, <2>3 DEF InTurn, n
    <3>2. 1 \in Int /\ 1 >= 1 /\ i - 1 \in Int /\ i - 1 <= n
      BY <2>1
    <3> QED BY <1>2, <3>1, <3>2
  <2>4. ASSUME up PROVE Released(w, k, i + 1, n)
    <3>1. Released(s, k, i + 1, n)
      BY <2>1, <2>4 DEF InTurn, n
    <3>2. i + 1 \in Int /\ i + 1 >= 1 /\ n \in Int /\ n <= n
      BY <2>1
    <3> QED BY <1>2, <3>1, <3>2
  <2> QED BY <2>2, <2>3, <2>4
<1>5. up /\ on => Released(w, k, 1, n)
  <2>1. up /\ on => Released(s, k, 1, n)
    BY DEF InTurn, n
  <2> QED BY <1>1, <1>2, <2>1
<1>6. \A a \in Int : a <= n + 1 /\ e = Event(k, "Release") => Released(w, k, a, n + 1)
  BY <1>1 DEF Released
<1>7. ASSUME NEW i \in 1 .. n + 1, w[i] = Event(k, "Press")
      PROVE  /\ \A j \in i + 1 .. n + 1 : w[j] = Event(k, "Press") => Released(w, k, i + 1, j - 1)
             /\ on => Released(w, k, 1, i - 1)
             /\ up2 => Released(w, k, i + 1, n + 1)
  <2>1. CASE i \in 1 .. n
    <3>0. i \in Int /\ 1 <= i /\ i <= n /\ n \in Int /\ i + 1 \in Int /\ i + 1 <= n + 1 /\ n <= n + 1
          /\ n + 1 \in Int
      BY <2>1, <1>1
    <3>1. ASSUME NEW j \in i + 1 .. n + 1, w[j] = Event(k, "Press")
          PROVE  Released(w, k, i + 1, j - 1)
      <4>1. CASE j = n + 1
        <5>1. up /\ j - 1 = n
          BY <1>1, <3>1, <4>1
        <5> QED BY <1>4, <1>7, <2>1, <5>1
      <4>2. CASE j # n + 1
        <5>1. j \in i + 1 .. n
          BY <4>2, <3>0
        <5> QED BY <5>1, <1>4, <1>7, <2>1, <3>1
      <4> QED BY <4>1, <4>2
    <3>2. on => Released(w, k, 1, i - 1)
      BY <1>4, <1>7, <2>1
    <3>3. up2 => Released(w, k, i + 1, n + 1)
      BY <1>3, <1>4, <1>6, <1>7, <2>1, <3>0
    <3> QED BY <3>1, <3>2, <3>3
  <2>2. CASE i = n + 1
    <3>1. e = Event(k, "Press") /\ up /\ ~up2 /\ i - 1 = n
      BY <1>1, <1>7, <2>2
    <3>2. ~\E j \in i + 1 .. n + 1 : TRUE
      BY <1>1, <2>2
    <3> QED BY <1>5, <3>1, <3>2
  <2> QED BY <1>1, <2>1, <2>2
<1>8. up2 /\ on => Released(w, k, 1, n + 1)
  <2>1. n \in Int /\ n + 1 \in Int /\ 1 <= n + 1 /\ n <= n + 1 /\ 1 \in Int
    BY <1>1
  <2> QED BY <2>1, <1>3, <1>5, <1>6
<1>9. InTurn(w, k, up2, on)
  BY <1>1, <1>7, <1>8 DEF InTurn
<1> QED BY <1>9 DEF w

LEMMA TailInTurn ==
    ASSUME NEW S, NEW s \in Seq(S), s # <<>>, NEW k,
           NEW up \in BOOLEAN, NEW on \in BOOLEAN, NEW on2 \in BOOLEAN,
           InTurn(s, k, up, on),
           on2 => Head(s) = Event(k, "Press") \/ (on /\ Head(s) # Event(k, "Release"))
    PROVE  InTurn(Tail(s), k, up, on2)
<1> DEFINE t == Tail(s)
           n == Len(s)
<1>1. /\ n \in Nat /\ n >= 1 /\ Len(t) = n - 1 /\ Head(s) = s[1]
      /\ \A i \in 1 .. n - 1 : t[i] = s[i + 1]
  BY HeadTailProperties
<1> HIDE DEF t, n
<1>2. \A a, b \in Int : a >= 2 /\ b <= n /\ Released(s, k, a, b) => Released(t, k, a - 1, b - 1)
  <2>1. ASSUME NEW a \in Int, NEW b \in Int, a >= 2, b <= n, NEW i \in a .. b
        PROVE  i - 1 \in 1 .. n - 1 /\ i - 1 \in a - 1 .. b - 1 /\ (i - 1) + 1 = i
    BY <1>1, <2>1
  <2> QED BY <1>1, <2>1 DEF Released
<1>3. \A b \in Int : Released(s, k, 1, b) /\ s[1] # Event(k, "Release") => Released(s, k, 2, b)
  <2>1. ASSUME NEW b \in Int, NEW i \in 1 .. b, i # 1 PROVE i \in 2 .. b
    BY <2>1
  <2> QED BY <2>1 DEF Released
<1>4. ASSUME NEW i \in 1 .. n - 1, t[i] = Event(k, "Press")
      PROVE  /\ \A j \in i + 1 .. n - 1 : t[j] = Event(k, "Press") => Released(t, k, i + 1, j - 1)
             /\ on2 => Released(t, k, 1, i - 1)
             /\ up => Released(t, k, i + 1, n - 1)
  <2>0. i \in Int /\ 1 <= i /\ i + 1 <= n /\ i + 1 \in 1 .. n /\ s[i + 1] = Event(k, "Press") /\ n \in Int
    BY <1>1, <1>4
  <2>1. ASSUME NEW j \in i + 1 .. n - 1, t[j] = Event(k, "Press")
        PROVE  Released(t, k, i + 1, j - 1)
    <3>1. /\ j \in 1 .. n - 1 /\ j + 1 \in (i + 1) + 1 .. n /\ j \in Int /\ j <= n
      BY <2>0
    <3>2. s[j + 1] = Event(k, "Press")
      BY <1>1, <2>1, <3>1
    <3>3. Released(s, k, (i + 1) + 1, (j + 1) - 1)
      BY <2>0, <3>1, <3>2 DEF InTurn, n
    <3>4. Released(t, k, ((i + 1) + 1) - 1, ((j + 1) - 1) - 1)
      <4>1. (i + 1) + 1 \in Int /\ (j + 1) - 1 \in Int /\ (i + 1) + 1 >= 2 /\ (j + 1) - 1 <= n
        BY <2>0, <3>1
      <4> QED BY <1>2, <3>3, <4>1
    <3>5. ((i + 1) + 1) - 1 = i + 1 /\ ((j + 1) - 1) - 1 = j - 1
      BY <2>0, <3>1
    <3> QED BY <3>4, <3>5
  <2>2. ASSUME on2 PROVE Released(t, k, 1, i - 1)
    <3>1. Released(s, k, 2, (i + 1) - 1)
      <4>1. CASE s[1] = Event(k, "Press")
        <5>1. 1 \in 1 .. n /\ i + 1 \in 1 + 1 .. n /\ 1 + 1 = 2
          BY <1>1, <2>0
        <5> QED BY <2>0, <4>1, <5>1 DEF InTurn, n
      <4>2. CASE on /\ s[1] # Event(k, "Release")
        <5>1. Released(s, k, 1, (i + 1) - 1) /\ (i + 1) - 1 \in Int
          BY <2>0, <4>2 DEF InTurn, n
        <5> QED BY <1>3, <4>2, <5>1
      <4> QED BY <1>1, <2>2, <4>1, <4>2
    <3>2. Released(t, k, 2 - 1, ((i + 1) - 1) - 1)
      <4>1. 2 \in Int /\ (i + 1) - 1 \in Int /\ 2 >= 2 /\ (i + 1) - 1 <= n
        BY <2>0
      <4> QED BY <1>2, <3>1, <4>1
    <3>3. 2 - 1 = 1 /\ ((i + 1) - 1) - 1 = i - 1
      BY <2>0
    <3> QED BY <3>2, <3>3
  <2>3. ASSUME up PROVE Released(t, k, i + 1, n - 1)
    <3>1. Released(s, k, (i + 1) + 1, n)
      BY <2>0, <2>3 DEF InTurn, n
    <3>2. Released(t, k, ((i + 1) + 1) - 1, n - 1)
      <4>1. (i + 1) + 1 \in Int /\ (i + 1) + 1 >= 2 /\ n \in Int /\ n <= n
        BY <2>0
      <4> QED BY <1>2, <3>1, <4>1
    <3>3. ((i + 1) + 1) - 1 = i + 1
      BY <2>0
    <3> QED BY <3>2, <3>3
  <2> QED BY <2>1, <2>2, <2>3
<1>5. ASSUME up, on2 PROVE Released(t, k, 1, n - 1)
  <2>1. Released(s, k, 2, n)
    <3>1. CASE s[1] = Event(k, "Press")
      <4>1. 1 \in 1 .. n /\ 1 + 1 = 2
        BY <1>1
      <4> QED BY <1>5, <3>1, <4>1 DEF InTurn, n
    <3>2. CASE on /\ s[1] # Event(k, "Release")
      <4>1. Released(s, k, 1, n)
        BY <1>5, <3>2 DEF InTurn, n
      <4> QED BY <1>1, <1>3, <3>2, <4>1
    <3> QED BY <1>1, <1>5, <3>1, <3>2
  <2>2. Released(t, k, 2 - 1, n - 1)
    <3>1. 2 \in Int /\ 2 >= 2 /\ n \in Int /\ n <= n
      BY <1>1
    <3> QED BY <1>2, <2>1, <3>1
  <2> QED BY <2>2
<1>6. InTurn(t, k, up, on2)
  BY <1>1, <1>4, <1>5 DEF InTurn
<1> QED BY <1>6 DEF t

(***************************************************************************)
(* The same for the dispatcher's queue s: a release of k comes after item  *)
(* i, or will come (rest), and on says that the dispatcher has k as down.  *)
(***************************************************************************)
Come(s, k, i, rest) ==
    rest \/ \E j \in i + 1 .. Len(s) : s[j] = Input(Event(k, "Release"))

AllCome(s, k, on, rest) ==
    /\ on => Come(s, k, 0, rest)
    /\ \A i \in 1 .. Len(s) : s[i] = Input(Event(k, "Press")) => Come(s, k, i, rest)

LEMMA AppendCome ==
    ASSUME NEW S, NEW s \in Seq(S), NEW m \in S, NEW k,
           NEW on \in BOOLEAN, NEW rest \in BOOLEAN, NEW rest2 \in BOOLEAN,
           AllCome(s, k, on, rest),
           rest => rest2 \/ m = Input(Event(k, "Release")),
           m = Input(Event(k, "Press")) => rest2
    PROVE  AllCome(Append(s, m), k, on, rest2)
<1> DEFINE w == Append(s, m)
           n == Len(s)
<1>1. /\ n \in Nat /\ Len(w) = n + 1 /\ w[n + 1] = m
      /\ \A i \in 1 .. n : w[i] = s[i]
  OBVIOUS
<1> HIDE DEF w
<1>2. ASSUME NEW i \in 0 .. n, Come(s, k, i, rest) PROVE Come(w, k, i, rest2)
  <2>0. i + 1 \in Int /\ n + 1 \in i + 1 .. n + 1
    BY <1>1
  <2>1. CASE rest
    BY <1>1, <2>0, <2>1 DEF Come
  <2>2. ASSUME NEW j \in i + 1 .. n, s[j] = Input(Event(k, "Release"))
        PROVE  Come(w, k, i, rest2)
    <3>1. j \in 1 .. n /\ j \in i + 1 .. n + 1
      BY <1>1
    <3> QED BY <1>1, <2>2, <3>1 DEF Come
  <2> QED BY <1>2, <2>1, <2>2 DEF Come
<1>3. ASSUME NEW i \in 1 .. n + 1, w[i] = Input(Event(k, "Press")) PROVE Come(w, k, i, rest2)
  <2>1. CASE i \in 1 .. n
    <3>1. s[i] = Input(Event(k, "Press")) /\ i \in 0 .. n
      BY <1>1, <1>3, <2>1
    <3>2. Come(s, k, i, rest)
      BY <2>1, <3>1 DEF AllCome
    <3> QED BY <1>2, <3>1, <3>2
  <2>2. CASE i = n + 1
    BY <1>1, <1>3, <2>2 DEF Come
  <2> QED BY <1>1, <2>1, <2>2
<1>4. on => Come(w, k, 0, rest2)
  <2>1. 0 \in 0 .. n
    BY <1>1
  <2> QED BY <1>2, <2>1 DEF AllCome
<1>5. AllCome(w, k, on, rest2)
  BY <1>1, <1>3, <1>4 DEF AllCome
<1> QED BY <1>5 DEF w

LEMMA TailCome ==
    ASSUME NEW S, NEW s \in Seq(S), s # <<>>, NEW k,
           NEW on \in BOOLEAN, NEW on2 \in BOOLEAN, NEW rest \in BOOLEAN,
           AllCome(s, k, on, rest),
           on2 => \/ Head(s) = Input(Event(k, "Press"))
                  \/ on /\ Head(s) # Input(Event(k, "Release"))
    PROVE  AllCome(Tail(s), k, on2, rest)
<1> DEFINE t == Tail(s)
           n == Len(s)
<1>1. /\ n \in Nat /\ n >= 1 /\ Len(t) = n - 1 /\ Head(s) = s[1]
      /\ \A i \in 1 .. n - 1 : t[i] = s[i + 1]
  BY HeadTailProperties
<1> HIDE DEF t, n
<1>2. ASSUME NEW i \in 1 .. n, Come(s, k, i, rest) PROVE Come(t, k, i - 1, rest)
  <2>1. CASE rest
    BY <2>1 DEF Come
  <2>2. ASSUME NEW j \in i + 1 .. n, s[j] = Input(Event(k, "Release"))
        PROVE  Come(t, k, i - 1, rest)
    <3>1. j - 1 \in 1 .. n - 1 /\ j - 1 \in (i - 1) + 1 .. n - 1 /\ (j - 1) + 1 = j
      BY <1>1
    <3> QED BY <1>1, <2>2, <3>1 DEF Come
  <2> QED BY <1>2, <2>1, <2>2 DEF Come, n
<1>3. ASSUME NEW i \in 1 .. n - 1, t[i] = Input(Event(k, "Press")) PROVE Come(t, k, i, rest)
  <2>1. i + 1 \in 1 .. n /\ s[i + 1] = Input(Event(k, "Press")) /\ (i + 1) - 1 = i
    BY <1>1, <1>3
  <2>2. Come(s, k, i + 1, rest)
    BY <2>1 DEF AllCome, n
  <2>3. Come(t, k, (i + 1) - 1, rest)
    BY <1>2, <2>1, <2>2
  <2> QED BY <2>1, <2>3
<1>4. ASSUME on2 PROVE Come(t, k, 0, rest)
  <2>0. 1 \in 1 .. n /\ 1 - 1 = 0
    BY <1>1
  <2>1. Come(s, k, 1, rest)
    <3>1. CASE s[1] = Input(Event(k, "Press"))
      BY <2>0, <3>1 DEF AllCome, n
    <3>2. CASE on /\ s[1] # Input(Event(k, "Release"))
      <4>1. Come(s, k, 0, rest)
        BY <3>2 DEF AllCome
      <4>2. ASSUME NEW j \in 0 + 1 .. n, s[j] = Input(Event(k, "Release")) PROVE j \in 1 + 1 .. n
        BY <1>1, <3>2, <4>2
      <4> QED BY <4>1, <4>2 DEF Come, n
    <3> QED BY <1>1, <1>4, <3>1, <3>2
  <2>2. Come(t, k, 1 - 1, rest)
    BY <1>2, <2>0, <2>1
  <2> QED BY <2>0, <2>2
<1>5. AllCome(t, k, on2, rest)
  BY <1>1, <1>3, <1>4 DEF AllCome
<1> QED BY <1>5 DEF t

(***************************************************************************)
(* KeysInTurn.                                                             *)
(***************************************************************************)
IsUp(k) == stage[k] \in {"up", "press"}

LEMMA KeysInTurnByKey ==
    KeysInTurn <=> \A k \in Keys : InTurn(input_queue, k, IsUp(k), k \in ongoing_input)
BY DEF KeysInTurn, InTurn, IsUp, Queued, Released

LEMMA KeysInTurnByKeyNext ==
    KeysInTurn' <=> \A k \in Keys : InTurn(input_queue', k, IsUp(k)', k \in ongoing_input')
BY DEF KeysInTurn, InTurn, IsUp, Queued, Released

\* The keys that are down after an event.
LEMMA PressedMember ==
    ASSUME NEW e \in InputEvent, NEW k, NEW K
    PROVE  k \in Pressed(e, K) <=> \/ e = Event(k, "Press")
                                   \/ k \in K /\ e # Event(k, "Release")
<1>1. \A t \in InputType : e = Event(k, t) <=> e.key = k /\ e.type = t
  BY DEF InputEvent, Event
<1>2. "Press" \in InputType /\ "Release" \in InputType
  BY DEF InputType
<1> QED BY <1>1, <1>2 DEF Pressed

\* A key's step puts at most one event of its own in the queue.
LEMMA PublishInTurn ==
    ASSUME VDInv, KeysInTurn, NEW k \in Keys, NEW t \in InputType,
           NEW st \in {"up", "press", "down", "short", "release"},
           stage' = [stage EXCEPT ![k] = st], UNCHANGED ongoing_input,
           \/ UNCHANGED input_queue /\ (st \in {"up", "press"} => IsUp(k))
           \/ /\ Publish(k, t)
              /\ t = "Press" => IsUp(k) /\ st \notin {"up", "press"}
              /\ st \in {"up", "press"} => IsUp(k) \/ t = "Release"
    PROVE  KeysInTurn'
<1>0. stage \in [Keys -> {"up", "press", "down", "short", "release"}]
      /\ input_queue \in Seq([key : Keys, type : InputType])
  BY DEF VDInv, KeysTypeOK
<1>1. /\ \A j \in Keys : j # k => IsUp(j)' = IsUp(j)
      /\ IsUp(k)' = (st \in {"up", "press"})
  BY <1>0 DEF IsUp
<1>2. \A j : IsUp(j) \in BOOLEAN /\ IsUp(j)' \in BOOLEAN /\ (j \in ongoing_input) \in BOOLEAN
  BY DEF IsUp
<1> SUFFICES ASSUME NEW j \in Keys
             PROVE  InTurn(input_queue', j, IsUp(j)', j \in ongoing_input')
  BY KeysInTurnByKeyNext
<1>3. InTurn(input_queue, j, IsUp(j), j \in ongoing_input)
  BY KeysInTurnByKey
<1> DEFINE up == IsUp(j)
           up2 == IsUp(j)'
           on == j \in ongoing_input
<1>4. up \in BOOLEAN /\ up2 \in BOOLEAN /\ on \in BOOLEAN /\ (j \in ongoing_input') = on
      /\ InTurn(input_queue, j, up, on)
  BY <1>2, <1>3
<1>5. /\ j # k => up2 = up
      /\ j = k => up2 = (st \in {"up", "press"}) /\ up = IsUp(k)
  BY <1>1
<1>6. InTurn(input_queue', j, up2, on)
  <2> HIDE DEF up, up2, on
  <2>1. CASE UNCHANGED input_queue /\ (st \in {"up", "press"} => IsUp(k))
    <3>1. up2 => up
      BY <1>5, <2>1
    <3> QED BY <1>4, <2>1, <3>1 DEF InTurn
  <2>2. CASE /\ Publish(k, t)
             /\ t = "Press" => IsUp(k) /\ st \notin {"up", "press"}
             /\ st \in {"up", "press"} => IsUp(k) \/ t = "Release"
    <3> DEFINE e == Event(k, t)
    <3>1. e \in [key : Keys, type : InputType] /\ input_queue' = Append(input_queue, e)
      BY <2>2 DEF Event, Publish
    <3>2. \A u : e = Event(j, u) <=> j = k /\ t = u
      <4>1. \A u : Event(j, u).key = j /\ Event(j, u).type = u
        BY DEF Event
      <4>2. e.key = k /\ e.type = t
        BY DEF Event
      <4> QED BY <4>1, <4>2
    <3> HIDE DEF e
    <3>3. e = Event(j, "Press") => up /\ ~up2
      BY <1>5, <2>2, <3>2
    <3>4. up2 => up \/ e = Event(j, "Release")
      BY <1>5, <2>2, <3>2
    <3>5. PICK S : input_queue \in Seq(S) /\ e \in S
      BY <1>0, <3>1
    <3>6. InTurn(Append(input_queue, e), j, up2, on)
      BY <1>4, <3>3, <3>4, <3>5, AppendInTurn
    <3> QED BY <3>1, <3>6
  <2> QED BY <2>1, <2>2
<1> QED BY <1>4, <1>6

LEMMA KeyInTurn ==
    ASSUME VDInv, KeysInTurn, NEW k \in Keys, Presses(k) \/ Holds(k) \/ Follows(k)
    PROVE  KeysInTurn'
<1>1. UNCHANGED ongoing_input
  BY Frames DEF Presses, Holds, Follows
<1>2. /\ stage \in [Keys -> {"up", "press", "down", "short", "release"}]
      /\ {"Press", "Long", "Repeat", "Short", "Release"} \subseteq InputType
  BY DEF VDInv, KeysTypeOK, InputType
<1>3. stage = [stage EXCEPT ![k] = stage[k]] /\ stage[k] \in {"up", "press", "down", "short", "release"}
  BY <1>2
<1>4. ASSUME Down(k) PROVE KeysInTurn'
  <2>1. stage' = [stage EXCEPT ![k] = "press"] /\ IsUp(k) /\ UNCHANGED input_queue
    BY <1>4 DEF Down, Goes, IsUp
  <2> QED BY <1>1, <1>2, <2>1, PublishInTurn
<1>5. ASSUME Long(k) PROVE KeysInTurn'
  <2>1. stage' = [stage EXCEPT ![k] = stage[k]] /\ Publish(k, "Long")
    BY <1>3, <1>5 DEF Long
  <2>2. stage[k] \in {"up", "press"} => IsUp(k)
    BY DEF IsUp
  <2> QED BY <1>1, <1>2, <1>3, <2>1, <2>2, PublishInTurn
<1>6. ASSUME Repeat(k) PROVE KeysInTurn'
  <2>1. stage' = [stage EXCEPT ![k] = stage[k]] /\ Publish(k, "Repeat")
    BY <1>3, <1>6 DEF Repeat
  <2>2. stage[k] \in {"up", "press"} => IsUp(k)
    BY DEF IsUp
  <2> QED BY <1>1, <1>2, <1>3, <2>1, <2>2, PublishInTurn
<1>7. ASSUME Up(k) PROVE KeysInTurn'
  <2>1. PICK st \in {"release", "short"} : stage' = [stage EXCEPT ![k] = st]
    BY <1>7 DEF Up, Goes
  <2>2. UNCHANGED input_queue /\ st \notin {"up", "press"}
    BY <1>7 DEF Up
  <2> QED BY <1>1, <1>2, <2>1, <2>2, PublishInTurn
<1>8. ASSUME Press(k) PROVE KeysInTurn'
  <2>1. stage' = [stage EXCEPT ![k] = "down"] /\ IsUp(k) /\ Publish(k, "Press")
    BY <1>8 DEF Press, Goes, IsUp
  <2> QED BY <1>1, <1>2, <2>1, PublishInTurn
<1>9. ASSUME Short(k) PROVE KeysInTurn'
  <2>1. stage' = [stage EXCEPT ![k] = "release"] /\ Publish(k, "Short")
    BY <1>9 DEF Short, Goes
  <2> QED BY <1>1, <1>2, <2>1, PublishInTurn
<1>10. ASSUME Release(k) PROVE KeysInTurn'
  <2>1. stage' = [stage EXCEPT ![k] = "up"] /\ Publish(k, "Release")
    BY <1>10 DEF Release, Goes
  <2> QED BY <1>1, <1>2, <2>1, PublishInTurn
<1> QED BY <1>4, <1>5, <1>6, <1>7, <1>8, <1>9, <1>10 DEF Presses, Holds, Follows, Due

\* What the gui takes: an event of a key, and its key in turn.
LEMMA TakenEvent ==
    ASSUME VDInv, gui_input
    PROVE  /\ Head(input_queue) \in InputEvent /\ Head(input_queue).key \in Keys
           /\ input_queue \in Seq([key : Keys, type : InputType]) /\ input_queue # <<>>
           /\ input_queue' = Tail(input_queue) /\ UNCHANGED stage
           /\ ongoing_input' = Pressed(Head(input_queue), ongoing_input)
           /\ Head(input_queue) = input_queue[1] /\ 1 \in 1 .. Len(input_queue)
<1>1. /\ input_queue \in Seq([key : Keys, type : InputType]) /\ input_queue # <<>>
      /\ input_queue' = Tail(input_queue) /\ UNCHANGED stage
      /\ ongoing_input' = Pressed(Head(input_queue), ongoing_input)
  BY DEF VDInv, KeysTypeOK, gui_input, Take
<1>2. \A S : \A s \in Seq(S) : s # <<>> => Head(s) \in S /\ Head(s) = s[1] /\ 1 \in 1 .. Len(s)
  BY HeadTailProperties
<1>3. Head(input_queue) \in [key : Keys, type : InputType]
      /\ Head(input_queue) = input_queue[1] /\ 1 \in 1 .. Len(input_queue)
  BY <1>1, <1>2
<1>4. Head(input_queue) \in InputEvent /\ Head(input_queue).key \in Keys
  BY <1>3, KeyEventsAssumption DEF InputEvent
<1> QED BY <1>1, <1>3, <1>4

LEMMA TakeInTurn ==
    ASSUME VDInv, KeysInTurn, gui_input
    PROVE  KeysInTurn'
<1>1. /\ Head(input_queue) \in InputEvent
      /\ input_queue \in Seq([key : Keys, type : InputType]) /\ input_queue # <<>>
      /\ input_queue' = Tail(input_queue) /\ UNCHANGED stage
      /\ ongoing_input' = Pressed(Head(input_queue), ongoing_input)
  BY TakenEvent
<1> SUFFICES ASSUME NEW k \in Keys
             PROVE  InTurn(input_queue', k, IsUp(k)', k \in ongoing_input')
  BY KeysInTurnByKeyNext
<1> DEFINE up == IsUp(k)
           on == k \in ongoing_input
           on2 == k \in ongoing_input'
<1>2. up \in BOOLEAN /\ on \in BOOLEAN /\ on2 \in BOOLEAN /\ IsUp(k)' = up
  BY <1>1 DEF IsUp
<1>3. InTurn(input_queue, k, up, on)
  BY KeysInTurnByKey
<1>4. on2 => Head(input_queue) = Event(k, "Press") \/ (on /\ Head(input_queue) # Event(k, "Release"))
  BY <1>1, PressedMember
<1>5. InTurn(input_queue', k, up, on2)
  <2> HIDE DEF up, on, on2
  <2> QED BY <1>1, <1>2, <1>3, <1>4, TailInTurn
<1> QED BY <1>2, <1>5

(***************************************************************************)
(* ReleasesCome.                                                           *)
(***************************************************************************)
WillCome(k) ==
    \/ gui_target = App /\ gui_event = Event(k, "Release")
    \/ ongoing_input_view_port = App /\ k \in ongoing_input

PressFollowed(k) ==
    gui_target = App /\ gui_event = Event(k, "Press") =>
        ongoing_input_view_port = App /\ k \in ongoing_input

LEMMA ReleasesComeByKey ==
    ReleasesCome <=> \A k \in InputKey :
        AllCome(queue, k, k \in vd_ongoing_input, WillCome(k)) /\ PressFollowed(k)
BY DEF ReleasesCome, Comes, AllCome, Come, WillCome, PressFollowed

LEMMA ReleasesComeByKeyNext ==
    ReleasesCome' <=> \A k \in InputKey :
        AllCome(queue', k, k \in vd_ongoing_input', WillCome(k)') /\ PressFollowed(k)'
BY DEF ReleasesCome, Comes, AllCome, Come, WillCome, PressFollowed

\* The dispatcher takes the head of its queue, or does not, and its view or
\* callback may send a stop; the gui is left alone.
LEMMA QueueComes ==
    ASSUME VDInv, ReleasesCome,
           UNCHANGED <<ongoing_input, ongoing_input_view_port, gui_target, gui_event>>,
           NEW q \in Seq(Messages),
           \/ q = queue /\ UNCHANGED vd_ongoing_input
           \/ /\ queue # <<>> /\ q = Tail(queue)
              /\ \A k \in InputKey : k \in vd_ongoing_input' =>
                   \/ Head(queue) = Input(Event(k, "Press"))
                   \/ k \in vd_ongoing_input /\ Head(queue) # Input(Event(k, "Release")),
           queue' = q \/ \E m \in {Stop, Custom} : queue' = Append(q, m)
    PROVE  ReleasesCome'
<1> SUFFICES ASSUME NEW k \in InputKey
             PROVE  AllCome(queue', k, k \in vd_ongoing_input', WillCome(k)') /\ PressFollowed(k)'
  BY ReleasesComeByKeyNext
<1> DEFINE on == k \in vd_ongoing_input
           on2 == k \in vd_ongoing_input'
           rest == WillCome(k)
<1>1. on \in BOOLEAN /\ on2 \in BOOLEAN /\ rest \in BOOLEAN /\ WillCome(k)' = rest
      /\ (PressFollowed(k) => PressFollowed(k)')
  BY DEF WillCome, PressFollowed
<1>2. AllCome(queue, k, on, rest) /\ PressFollowed(k)
  BY ReleasesComeByKey
<1>3. queue \in Seq(Messages)
  BY DEF VDInv, AppConsistent
<1>4. \A m \in {Stop, Custom} : m \in Messages /\ m # Input(Event(k, "Press"))
  <2>1. Stop.type = "Stop" /\ Custom.type = "Custom" /\ Input(Event(k, "Press")).type = "Input"
    BY DEF Stop, Custom, Input
  <2> QED BY <2>1, MessageTypes
<1>5. CASE q = queue /\ UNCHANGED vd_ongoing_input
  <2>1. on2 = on
    BY <1>5
  <2> HIDE DEF on, on2, rest
  <2>2. AllCome(q, k, on2, rest)
    BY <1>2, <1>5, <2>1
  <2>3. AllCome(queue', k, on2, rest)
    BY <1>1, <1>4, <2>2, AppendCome
  <2> QED BY <1>1, <1>2, <2>3 DEF on2
<1>6. CASE /\ queue # <<>> /\ q = Tail(queue)
           /\ \A j \in InputKey : j \in vd_ongoing_input' =>
                \/ Head(queue) = Input(Event(j, "Press"))
                \/ j \in vd_ongoing_input /\ Head(queue) # Input(Event(j, "Release"))
  <2>1. on2 => \/ Head(queue) = Input(Event(k, "Press"))
               \/ on /\ Head(queue) # Input(Event(k, "Release"))
    BY <1>6
  <2> HIDE DEF on, on2, rest
  <2>2. AllCome(q, k, on2, rest)
    BY <1>1, <1>2, <1>3, <1>6, <2>1, TailCome
  <2>3. AllCome(queue', k, on2, rest)
    BY <1>1, <1>4, <2>2, AppendCome
  <2> QED BY <1>1, <1>2, <2>3 DEF on2
<1> QED BY <1>5, <1>6

\* What the dispatcher has as down after the message it takes.
LEMMA HeadMessage ==
    ASSUME VDInv, queue # <<>>,
           vd_ongoing_input' = IF Head(queue).type = "Input"
                               THEN Pressed(Head(queue).event, vd_ongoing_input)
                               ELSE vd_ongoing_input,
           NEW k \in InputKey, k \in vd_ongoing_input'
    PROVE  \/ Head(queue) = Input(Event(k, "Press"))
           \/ k \in vd_ongoing_input /\ Head(queue) # Input(Event(k, "Release"))
<1>1. Head(queue) \in Messages
  BY QueueHead
<1>2. CASE Head(queue).type = "Input"
  <2>1. PICK e \in InputEvent : Head(queue) = Input(e) /\ Head(queue).event = e
    BY <1>1, <1>2, MessageTypes
  <2>2. e = Event(k, "Press") \/ (k \in vd_ongoing_input /\ e # Event(k, "Release"))
    BY <1>2, <2>1, PressedMember
  <2>3. \A f : Input(f).event = f
    BY DEF Input
  <2> QED BY <2>1, <2>2, <2>3
<1>3. CASE Head(queue).type # "Input"
  <2>1. Input(Event(k, "Release")).type = "Input"
    BY DEF Input
  <2> QED BY <1>3, <2>1
<1> QED BY <1>2, <1>3

LEMMA RunComes ==
    ASSUME VDInv, ReleasesCome, AppRuns
    PROVE  ReleasesCome'
<1>1. UNCHANGED <<ongoing_input, ongoing_input_view_port, gui_target, gui_event>>
  BY Frames DEF AppRuns, view_dispatcher_run, Drain
<1>2. queue \in Seq(Messages)
  BY DEF VDInv, AppConsistent
<1>3. CASE UNCHANGED <<vd_ongoing_input, queue>>
  BY <1>1, <1>2, <1>3, QueueComes
<1>4. ASSUME queue # <<>>,
             vd_ongoing_input' = IF Head(queue).type = "Input"
                                 THEN Pressed(Head(queue).event, vd_ongoing_input)
                                 ELSE vd_ongoing_input,
             queue' = Tail(queue) \/ queue' = Append(Tail(queue), Stop)
      PROVE  ReleasesCome'
  <2>1. Tail(queue) \in Seq(Messages)
    BY <1>4, QueueHead
  <2>2. \A k \in InputKey : k \in vd_ongoing_input' =>
          \/ Head(queue) = Input(Event(k, "Press"))
          \/ k \in vd_ongoing_input /\ Head(queue) # Input(Event(k, "Release"))
    BY <1>4, HeadMessage
  <2> QED BY <1>1, <1>4, <2>1, <2>2, QueueComes
<1>5. CASE Drain
  BY <1>3, <1>4, <1>5 DEF Drain
<1>6. CASE view_dispatcher_run
  <2> DEFINE m == Head(queue)
             q == Tail(queue)
  <2>1. queue # <<>> /\ m \in Messages
    BY <1>6, QueueHead DEF view_dispatcher_run
  <2>2. \/ m.type = "Stop" /\ queue' = q /\ UNCHANGED vd_ongoing_input
        \/ m.type = "Input" /\ view_dispatcher_handle_input(m.event, q)
        \/ m.type = "Custom" /\ Reaction(q) /\ UNCHANGED vd_ongoing_input
    BY <1>6 DEF view_dispatcher_run
  <2>3. m.type = "Input" => m.event \in InputEvent
    BY <2>1, MessageTypes
  <2> HIDE DEF m, q
  <2>4. /\ queue' = q \/ queue' = Append(q, Stop)
        /\ vd_ongoing_input' = IF m.type = "Input" THEN Pressed(m.event, vd_ongoing_input)
                               ELSE vd_ongoing_input
    BY <2>2, <2>3, HandledInput, Reacted
  <2> QED BY <1>4, <2>1, <2>4 DEF m, q
<1> QED BY <1>5, <1>6 DEF AppRuns

\* The gui takes an event.  The view port that got the first press gets the
\* release, and a press that finds its own key down would need two in a row.
LEMMA gui_inputComes ==
    ASSUME VDInv, KeysInTurn, ReleasesCome, \A p \in ViewPorts : ~vertical[p],
           gui_input, UNCHANGED dispatcherVars
    PROVE  ReleasesCome'
<1> DEFINE e == Head(input_queue)
<1>1. /\ e \in InputEvent /\ e.key \in Keys /\ e = input_queue[1] /\ 1 \in 1 .. Len(input_queue)
      /\ ongoing_input' = Pressed(e, ongoing_input)
  BY TakenEvent
<1>2. /\ gui_target = NULL /\ ongoing_input \subseteq Keys /\ gui_event = NULL
      /\ UNCHANGED <<queue, vd_ongoing_input>> /\ PortsConsistent
  BY Frames DEF VDInv, PortsConsistent, gui_input
<1>3. \/ /\ Complementary(e, ongoing_input) /\ ongoing_input_view_port' = Owner(e)
         /\ \/ Target(e) # NULL /\ view_port_input(Target(e), e)
            \/ Target(e) = NULL /\ gui_target' = gui_target
      \/ /\ ~Complementary(e, ongoing_input)
         /\ UNCHANGED <<ongoing_input_view_port, gui_target>>
  BY DEF gui_input
<1>4. Target(e) \in ViewPorts \cup {NULL} /\ App # NULL
  BY <1>2, OwnerAttached, Ports DEF Attached
<1>5. \A t \in InputType : \A k : e = Event(k, t) <=> e.key = k /\ e.type = t
  BY <1>1 DEF InputEvent, Event
<1>6. "Press" \in InputType /\ "Release" \in InputType
  BY DEF InputType
<1> HIDE DEF e
<1>7. gui_target' = App => /\ Complementary(e, ongoing_input) /\ ongoing_input_view_port' = Owner(e)
                           /\ Target(e) = App /\ gui_event' = e
  BY <1>2, <1>3, <1>4 DEF view_port_input
<1>8. Target(e) = App => Owner(e) = App
  BY <1>4 DEF Target
<1>9. ASSUME NEW k PROVE PressFollowed(k)'
  <2> SUFFICES ASSUME gui_target' = App, gui_event' = Event(k, "Press")
               PROVE  ongoing_input_view_port' = App /\ k \in ongoing_input'
    BY DEF PressFollowed
  <2> QED BY <1>1, <1>7, <1>8, PressedMember
<1>10. ASSUME NEW k, WillCome(k) PROVE WillCome(k)'
  <2>1. ongoing_input_view_port = App /\ k \in ongoing_input /\ k \in Keys
    BY <1>2, <1>4, <1>10 DEF WillCome
  <2>2. e # Event(k, "Press")
    <3> SUFFICES ASSUME e = Event(k, "Press") PROVE FALSE
      OBVIOUS
    <3>1. Queued(k, "Release", 1, 1 - 1)
      BY <1>1, <2>1 DEF KeysInTurn
    <3>2. 1 .. 1 - 1 = {}
      OBVIOUS
    <3> QED BY <3>1, <3>2 DEF Queued
  <2>3. Owner(e) = App
    <3>1. ~(e.type = "Press" /\ ongoing_input \ {e.key} = {})
      BY <1>5, <1>6, <2>1, <2>2
    <3> QED BY <2>1, <3>1 DEF Owner
  <2>4. ongoing_input_view_port' = App
    BY <1>3, <2>1, <2>3
  <2>5. CASE e = Event(k, "Release")
    <3>1. e.type = "Release" /\ Target(e) = App /\ Complementary(e, ongoing_input)
      BY <1>5, <1>6, <2>3, <2>5 DEF Target, Complementary
    <3>2. gui_target' = App /\ gui_event' = e
      <4>1. ~vertical[App]
        BY Ports
      <4> QED BY <1>3, <1>4, <3>1, <4>1 DEF view_port_input
    <3> QED BY <2>5, <3>2 DEF WillCome
  <2>6. CASE e # Event(k, "Release")
    <3>1. k \in ongoing_input'
      BY <1>1, <2>1, <2>6, PressedMember
    <3> QED BY <2>4, <3>1 DEF WillCome
  <2> QED BY <2>5, <2>6
<1> SUFFICES ASSUME NEW k \in InputKey
             PROVE  AllCome(queue', k, k \in vd_ongoing_input', WillCome(k)') /\ PressFollowed(k)'
  BY ReleasesComeByKeyNext
<1>11. AllCome(queue, k, k \in vd_ongoing_input, WillCome(k))
  BY ReleasesComeByKey
<1>12. AllCome(queue', k, k \in vd_ongoing_input', WillCome(k)')
  BY <1>2, <1>10, <1>11 DEF AllCome, Come
<1> QED BY <1>9, <1>12

\* The dispatcher's input callback: what the gui had for it is in its queue.
LEMMA CallbackComes ==
    ASSUME VDInv, ReleasesCome, view_dispatcher_input_callback
    PROVE  ReleasesCome'
<1>1. /\ gui_target = App /\ queue' = Append(queue, Input(gui_event)) /\ gui_target' = NULL
      /\ UNCHANGED <<vd_ongoing_input, ongoing_input, ongoing_input_view_port>>
  BY DEF view_dispatcher_input_callback, gui_unlock
<1>2. App # NULL /\ gui_event \in InputEvent /\ Input(gui_event) \in Messages
  BY <1>1, Ports, MessageTypes DEF VDInv, PortsConsistent
<1>3. queue \in Seq(Messages)
  BY DEF VDInv, AppConsistent
<1> SUFFICES ASSUME NEW k \in InputKey
             PROVE  AllCome(queue', k, k \in vd_ongoing_input', WillCome(k)') /\ PressFollowed(k)'
  BY ReleasesComeByKeyNext
<1> DEFINE on == k \in vd_ongoing_input
           rest == WillCome(k)
           rest2 == WillCome(k)'
           m == Input(gui_event)
<1>4. on \in BOOLEAN /\ rest \in BOOLEAN /\ rest2 \in BOOLEAN /\ (k \in vd_ongoing_input') = on
  BY <1>1 DEF WillCome
<1>5. AllCome(queue, k, on, rest) /\ PressFollowed(k)
  BY ReleasesComeByKey
<1>6. rest => rest2 \/ m = Input(Event(k, "Release"))
  BY <1>1 DEF WillCome
<1>7. m = Input(Event(k, "Press")) => rest2
  <2>1. \A f : Input(f).event = f
    BY DEF Input
  <2>2. m = Input(Event(k, "Press")) => gui_event = Event(k, "Press")
    BY <2>1
  <2> QED BY <1>1, <1>5, <2>2 DEF WillCome, PressFollowed
<1>8. AllCome(queue', k, on, rest2)
  <2>1. m \in Messages /\ queue' = Append(queue, m)
    BY <1>1, <1>2
  <2> HIDE DEF on, rest, rest2, m
  <2> QED BY <1>3, <1>4, <1>5, <1>6, <1>7, <2>1, AppendCome
<1>9. PressFollowed(k)'
  BY <1>1, <1>2 DEF PressFollowed
<1> QED BY <1>4, <1>8, <1>9

\* Another view port's.
LEMMA OtherCallbackComes ==
    ASSUME VDInv, ReleasesCome, OtherInputCallback
    PROVE  ReleasesCome'
<1>1. /\ gui_target \in {Desktop, Menu} /\ gui_target' = NULL
      /\ UNCHANGED <<queue, vd_ongoing_input, ongoing_input, ongoing_input_view_port>>
  BY Frames DEF OtherInputCallback, gui_unlock
<1>2. App # NULL /\ gui_target # App
  BY <1>1, Ports, ViewDispatcherAssumption
<1> SUFFICES ASSUME NEW k \in InputKey
             PROVE  AllCome(queue', k, k \in vd_ongoing_input', WillCome(k)') /\ PressFollowed(k)'
  BY ReleasesComeByKeyNext
<1>3. AllCome(queue, k, k \in vd_ongoing_input, WillCome(k))
  BY ReleasesComeByKey
<1>4. WillCome(k)' = WillCome(k) /\ PressFollowed(k)'
  BY <1>1, <1>2 DEF WillCome, PressFollowed
<1> QED BY <1>1, <1>3, <1>4

\* What touches neither the dispatcher's queue nor the gui's notes.
LEMMA ComesFrame ==
    ASSUME ReleasesCome,
           UNCHANGED <<queue, vd_ongoing_input, ongoing_input, ongoing_input_view_port,
                       gui_target, gui_event>>
    PROVE  ReleasesCome'
BY DEF ReleasesCome, Comes

LEMMA TurnsFrame ==
    ASSUME KeysInTurn, UNCHANGED <<input_queue, stage, ongoing_input>>
    PROVE  KeysInTurn'
BY DEF KeysInTurn, Queued

\* No view is vertical: neither is a view port.
LEMMA NoneVertical ==
    ASSUME VerticalViews = {}, VDInv, \A p \in ViewPorts : ~vertical[p],
           \/ UNCHANGED vertical
           \/ vertical' = [vertical EXCEPT ![App] = FALSE]
           \/ \E v, q : view_dispatcher_set_current_view(v, q)
    PROVE  \A p \in ViewPorts : ~vertical'[p]
<1>1. vertical \in [ViewPorts -> BOOLEAN]
  BY DEF VDInv, PortsConsistent
<1>2. vertical' = vertical \/ vertical' = [vertical EXCEPT ![App] = FALSE]
  <2>1. ASSUME NEW v, NEW q, view_dispatcher_set_current_view(v, q)
        PROVE  vertical' = vertical \/ vertical' = [vertical EXCEPT ![App] = FALSE]
    <3>1. (v \in VerticalViews) = FALSE
      OBVIOUS
    <3> QED BY <2>1, <3>1 DEF view_dispatcher_set_current_view
  <2> QED BY <2>1
<1> QED BY <1>1, <1>2

LEMMA VerticalStep ==
    ASSUME VDNext
    PROVE  \/ UNCHANGED vertical
           \/ vertical' = [vertical EXCEPT ![App] = FALSE]
           \/ \E v, q : view_dispatcher_set_current_view(v, q)
<1> DEFINE Sets == \/ UNCHANGED vertical
                   \/ vertical' = [vertical EXCEPT ![App] = FALSE]
                   \/ \E v, q : view_dispatcher_set_current_view(v, q)
<1>1. ASSUME NEW q, Reaction(q) PROVE Sets
  BY <1>1 DEF Reaction
<1>2. ASSUME NEW k \in Keys, Presses(k) \/ Holds(k) \/ Follows(k) PROVE Sets
  BY <1>2, Frames DEF Presses, Holds, Follows
<1>3. ASSUME GuiStep PROVE Sets
  BY <1>3 DEF GuiStep, gui_input, view_dispatcher_input_callback, OtherInputCallback,
     gui_unlock, portVars
<1>4. ASSUME OtherStep PROVE Sets
  BY <1>4 DEF OtherStep, OtherThread, SystemLocks, gui_view_port_send_to_front,
     gui_view_port_send_to_back, gui_set_lockdown
<1>5. ASSUME view_dispatcher_send_custom_event PROVE Sets
  BY <1>5, Frames DEF view_dispatcher_send_custom_event
<1>6. ASSUME view_dispatcher_attach_to_gui PROVE Sets
  BY <1>6 DEF view_dispatcher_attach_to_gui
<1>7. ASSUME NEW v \in Views, view_dispatcher_add_view(v) \/ view_dispatcher_remove_view(v)
      PROVE  Sets
  BY <1>7, Frames DEF view_dispatcher_add_view, view_dispatcher_remove_view
<1>8. ASSUME view_dispatcher_switch_to_view PROVE Sets
  BY <1>8 DEF view_dispatcher_switch_to_view
<1>9. ASSUME AppRuns PROVE Sets
  BY <1>1, <1>9, Frames DEF AppRuns, view_dispatcher_run, view_dispatcher_handle_input, Drain
<1>10. ASSUME view_dispatcher_handle_tick_event PROVE Sets
  BY <1>1, <1>10 DEF view_dispatcher_handle_tick_event
<1>11. ASSUME view_dispatcher_free PROVE Sets
  BY <1>11 DEF view_dispatcher_free
<1> QED
  BY <1>2, <1>3, <1>4, <1>5, <1>6, <1>7, <1>8, <1>9, <1>10, <1>11 DEF VDNext, AppStep

\* The steps of the application that are not messages.
LEMMA AppComes ==
    ASSUME VDInv, ReleasesCome,
           \/ view_dispatcher_send_custom_event
           \/ view_dispatcher_attach_to_gui
           \/ \E v \in Views : view_dispatcher_add_view(v) \/ view_dispatcher_remove_view(v)
           \/ view_dispatcher_switch_to_view
           \/ view_dispatcher_handle_tick_event
    PROVE  ReleasesCome'
<1>1. UNCHANGED <<ongoing_input, ongoing_input_view_port, gui_target, gui_event, vd_ongoing_input>>
  BY Frames DEF view_dispatcher_send_custom_event, view_dispatcher_attach_to_gui,
     view_dispatcher_add_view, view_dispatcher_remove_view, view_dispatcher_switch_to_view,
     view_dispatcher_handle_tick_event
<1>2. queue \in Seq(Messages) /\ PortsConsistent
  BY DEF VDInv, AppConsistent
<1>3. queue' = queue \/ \E m \in {Stop, Custom} : queue' = Append(queue, m)
  BY <1>2, Reacted, SetCurrentView
     DEF view_dispatcher_send_custom_event, view_dispatcher_attach_to_gui,
     view_dispatcher_add_view, view_dispatcher_remove_view, view_dispatcher_switch_to_view,
     view_dispatcher_handle_tick_event
<1> QED BY <1>1, <1>2, <1>3, QueueComes

LEMMA FreeComes ==
    ASSUME VDInv, view_dispatcher_free
    PROVE  ReleasesCome'
<1>1. queue' = <<>> /\ vd_ongoing_input' = {} /\ ~gui_mutex /\ UNCHANGED gui_target
  BY Frames DEF view_dispatcher_free, gui_remove_view_port
<1>2. gui_target' # App
  BY <1>1, Ports DEF VDInv, PortsConsistent
<1>3. 1 .. Len(<<>>) = {}
  OBVIOUS
<1> QED BY <1>1, <1>2, <1>3 DEF ReleasesCome

LEMMA ReleaseInvInit ==
    ASSUME VDInit
    PROVE  ReleaseInv
<1>1. input_queue = <<>> /\ ongoing_input = {} /\ queue = <<>> /\ vd_ongoing_input = {}
      /\ gui_target = NULL /\ \A p \in ViewPorts : ~vertical[p]
  BY DEF VDInit, KeyInit, gui_alloc
<1>2. 1 .. Len(<<>>) = {}
  OBVIOUS
<1>3. KeysInTurn
  BY <1>1, <1>2 DEF KeysInTurn
<1>4. ReleasesCome
  BY <1>1, <1>2, Ports DEF ReleasesCome
<1> QED BY <1>1, <1>3, <1>4 DEF ReleaseInv

LEMMA ReleaseInvNext ==
    ASSUME VerticalViews = {}, VDInv, ReleaseInv, [VDNext]_vars
    PROVE  ReleaseInv'
<1>1. KeysInTurn /\ ReleasesCome /\ \A p \in ViewPorts : ~vertical[p]
  BY DEF ReleaseInv
<1>2. \A p \in ViewPorts : ~vertical'[p]
  BY <1>1, NoneVertical, VerticalStep DEF vars, guiVars, portVars
<1>3. ASSUME UNCHANGED vars PROVE KeysInTurn' /\ ReleasesCome'
  BY <1>1, <1>3, Frames, TurnsFrame, ComesFrame DEF vars
<1>4. ASSUME NEW k \in Keys, Presses(k) \/ Holds(k) \/ Follows(k) PROVE KeysInTurn' /\ ReleasesCome'
  <2>1. UNCHANGED guiVars /\ UNCHANGED dispatcherVars
    BY <1>4 DEF Presses, Holds, Follows
  <2> QED BY <1>1, <1>4, <2>1, Frames, KeyInTurn, ComesFrame
<1>5. ASSUME GuiStep PROVE KeysInTurn' /\ ReleasesCome'
  <2>1. CASE gui_input /\ UNCHANGED <<dispatcherVars, events>>
    BY <1>1, <2>1, TakeInTurn, gui_inputComes
  <2>2. CASE view_dispatcher_input_callback
    BY <1>1, <2>2, Frames, TurnsFrame, CallbackComes DEF view_dispatcher_input_callback, gui_unlock
  <2>3. CASE OtherInputCallback
    BY <1>1, <2>3, Frames, TurnsFrame, OtherCallbackComes DEF OtherInputCallback, gui_unlock
  <2> QED BY <1>5, <2>1, <2>2, <2>3 DEF GuiStep
<1>6. ASSUME OtherStep PROVE KeysInTurn' /\ ReleasesCome'
  <2>1. UNCHANGED <<keyVars, dispatcherVars, ongoing_input, ongoing_input_view_port, gui_event, gui_target>>
    BY <1>6 DEF OtherStep, OtherThread, SystemLocks
  <2> QED BY <1>1, <2>1, Frames, TurnsFrame, ComesFrame
<1>7. ASSUME view_dispatcher_send_custom_event \/ AppStep PROVE KeysInTurn' /\ ReleasesCome'
  <2>1. UNCHANGED <<input_queue, stage, ongoing_input>>
    BY <1>7, Frames DEF view_dispatcher_send_custom_event, AppStep, AppRuns,
       view_dispatcher_attach_to_gui, view_dispatcher_add_view, view_dispatcher_remove_view,
       view_dispatcher_switch_to_view, view_dispatcher_run, Drain,
       view_dispatcher_handle_tick_event, view_dispatcher_free
  <2>2. ReleasesCome'
    BY <1>1, <1>7, AppComes, RunComes, FreeComes DEF AppStep
  <2> QED BY <1>1, <2>1, <2>2, TurnsFrame
<1>8. KeysInTurn' /\ ReleasesCome'
  BY <1>3, <1>4, <1>5, <1>6, <1>7 DEF VDNext
<1> QED BY <1>2, <1>8 DEF ReleaseInv

\* The dispatcher gets the release of every key it has seen go down, for any
\* keys, views and queues, as long as no view is vertical: the gui rotates a
\* key in the orientation of the moment (view_port.c:126).
THEOREM ReleasesReachDispatcher ==
    ASSUME VerticalViews = {}
    PROVE  VDSpec => []ReleaseOnItsWay
<1>1. VDInit => ReleaseInv
  BY ReleaseInvInit
<1>2. VDInv /\ ReleaseInv /\ [VDNext]_vars => ReleaseInv'
  BY ReleaseInvNext
<1>3. VDInv /\ ReleaseInv => ReleaseOnItsWay
  <2> SUFFICES ASSUME VDInv, ReleaseInv, NEW k \in vd_ongoing_input
               PROVE  \/ Releases(queue, k)
                      \/ gui = "deliver" /\ gui_target = App /\ gui_event = Event(k, "Release")
                      \/ ongoing_input_view_port = App /\ k \in ongoing_input
    BY DEF ReleaseOnItsWay
  <2>1. k \in InputKey /\ queue \in Seq(Messages)
    BY DEF VDInv, AppConsistent
  <2>2. Comes(k, 0)
    BY <2>1 DEF ReleaseInv, ReleasesCome
  <2>3. gui_target = App => gui = "deliver"
    BY Ports DEF VDInv, PortsConsistent
  <2>4. ASSUME NEW j \in 0 + 1 .. Len(queue), queue[j] = Input(Event(k, "Release"))
        PROVE  Releases(queue, k)
    <3>1. j \in DOMAIN queue
      BY <2>1
    <3>2. queue[j].type = "Input" /\ queue[j].event = Event(k, "Release")
      BY <2>4 DEF Input
    <3> QED BY <3>1, <3>2 DEF Releases
  <2> QED BY <2>2, <2>3, <2>4 DEF Comes
<1> QED BY <1>1, <1>2, <1>3, VDInvariant, PTL DEF VDSpec

=============================================================================
