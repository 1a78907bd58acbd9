-------------------------- MODULE FuriPubSubProofs --------------------------
(***************************************************************************)
(* Proofs about core/furi/pubsub.c as modelled in FuriPubSub, for any      *)
(* number of threads, subscriptions and messages.                          *)
(***************************************************************************)
EXTENDS FuriPubSub, SequenceTheorems, FiniteSetTheorems, TLAPS

\* What is left of a sequence without its item number p.
LEMMA RemoveAtProperties ==
    ASSUME NEW S, NEW s \in Seq(S), NEW p \in 1 .. Len(s)
    PROVE  /\ RemoveAt(s, p) \in Seq(S)
           /\ Len(RemoveAt(s, p)) = Len(s) - 1
           /\ \A i \in 1 .. Len(s) - 1 :
                RemoveAt(s, p)[i] = IF i < p THEN s[i] ELSE s[i + 1]
<1>1. /\ SubSeq(s, 1, p - 1) \in Seq(S)
      /\ Len(SubSeq(s, 1, p - 1)) = p - 1
      /\ \A i \in 1 .. p - 1 : SubSeq(s, 1, p - 1)[i] = s[i]
  <2>1. \A i \in 1 .. p - 1 : s[i] \in S
    BY ElementOfSeq
  <2> QED BY <2>1, SubSeqProperties
<1>2. /\ SubSeq(s, p + 1, Len(s)) \in Seq(S)
      /\ Len(SubSeq(s, p + 1, Len(s))) = Len(s) - p
      /\ \A i \in 1 .. Len(s) - p : SubSeq(s, p + 1, Len(s))[i] = s[p + i]
  <2>1. \A i \in p + 1 .. Len(s) : s[i] \in S
    BY ElementOfSeq
  <2>2. p + 1 \in Int /\ Len(s) \in Int
    OBVIOUS
  <2>3. /\ SubSeq(s, p + 1, Len(s)) \in Seq(S)
        /\ Len(SubSeq(s, p + 1, Len(s))) =
             IF p + 1 <= Len(s) THEN Len(s) - (p + 1) + 1 ELSE 0
        /\ \A i \in 1 .. Len(s) - (p + 1) + 1 :
             SubSeq(s, p + 1, Len(s))[i] = s[p + 1 + i - 1]
    BY <2>1, <2>2, SubSeqProperties
  <2> QED BY <2>3
<1>3. PICK a \in Seq(S), b \in Seq(S) :
        /\ RemoveAt(s, p) = a \o b
        /\ Len(a) = p - 1 /\ \A i \in 1 .. p - 1 : a[i] = s[i]
        /\ Len(b) = Len(s) - p /\ \A i \in 1 .. Len(s) - p : b[i] = s[p + i]
  BY <1>1, <1>2 DEF RemoveAt
<1>4. /\ a \o b \in Seq(S)
      /\ Len(a \o b) = Len(a) + Len(b)
      /\ \A i \in 1 .. Len(a) + Len(b) :
           (a \o b)[i] = IF i <= Len(a) THEN a[i] ELSE b[i - Len(a)]
  BY ConcatProperties
<1>5. PICK r \in Seq(S) :
        /\ RemoveAt(s, p) = r
        /\ Len(r) = Len(a) + Len(b)
        /\ \A i \in 1 .. Len(a) + Len(b) :
             r[i] = IF i <= Len(a) THEN a[i] ELSE b[i - Len(a)]
  BY <1>3, <1>4
<1>6. Len(r) = Len(s) - 1
  BY <1>3, <1>5
<1>7. ASSUME NEW i \in 1 .. Len(s) - 1
      PROVE  r[i] = IF i < p THEN s[i] ELSE s[i + 1]
  <2>0. /\ p \in Nat /\ i \in Nat /\ Len(s) \in Nat /\ p <= Len(s)
        /\ i \in 1 .. Len(a) + Len(b)
    BY <1>3
  <2>a. r[i] = IF i <= Len(a) THEN a[i] ELSE b[i - Len(a)]
    BY <2>0, <1>5
  <2>1. CASE i < p
    <3>1. i <= Len(a) /\ i \in 1 .. p - 1
      BY <2>0, <2>1, <1>3
    <3> QED BY <3>1, <2>a, <2>1, <1>3
  <2>2. CASE ~(i < p)
    <3>1. ~(i <= Len(a)) /\ i - Len(a) \in 1 .. Len(s) - p /\ p + (i - Len(a)) = i + 1
      BY <2>0, <2>2, <1>3
    <3>2. b[i - Len(a)] = s[p + (i - Len(a))]
      BY <3>1, <1>3
    <3> QED BY <3>1, <3>2, <2>a, <2>2
  <2> QED BY <2>1, <2>2
<1> QED
  BY <1>5, <1>6, <1>7

\* The list is no longer than there are addresses.
LEMMA ListFits ==
    ASSUME items \in Seq(Items), IsInjective(items)
    PROVE  Len(items) <= Cardinality(Items) /\ Cardinality(Items) \in Nat
<1>1. items \in Injection(1 .. Len(items), Items)
  BY DEF Injection, IsInjective
<1>2. Cardinality(1 .. Len(items)) = Len(items)
  <2>1. Len(items) \in Nat
    BY LenProperties
  <2>2. Cardinality(1 .. Len(items)) = IF 1 > Len(items) THEN 0 ELSE Len(items) - 1 + 1
    BY <2>1, FS_Interval
  <2> QED BY <2>1, <2>2
<1> QED
  BY <1>1, <1>2, FS_Injection, FS_CardinalityType, PubSubAssumption

\* Nothing is subscribed and nobody is inside at first.
LEMMA InitEstablishes == Init => PubSubInv
<1> SUFFICES ASSUME Init PROVE PubSubInv
    OBVIOUS
<1> USE PubSubAssumption DEF Init
<1>1. Cardinality(Items) \in Nat
  BY FS_CardinalityType
<1>2. TypeOK
  <2>1. ~crashed
    BY Zenon
  <2> QED BY <1>1, <2>1, EmptySeq DEF TypeOK
<1>3. CallbackIsSubscribed
  BY <1>2 DEF CallbackIsSubscribed
<1>4. CallsConsistent
  BY DEF CallsConsistent
<1>5. ListConsistent
  BY DEF ListConsistent, IsInjective
<1>6. WalkConsistent
  BY DEF WalkConsistent
<1>7. SameOrderForAll
  BY DEF SameOrderForAll, IsInjective
<1> QED
  BY <1>3, <1>4, <1>5, <1>6, <1>7 DEF PubSubInv

\* A call up to the wait for the mutex disturbs nobody: it leaves the list,
\* the mutex, the iterators and what was heard alone.
LEMMA CallSubscribePreserves ==
    ASSUME PubSubInv, NEW t \in Threads, CallSubscribe(t)
    PROVE  PubSubInv'
<1> USE PubSubAssumption DEF PubSubInv, CallSubscribe, Call
<1>1. TypeOK'
  BY DEF CallbackIsSubscribed, TypeOK
<1>2. CallbackIsSubscribed'
  BY <1>1 DEF CallbackIsSubscribed, TypeOK
<1>3. CallsConsistent'
  BY DEF CallbackIsSubscribed, TypeOK, CallsConsistent
<1>4. ListConsistent'
  BY DEF ListConsistent
<1>5. WalkConsistent'
  <2>1. \A u \in Threads : u # t =>
          pc'[u] = pc[u] /\ op'[u] = op[u] /\ msg'[u] = msg[u]
    BY DEF CallbackIsSubscribed, TypeOK
  <2>2. \A u \in Threads : u # t /\ HeardSoFar(u) => HeardSoFar(u)'
    BY <2>1 DEF HeardSoFar, HeardBy
  <2> QED BY <2>1, <2>2 DEF CallbackIsSubscribed, TypeOK, WalkConsistent, HeardBy
<1>6. SameOrderForAll'
  BY DEF SameOrderForAll
<1> QED
  BY <1>2, <1>3, <1>4, <1>5, <1>6

LEMMA CallUnsubscribePreserves ==
    ASSUME PubSubInv, NEW t \in Threads, CallUnsubscribe(t)
    PROVE  PubSubInv'
<1> USE PubSubAssumption DEF PubSubInv, CallUnsubscribe, Call
<1>1. TypeOK'
  BY DEF CallbackIsSubscribed, TypeOK
<1>2. CallbackIsSubscribed'
  BY <1>1 DEF CallbackIsSubscribed, TypeOK
<1>3. CallsConsistent'
  BY DEF CallbackIsSubscribed, TypeOK, CallsConsistent
<1>4. ListConsistent'
  BY DEF ListConsistent
<1>5. WalkConsistent'
  <2>1. \A u \in Threads : u # t =>
          pc'[u] = pc[u] /\ op'[u] = op[u] /\ msg'[u] = msg[u]
    BY DEF CallbackIsSubscribed, TypeOK
  <2>2. \A u \in Threads : u # t /\ HeardSoFar(u) => HeardSoFar(u)'
    BY <2>1 DEF HeardSoFar, HeardBy
  <2> QED BY <2>1, <2>2 DEF CallbackIsSubscribed, TypeOK, WalkConsistent, HeardBy
<1>6. SameOrderForAll'
  BY DEF SameOrderForAll
<1> QED
  BY <1>2, <1>3, <1>4, <1>5, <1>6

LEMMA CallPublishPreserves ==
    ASSUME PubSubInv, NEW t \in Threads, CallPublish(t)
    PROVE  PubSubInv'
<1> USE PubSubAssumption DEF PubSubInv, CallPublish, Call
<1>1. TypeOK'
  BY DEF CallbackIsSubscribed, TypeOK
<1>2. CallbackIsSubscribed'
  BY <1>1 DEF CallbackIsSubscribed, TypeOK
<1>3. CallsConsistent'
  BY DEF CallbackIsSubscribed, TypeOK, CallsConsistent
<1>4. ListConsistent'
  BY DEF ListConsistent
<1>5. WalkConsistent'
  <2>1. \A u \in Threads : u # t =>
          pc'[u] = pc[u] /\ op'[u] = op[u] /\ msg'[u] = msg[u]
    BY DEF CallbackIsSubscribed, TypeOK
  <2>2. \A u \in Threads : u # t /\ HeardSoFar(u) => HeardSoFar(u)'
    BY <2>1 DEF HeardSoFar, HeardBy
  <2>3. /\ sent \in Nat /\ sent' = sent + 1 /\ msg'[t] = sent + 1
        /\ pc'[t] = "lock" /\ op'[t] = "publish"
        /\ \A s \in Threads : \A k \in 1 .. Len(heard[s]) :
             heard[s][k] \in Nat /\ heard[s][k] <= sent
    BY DEF CallbackIsSubscribed, TypeOK, WalkConsistent
  <2>4. \A s \in Threads : ~HeardBy(s, msg[t])'
    BY <2>3 DEF HeardBy
  <2>5. \A u \in Threads : op[u] = "publish" => msg[u] \in 1 .. sent
    BY DEF WalkConsistent
  <2>6. ASSUME NEW u \in Threads, u # t, op[u] = "publish", pc[u] = "lock"
        PROVE  \A s \in Threads : ~HeardBy(s, msg[u])'
    BY <2>6, <2>1 DEF WalkConsistent, HeardBy
  <2>7. \A s \in Threads : \A k \in 1 .. Len(heard'[s]) : heard'[s][k] <= sent'
    BY <2>3
  <2> HIDE DEF PubSubInv, CallPublish, Call
  <2>8. ASSUME NEW u \in Threads, op'[u] = "publish", NEW v \in Threads \ {u}, op'[v] = "publish"
        PROVE  msg'[v] # msg'[u]
    BY <2>8, <2>1, <2>3, <2>5 DEF PubSubInv, WalkConsistent
  <2>9. ASSUME NEW u \in Threads, op'[u] = "publish"
        PROVE  msg'[u] \in 1 .. sent'
    BY <2>9, <2>1, <2>3, <2>5
  <2>10. ASSUME NEW u \in Threads, op'[u] = "publish", pc'[u] \in {"locked", "callback"}
         PROVE  HeardSoFar(u)'
    BY <2>10, <2>1, <2>2, <2>3 DEF PubSubInv, WalkConsistent
  <2>11. ASSUME NEW u \in Threads, op'[u] = "publish", pc'[u] = "lock"
         PROVE  \A s \in Threads : ~HeardBy(s, msg[u])'
    BY <2>11, <2>1, <2>4, <2>6
  <2> QED BY <2>7, <2>8, <2>9, <2>10, <2>11 DEF WalkConsistent
<1>6. SameOrderForAll'
  BY DEF SameOrderForAll
<1> QED
  BY <1>2, <1>3, <1>4, <1>5, <1>6

\* One thread at a time takes the mutex, at the head of the list.
LEMMA AcquirePreserves ==
    ASSUME PubSubInv, NEW t \in Threads, Acquire(t)
    PROVE  PubSubInv'
<1> USE PubSubAssumption DEF PubSubInv, Acquire
<1>0. Len(items) \in Nat /\ Cardinality(Items) \in Nat
  BY LenProperties, FS_CardinalityType DEF CallbackIsSubscribed, TypeOK
<1>1. TypeOK'
  BY <1>0 DEF CallbackIsSubscribed, TypeOK
<1>2. CallbackIsSubscribed'
  BY <1>1 DEF CallbackIsSubscribed, TypeOK
<1>3. CallsConsistent'
  BY <1>0 DEF CallbackIsSubscribed, TypeOK, CallsConsistent
<1>4. ListConsistent'
  BY DEF ListConsistent
<1>5. WalkConsistent'
  <2>1. \A u \in Threads : u # t => pc'[u] = pc[u] /\ it'[u] = it[u]
    BY DEF CallbackIsSubscribed, TypeOK
  <2>2. \A u \in Threads : u # t /\ HeardSoFar(u) => HeardSoFar(u)'
    BY <2>1 DEF HeardSoFar, HeardBy
  <2>3. ASSUME op[t] = "publish" PROVE HeardSoFar(t)'
    <3>1. \A s \in Threads : ~HeardBy(s, msg[t])
      BY <2>3 DEF WalkConsistent
    <3>2. it'[t] = 1 /\ \A i \in 1 .. Len(items) : context[items[i]] \in Threads
      BY DEF CallbackIsSubscribed, TypeOK, ListConsistent
    <3> QED BY <3>1, <3>2, <1>0 DEF HeardSoFar, HeardBy
  <2> QED BY <2>1, <2>2, <2>3 DEF CallbackIsSubscribed, TypeOK, WalkConsistent, HeardBy
<1>6. SameOrderForAll'
  BY DEF SameOrderForAll
<1> QED
  BY <1>2, <1>3, <1>4, <1>5, <1>6

\* What the release of the mutex leaves of a call.
LEMMA ReleaseEffect ==
    ASSUME PubSubInv, NEW t \in Threads, Release(t)
    PROVE  /\ mutex' = NULL
           /\ pc'[t] = "idle" /\ op'[t] = NULL /\ owed'[t] = {}
           /\ \A u \in Threads \ {t} :
                pc'[u] = pc[u] /\ op'[u] = op[u] /\ msg'[u] = msg[u]
                /\ it'[u] = it[u] /\ owed'[u] = owed[u]
           /\ pc' \in [Threads -> {"idle", "lock", "locked", "callback"}]
           /\ op' \in [Threads -> {"subscribe", "unsubscribe", "publish", NULL}]
           /\ msg' \in [Threads -> 0..MaxPublish]
           /\ it' \in [Threads -> 0..(Cardinality(Items) + 1)]
           /\ owed' \in [Threads -> SUBSET Threads]
  BY PubSubAssumption, FS_CardinalityType
     DEF PubSubInv, CallbackIsSubscribed, TypeOK, Release

\* The one thread inside is t: nobody else is in a walk or in a callback.
LEMMA AloneInside ==
    ASSUME PubSubInv, NEW t \in Threads, pc[t] \in {"locked", "callback"}
    PROVE  /\ mutex = t
           /\ \A u \in Threads \ {t} : pc[u] \in {"idle", "lock"}
  BY DEF PubSubInv, CallbackIsSubscribed, TypeOK, CallsConsistent

\* When the thread inside leaves, the messages of the others are still to be
\* walked with.
LEMMA WalkAfterRelease ==
    ASSUME PubSubInv, NEW t \in Threads, pc[t] = "locked", Release(t),
           UNCHANGED <<sent, heard>>
    PROVE  WalkConsistent'
<1>1. \A u \in Threads : op'[u] = "publish" =>
        u # t /\ op[u] = "publish" /\ pc'[u] = pc[u] /\ msg'[u] = msg[u]
        /\ pc[u] \in {"idle", "lock"}
  BY ReleaseEffect, AloneInside, PubSubAssumption
<1> QED
  BY <1>1 DEF PubSubInv, WalkConsistent, HeardBy

\* A new subscription is put in front of a list that nobody is walking.
LEMMA SubscribePreserves ==
    ASSUME PubSubInv, NEW t \in Threads, furi_pubsub_subscribe(t)
    PROVE  PubSubInv'
<1> USE PubSubAssumption
<1>t. TypeOK /\ pc[t] = "locked" /\ op[t] = "subscribe" /\ sub[t] = NULL
      /\ UNCHANGED <<sent, heard, crashed>> /\ Release(t)
  BY DEF furi_pubsub_subscribe, PubSubInv, CallbackIsSubscribed, CallsConsistent
<1> PICK i \in Items \ ToSet(items) :
        /\ items' = <<i>> \o items
        /\ context' = [context EXCEPT ![i] = t]
        /\ sub' = [sub EXCEPT ![t] = i]
  BY DEF furi_pubsub_subscribe
<1>1. /\ items' \in Seq(Items) /\ Len(items) \in Nat
      /\ Len(items') = Len(items) + 1
      /\ items'[1] = i
      /\ \A k \in 1 .. Len(items) : items'[k + 1] = items[k] /\ items[k] # i
  <2>1. <<i>> \in Seq(Items) /\ Len(<<i>>) = 1 /\ <<i>>[1] = i /\ items \in Seq(Items)
    BY <1>t DEF TypeOK
  <2>2. /\ items' \in Seq(Items) /\ Len(items') = 1 + Len(items)
        /\ \A k \in 1 .. 1 + Len(items) :
             items'[k] = IF k <= 1 THEN <<i>>[k] ELSE items[k - 1]
    BY <2>1, ConcatProperties
  <2>3. \A k \in 1 .. Len(items) : items[k] # i
    BY <2>1 DEF ToSet
  <2> QED BY <2>1, <2>2, <2>3
<1>2. context' \in [Items -> Threads \cup {NULL}] /\ sub' \in [Threads -> Items \cup {NULL}]
  BY <1>t DEF TypeOK
<1>3. TypeOK'
  BY <1>t, <1>1, <1>2, ReleaseEffect DEF TypeOK
<1>4. CallsConsistent'
  <2>1. \A u \in Threads : pc'[u] \in {"locked", "callback"} <=> mutex' = u
    BY <1>t, ReleaseEffect, AloneInside
  <2>2. \A u \in Threads : sub[u] # NULL => sub'[u] # NULL
    BY <1>t DEF TypeOK
  <2>3. \A u \in Threads \ {t} : sub'[u] = sub[u] /\ pc[u] \in {"idle", "lock"}
    BY <1>t, AloneInside DEF TypeOK
  <2>4. \A u \in Threads : op'[u] = "unsubscribe" => op[u] = "unsubscribe"
    BY <1>t, ReleaseEffect
  <2>5. \A u \in Threads : owed[u] \subseteq Threads
    BY <1>t DEF TypeOK
  <2>6. \A u \in Threads : owed'[u] \subseteq owed[u]
    BY <1>t, ReleaseEffect
  <2>7. \A u \in Threads : \A s \in owed'[u] : sub'[s] # NULL /\ op'[s] # "unsubscribe"
    BY <2>2, <2>4, <2>5, <2>6, <1>t DEF PubSubInv, CallsConsistent
  <2>8. ASSUME NEW u \in Threads
        PROVE  /\ pc'[u] = "idle" <=> op'[u] = NULL
               /\ pc'[u] = "idle" => owed'[u] = {}
               /\ op'[u] = "subscribe" => sub'[u] = NULL
               /\ op'[u] = "unsubscribe" => sub'[u] # NULL
               /\ pc'[u] \notin {"locked", "callback"}
    <3>1. CASE u = t
      BY <3>1, <1>t, ReleaseEffect
    <3>2. CASE u # t
      BY <3>2, <2>3, <1>t, ReleaseEffect DEF PubSubInv, CallsConsistent
    <3> QED BY <3>1, <3>2
  <2> QED BY <2>1, <2>7, <2>8 DEF CallsConsistent
<1>5. CallbackIsSubscribed'
  BY <1>3, <1>t, ReleaseEffect, AloneInside DEF CallbackIsSubscribed
<1>6. ListConsistent'
  <2>1. \A k \in 1 .. Len(items') : k = 1 \/ (k - 1 \in 1 .. Len(items) /\ items'[k] = items[k - 1])
    BY <1>1
  <2>2. IsInjective(items')
    <3>1. DOMAIN items' = 1 .. Len(items') /\ DOMAIN items = 1 .. Len(items)
      BY <1>1, <1>t DEF TypeOK
    <3> QED BY <1>1, <2>1, <3>1 DEF PubSubInv, ListConsistent, IsInjective
  <2>3. ASSUME NEW k \in 1 .. Len(items')
        PROVE  context'[items'[k]] \in Threads /\ sub'[context'[items'[k]]] = items'[k]
    BY <1>1, <1>t, <2>1 DEF PubSubInv, ListConsistent, TypeOK
  <2>4. ASSUME NEW u \in Threads, sub'[u] # NULL
        PROVE  (\E k \in 1 .. Len(items') : items'[k] = sub'[u]) /\ context'[sub'[u]] = u
    <3>1. CASE u = t
      BY <3>1, <1>1, <1>t DEF TypeOK
    <3>2. CASE u # t
      <4>1. sub'[u] = sub[u] /\ sub[u] # NULL /\ sub[u] \in Items
        BY <3>2, <2>4, <1>t DEF TypeOK
      <4>2. PICK k \in 1 .. Len(items) : items[k] = sub[u]
        BY <4>1 DEF PubSubInv, ListConsistent
      <4>3. k + 1 \in 1 .. Len(items') /\ items'[k + 1] = sub'[u] /\ sub[u] # i
        BY <4>1, <4>2, <1>1
      <4> QED BY <4>1, <4>3, <1>t DEF PubSubInv, ListConsistent, TypeOK
    <3> QED BY <3>1, <3>2
  <2> QED BY <2>2, <2>3, <2>4 DEF ListConsistent
<1>7. WalkConsistent'
  BY <1>t, WalkAfterRelease
<1>8. SameOrderForAll'
  BY <1>t DEF PubSubInv, SameOrderForAll
<1> QED
  BY <1>4, <1>5, <1>6, <1>7, <1>8 DEF PubSubInv

\* An unsubscribe finds its item, and the others keep theirs.
LEMMA UnsubscribePreserves ==
    ASSUME PubSubInv, NEW t \in Threads, furi_pubsub_unsubscribe(t)
    PROVE  PubSubInv'
<1> USE PubSubAssumption
<1>t. TypeOK /\ pc[t] = "locked" /\ op[t] = "unsubscribe" /\ sub[t] # NULL
      /\ UNCHANGED <<sent, heard>> /\ Release(t)
      /\ sub' = [sub EXCEPT ![t] = NULL]
      /\ context' = [context EXCEPT ![sub[t]] = NULL]
  BY DEF furi_pubsub_unsubscribe, PubSubInv, CallbackIsSubscribed, CallsConsistent
<1>r. items' = RemoveItem(sub[t])
  BY DEF furi_pubsub_unsubscribe
<1>1. PICK p \in 1 .. Len(items) :
        items[p] = sub[t] /\ items' = RemoveAt(items, p) /\ sub[t] \in ToSet(items)
  <2>1. DOMAIN items = 1 .. Len(items)
    BY <1>t DEF TypeOK
  <2>2. \E k \in DOMAIN items : items[k] = sub[t]
    BY <1>t, <2>1 DEF PubSubInv, ListConsistent
  <2> QED BY <1>r, <2>1, <2>2 DEF RemoveItem, ToSet
<1>2. /\ items' \in Seq(Items) /\ Len(items) \in Nat
      /\ Len(items') = Len(items) - 1
      /\ \A k \in 1 .. Len(items) - 1 :
           items'[k] = IF k < p THEN items[k] ELSE items[k + 1]
  <2>1. items \in Seq(Items)
    BY <1>t DEF TypeOK
  <2>2. /\ RemoveAt(items, p) \in Seq(Items)
        /\ Len(RemoveAt(items, p)) = Len(items) - 1
        /\ \A k \in 1 .. Len(items) - 1 :
             RemoveAt(items, p)[k] = IF k < p THEN items[k] ELSE items[k + 1]
    BY <2>1, RemoveAtProperties
  <2> QED BY <2>1, <2>2, <1>1, LenProperties
<1>3. ~crashed'
  BY <1>1, Zenon DEF furi_pubsub_unsubscribe
<1>4. sub[t] \in Items /\ context' \in [Items -> Threads \cup {NULL}]
      /\ sub' \in [Threads -> Items \cup {NULL}]
  BY <1>t DEF TypeOK
<1>5. TypeOK'
  BY <1>t, <1>2, <1>3, <1>4, ReleaseEffect DEF TypeOK
<1>6. CallsConsistent'
  <2>1. \A u \in Threads : pc'[u] \in {"locked", "callback"} <=> mutex' = u
    BY <1>t, ReleaseEffect, AloneInside
  <2>2. \A u \in Threads : t \notin owed[u]
    BY <1>t DEF PubSubInv, CallsConsistent
  <2>3. \A u \in Threads \ {t} : sub'[u] = sub[u] /\ pc[u] \in {"idle", "lock"}
    BY <1>t, AloneInside DEF TypeOK
  <2>4. \A u \in Threads : op'[u] = "unsubscribe" => op[u] = "unsubscribe"
    BY <1>t, ReleaseEffect
  <2>5. \A u \in Threads : owed[u] \subseteq Threads
    BY <1>t DEF TypeOK
  <2>6. \A u \in Threads : owed'[u] \subseteq owed[u]
    BY <1>t, ReleaseEffect
  <2>7. \A u \in Threads : \A s \in owed'[u] : sub'[s] # NULL /\ op'[s] # "unsubscribe"
    BY <2>2, <2>3, <2>5, <2>4, <2>6, <1>t DEF PubSubInv, CallsConsistent
  <2>8. ASSUME NEW u \in Threads
        PROVE  /\ pc'[u] = "idle" <=> op'[u] = NULL
               /\ pc'[u] = "idle" => owed'[u] = {}
               /\ op'[u] = "subscribe" => sub'[u] = NULL
               /\ op'[u] = "unsubscribe" => sub'[u] # NULL
               /\ pc'[u] \notin {"locked", "callback"}
    <3>1. CASE u = t
      BY <3>1, <1>t, ReleaseEffect
    <3>2. CASE u # t
      BY <3>2, <2>3, <1>t, ReleaseEffect DEF PubSubInv, CallsConsistent
    <3> QED BY <3>1, <3>2
  <2> QED BY <2>1, <2>7, <2>8 DEF CallsConsistent
<1>7. CallbackIsSubscribed'
  BY <1>5, <1>t, ReleaseEffect, AloneInside DEF CallbackIsSubscribed
<1>8. ListConsistent'
  <2>1. \A k \in 1 .. Len(items') : \E j \in 1 .. Len(items) \ {p} :
          items'[k] = items[j] /\ j = IF k < p THEN k ELSE k + 1
    <3> SUFFICES ASSUME NEW k \in 1 .. Len(items')
                 PROVE  \E j \in 1 .. Len(items) \ {p} :
                          items'[k] = items[j] /\ j = IF k < p THEN k ELSE k + 1
        OBVIOUS
    <3> QED BY <1>2
  <2>2. DOMAIN items' = 1 .. Len(items') /\ DOMAIN items = 1 .. Len(items)
    BY <1>2, <1>t DEF TypeOK
  <2>3. \A j, k \in 1 .. Len(items) : items[j] = items[k] => j = k
    BY <2>2 DEF PubSubInv, ListConsistent, IsInjective
  <2>4. IsInjective(items')
    BY <1>2, <2>1, <2>2, <2>3 DEF IsInjective
  <2>5. ASSUME NEW k \in 1 .. Len(items')
        PROVE  context'[items'[k]] \in Threads /\ sub'[context'[items'[k]]] = items'[k]
    <3>1. PICK j \in 1 .. Len(items) \ {p} : items'[k] = items[j]
      BY <2>1
    <3>2. items[j] # sub[t] /\ items[j] \in Items
      BY <1>1, <1>t, <2>3 DEF TypeOK
    <3>3. context[items[j]] \in Threads /\ sub[context[items[j]]] = items[j]
      BY DEF PubSubInv, ListConsistent
    <3> QED BY <3>1, <3>2, <3>3, <1>t, <1>4 DEF TypeOK
  <2>6. ASSUME NEW u \in Threads, sub'[u] # NULL
        PROVE  (\E k \in 1 .. Len(items') : items'[k] = sub'[u]) /\ context'[sub'[u]] = u
    <3>1. u # t /\ sub'[u] = sub[u] /\ sub[u] # NULL /\ sub[u] \in Items
      BY <2>6, <1>t DEF TypeOK
    <3>2. PICK j \in 1 .. Len(items) : items[j] = sub[u]
      BY <3>1 DEF PubSubInv, ListConsistent
    <3>3. context[sub[u]] = u /\ context[sub[t]] = t
      BY <3>1, <1>t DEF PubSubInv, ListConsistent
    <3>4. j # p /\ sub[u] # sub[t]
      BY <3>1, <3>2, <3>3, <1>1
    <3>5. \E k \in 1 .. Len(items') : items'[k] = items[j]
      <4>1. CASE j < p
        BY <4>1, <1>2
      <4>2. CASE ~(j < p)
        <5>1. j - 1 \in 1 .. Len(items') /\ ~(j - 1 < p) /\ (j - 1) + 1 = j
          BY <4>2, <3>4, <1>2
        <5> QED BY <5>1, <1>2
      <4> QED BY <4>1, <4>2
    <3> QED BY <3>1, <3>2, <3>3, <3>4, <3>5, <1>t DEF TypeOK
  <2> QED BY <2>4, <2>5, <2>6 DEF ListConsistent
<1>9. WalkConsistent'
  BY <1>t, WalkAfterRelease
<1>10. SameOrderForAll'
  BY <1>t DEF PubSubInv, SameOrderForAll
<1> QED
  BY <1>6, <1>7, <1>8, <1>9, <1>10 DEF PubSubInv

\* The walk enters the callback of a live subscription.
LEMMA EnterCallbackPreserves ==
    ASSUME PubSubInv, NEW t \in Threads, EnterCallback(t)
    PROVE  PubSubInv'
<1> USE PubSubAssumption DEF PubSubInv, EnterCallback
<1>0. Len(items) \in Nat /\ it[t] \in 1 .. Len(items)
  BY LenProperties DEF CallbackIsSubscribed, TypeOK, CallsConsistent
<1>1. TypeOK'
  BY DEF CallbackIsSubscribed, TypeOK
<1>2. CallsConsistent'
  BY <1>0 DEF CallbackIsSubscribed, TypeOK, CallsConsistent
<1>3. CallbackIsSubscribed'
  BY <1>0, <1>1 DEF CallbackIsSubscribed, TypeOK, ListConsistent
<1>4. ListConsistent'
  BY DEF ListConsistent
<1>5. WalkConsistent'
  <2>1. \A u \in Threads : HeardSoFar(u) => HeardSoFar(u)'
    BY DEF HeardSoFar, HeardBy
  <2> QED BY <2>1 DEF CallbackIsSubscribed, TypeOK, WalkConsistent, HeardBy
<1>6. SameOrderForAll'
  BY DEF SameOrderForAll
<1> QED
  BY <1>2, <1>3, <1>4, <1>5, <1>6

\* publish returns at the end of the list.
LEMMA PublishPreserves ==
    ASSUME PubSubInv, NEW t \in Threads, furi_pubsub_publish(t)
    PROVE  PubSubInv'
<1> USE PubSubAssumption
<1>t. TypeOK /\ pc[t] = "locked" /\ UNCHANGED <<items, context, sub, sent, heard, crashed>>
      /\ Release(t)
  BY DEF furi_pubsub_publish, PubSubInv, CallbackIsSubscribed
<1>1. TypeOK'
  BY <1>t, ReleaseEffect DEF TypeOK
<1>2. CallsConsistent'
  BY <1>t, ReleaseEffect, AloneInside DEF PubSubInv, TypeOK, CallsConsistent
<1>3. CallbackIsSubscribed'
  BY <1>1, <1>t, ReleaseEffect, AloneInside DEF CallbackIsSubscribed
<1>4. ListConsistent'
  BY <1>t DEF PubSubInv, ListConsistent
<1>5. WalkConsistent'
  BY <1>t, WalkAfterRelease
<1>6. SameOrderForAll'
  BY <1>t DEF PubSubInv, SameOrderForAll
<1> QED
  BY <1>2, <1>3, <1>4, <1>5, <1>6 DEF PubSubInv

\* A callback appends the message to what its thread heard: the others that
\* heard the message heard it last as well, so that the order stays common.
LEMMA LeaveCallbackPreserves ==
    ASSUME PubSubInv, NEW t \in Threads, LeaveCallback(t)
    PROVE  PubSubInv'
<1> USE PubSubAssumption
<1>t. TypeOK /\ pc[t] = "callback" /\ op[t] = "publish" /\ it[t] \in 1 .. Len(items)
      /\ Len(items) \in Nat
      /\ UNCHANGED <<items, context, mutex, op, sub, msg, sent, owed, crashed>>
  BY LenProperties DEF LeaveCallback, PubSubInv, CallbackIsSubscribed, TypeOK, CallsConsistent
<1> DEFINE s == context[items[it[t]]]
           m == msg[t]
           n == Len(heard[s])
<1>1. /\ heard' = [heard EXCEPT ![s] = Append(@, m)]
      /\ it' = [it EXCEPT ![t] = @ + 1]
      /\ pc' = [pc EXCEPT ![t] = "locked"]
  BY DEF LeaveCallback
<1>2. s \in Threads /\ m \in 1 .. sent /\ m \in 1 .. MaxPublish /\ HeardSoFar(t)
  BY <1>t DEF PubSubInv, ListConsistent, WalkConsistent, TypeOK
<1>3. ~HeardBy(s, m)
  BY <1>t, <1>2 DEF HeardSoFar
<1> HIDE DEF s, m
<1>4. /\ heard[s] \in Seq(1 .. MaxPublish) /\ n \in Nat
      /\ heard'[s] \in Seq(1 .. MaxPublish)
      /\ Len(heard'[s]) = n + 1
      /\ heard'[s][n + 1] = m
      /\ \A k \in 1 .. n : heard'[s][k] = heard[s][k] /\ heard[s][k] # m
  <2>1. heard[s] \in Seq(1 .. MaxPublish) /\ heard'[s] = Append(heard[s], m)
    BY <1>t, <1>1, <1>2 DEF TypeOK
  <2>2. /\ Append(heard[s], m) \in Seq(1 .. MaxPublish)
        /\ Len(Append(heard[s], m)) = n + 1
        /\ \A k \in 1 .. n : Append(heard[s], m)[k] = heard[s][k]
        /\ Append(heard[s], m)[n + 1] = m
    BY <2>1, <1>2, AppendProperties
  <2>3. \A k \in 1 .. n : heard[s][k] # m
    BY <1>3 DEF HeardBy
  <2> QED BY <2>1, <2>2, <2>3, LenProperties
<1>5. \A r \in Threads \ {s} : heard'[r] = heard[r]
  BY <1>t, <1>1 DEF TypeOK
<1>6. \A r \in Threads : /\ heard[r] \in Seq(1 .. MaxPublish) /\ heard'[r] \in Seq(1 .. MaxPublish)
                         /\ Len(heard[r]) \in Nat /\ Len(heard'[r]) \in Nat
                         /\ DOMAIN heard[r] = 1 .. Len(heard[r])
                         /\ DOMAIN heard'[r] = 1 .. Len(heard'[r])
  <2>1. \A r \in Threads : heard[r] \in Seq(1 .. MaxPublish) /\ heard'[r] \in Seq(1 .. MaxPublish)
    BY <1>t, <1>4, <1>5 DEF TypeOK
  <2> QED BY <2>1, LenProperties
<1>k. /\ \A r \in Threads : \A k \in 1 .. Len(heard'[r]) :
           \/ k \in 1 .. Len(heard[r]) /\ heard'[r][k] = heard[r][k] /\ (r = s => heard[r][k] # m)
           \/ r = s /\ k = n + 1 /\ k = Len(heard'[r]) /\ heard'[r][k] = m
      /\ \A r \in Threads : r # s => Len(heard'[r]) = Len(heard[r])
  <2>1. ASSUME NEW k \in 1 .. Len(heard'[s])
        PROVE  k \in 1 .. n \/ k = n + 1
    BY <1>4
  <2>2. \A r \in Threads : r # s => heard'[r] = heard[r]
    BY <1>5
  <2> HIDE DEF n
  <2>3. n = Len(heard[s])
    BY DEF n
  <2>4. ASSUME NEW k \in 1 .. Len(heard'[s])
        PROVE  \/ k \in 1 .. Len(heard[s]) /\ heard'[s][k] = heard[s][k] /\ heard[s][k] # m
               \/ k = n + 1 /\ k = Len(heard'[s]) /\ heard'[s][k] = m
    BY <2>1, <2>3, <1>4
  <2> QED BY <2>2, <2>4
<1> HIDE DEF n
<1>7. TypeOK'
  <2>1. heard' \in [Threads -> Seq(1 .. MaxPublish)]
    BY <1>t, <1>1, <1>6 DEF TypeOK
  <2>2. it[t] + 1 <= Cardinality(Items) + 1
    BY <1>t, ListFits DEF TypeOK, PubSubInv, ListConsistent
  <2>3. it' \in [Threads -> 0..(Cardinality(Items) + 1)]
    BY <1>t, <1>1, <2>2, FS_CardinalityType DEF TypeOK
  <2> QED BY <1>t, <1>1, <2>1, <2>3 DEF TypeOK
<1>8. CallsConsistent'
  BY <1>t, <1>1 DEF PubSubInv, TypeOK, CallsConsistent
<1>9. CallbackIsSubscribed'
  <2>1. \A u \in Threads : pc'[u] # "callback"
    BY <1>t, <1>1, AloneInside DEF TypeOK
  <2> QED BY <1>7, <2>1 DEF CallbackIsSubscribed
<1>10. ListConsistent'
  BY <1>t DEF PubSubInv, ListConsistent
\* The message is the last one of everybody who heard it, before and after.
<1>11. \A r \in Threads : \A k \in 1 .. Len(heard'[r]) :
          heard'[r][k] = m => k = Len(heard'[r])
  <2> SUFFICES ASSUME NEW r \in Threads, NEW k \in 1 .. Len(heard'[r]), heard'[r][k] = m
               PROVE  k = Len(heard'[r])
      OBVIOUS
  <2>1. CASE k \in 1 .. Len(heard[r]) /\ heard[r][k] = m /\ r # s
    BY <2>1, <1>2, <1>k DEF HeardSoFar, m
  <2> QED BY <2>1, <1>k
<1>12. WalkConsistent'
  <2>1. \A r \in Threads : \A k \in 1 .. Len(heard'[r]) : heard'[r][k] <= sent'
    BY <1>t, <1>2, <1>k DEF PubSubInv, WalkConsistent
  <2>2. \A u \in Threads \ {t} : pc'[u] = pc[u] /\ pc[u] \in {"idle", "lock"}
    BY <1>t, <1>1, AloneInside DEF TypeOK
  <2>3. ASSUME NEW u \in Threads, op[u] = "publish", pc[u] = "lock"
        PROVE  \A r \in Threads : ~HeardBy(r, msg[u])'
    <3>1. msg[u] # m /\ \A r \in Threads : ~HeardBy(r, msg[u])
      BY <2>3, <1>t DEF PubSubInv, WalkConsistent, m
    <3>2. \A r \in Threads : \A k \in 1 .. Len(heard'[r]) : heard'[r][k] # msg[u]
      BY <3>1, <1>k DEF HeardBy
    <3> QED BY <3>2, <1>t DEF HeardBy
  <2>4. HeardSoFar(t)'
    <3>1. it'[t] = it[t] + 1 /\ it[t] \in Nat
      BY <1>t, <1>1 DEF TypeOK
    <3>2. ASSUME NEW i \in 1 .. Len(items)
          PROVE  HeardBy(context[items[i]], msg[t])' <=> i < it'[t]
      <4>1. context[items[i]] \in Threads
        BY DEF PubSubInv, ListConsistent
      <4>2. HeardBy(context[items[i]], msg[t]) <=> i < it[t]
        BY <1>2 DEF HeardSoFar
      <4>3. CASE context[items[i]] = s
        <5>1. i = it[t]
          <6>1. items[i] = items[it[t]]
            BY <4>3, <1>t DEF s, PubSubInv, ListConsistent
          <6> QED BY <6>1, <1>t DEF PubSubInv, ListConsistent, IsInjective, TypeOK
        <5>2. HeardBy(context[items[i]], msg[t])'
          <6>1. n + 1 \in 1 .. Len(heard'[s]) /\ heard'[s][n + 1] = m
            BY <1>4
          <6>2. context'[items'[i]] = s /\ msg'[t] = m
            BY <4>3, <1>t DEF m
          <6> QED BY <6>1, <6>2 DEF HeardBy
        <5> QED BY <5>1, <5>2, <3>1
      <4>4. CASE context[items[i]] # s
        <5>1. i # it[t]
          BY <4>4 DEF s
        <5>2. HeardBy(context[items[i]], msg[t])' <=> HeardBy(context[items[i]], msg[t])
          BY <4>1, <4>4, <1>5, <1>t DEF HeardBy
        <5> QED BY <5>1, <5>2, <4>2, <3>1
      <4> QED BY <4>3, <4>4
    <3> QED BY <3>2, <1>11, <1>t DEF HeardSoFar, m
  <2>5. pc'[t] = "locked"
    BY <1>t, <1>1 DEF TypeOK
  <2>6. \A u \in Threads : op[u] = "publish" =>
          msg[u] \in 1 .. sent /\ \A v \in Threads \ {u} : op[v] = "publish" => msg[v] # msg[u]
    BY DEF PubSubInv, WalkConsistent
  <2> QED BY <2>1, <2>2, <2>3, <2>4, <2>5, <2>6, <1>t DEF WalkConsistent
<1>13. SameOrderForAll'
  <2>1. \A r \in Threads : \A i, j \in 1 .. Len(heard[r]) : heard[r][i] = heard[r][j] => i = j
    BY <1>6 DEF PubSubInv, SameOrderForAll, IsInjective
  <2>2. \A r \in Threads : \A i, j \in 1 .. Len(heard'[r]) : heard'[r][i] = heard'[r][j] => i = j
    BY <2>1, <1>k
  <2>3. \A r \in Threads : \A i \in 1 .. Len(heard'[r]) :
          heard'[r][i] # m => i \in 1 .. Len(heard[r]) /\ heard[r][i] = heard'[r][i]
    BY <1>k
  <2>4. ASSUME NEW q \in Threads, NEW r \in Threads,
               NEW i \in 1 .. Len(heard'[q]), NEW j \in 1 .. Len(heard'[q]),
               NEW k \in 1 .. Len(heard'[r]), NEW l \in 1 .. Len(heard'[r]),
               heard'[q][i] = heard'[r][k], heard'[q][j] = heard'[r][l], i < j
        PROVE  k < l
    <3>1. heard'[q][i] # m
      <4>1. heard'[q][i] = m => i = Len(heard'[q])
        BY <1>11
      <4>2. Len(heard'[q]) \in Nat
        BY <1>6
      <4> QED BY <4>1, <4>2, <2>4
    <3>2. CASE heard'[q][j] = m
      <4>1. l = Len(heard'[r]) /\ k # l
        BY <2>4, <3>1, <3>2, <1>11
      <4> QED BY <4>1, <1>6
    <3>3. CASE heard'[q][j] # m
      <4>1. /\ i \in 1 .. Len(heard[q]) /\ j \in 1 .. Len(heard[q])
            /\ k \in 1 .. Len(heard[r]) /\ l \in 1 .. Len(heard[r])
            /\ heard[q][i] = heard[r][k] /\ heard[q][j] = heard[r][l]
        BY <2>3, <2>4, <3>1, <3>3
      <4>2. DOMAIN heard[q] = 1 .. Len(heard[q]) /\ DOMAIN heard[r] = 1 .. Len(heard[r])
        BY <1>6
      <4>3. SameOrderForAll!2
        BY DEF PubSubInv, SameOrderForAll
      <4> QED BY <4>1, <4>2, <4>3, <2>4
    <3> QED BY <3>2, <3>3
  <2>5. \A r \in Threads : DOMAIN heard'[r] = 1 .. Len(heard'[r])
    BY <1>6
  <2>6. \A r \in Threads : IsInjective(heard'[r])
    BY <2>2, <2>5 DEF IsInjective
  <2>7. \A q, r \in Threads :
          \A i, j \in DOMAIN heard'[q] : \A k, l \in DOMAIN heard'[r] :
             (heard'[q][i] = heard'[r][k] /\ heard'[q][j] = heard'[r][l] /\ i < j) => k < l
    <3> TAKE q, r \in Threads
    <3>1. DOMAIN heard'[q] = 1 .. Len(heard'[q]) /\ DOMAIN heard'[r] = 1 .. Len(heard'[r])
      BY <2>5
    <3> TAKE i, j \in DOMAIN heard'[q]
    <3> TAKE k, l \in DOMAIN heard'[r]
    <3> QED BY <3>1, <2>4
  <2> QED BY <2>6, <2>7, Zenon DEF SameOrderForAll
<1> QED
  BY <1>8, <1>9, <1>10, <1>12, <1>13 DEF PubSubInv

\* A pubsub that nobody uses any more is empty when it is freed.
LEMMA FreePreserves ==
    ASSUME PubSubInv, furi_pubsub_free
    PROVE  PubSubInv'
<1> USE PubSubAssumption
<1>t. TypeOK /\ sub = [u \in Threads |-> NULL] /\ (\A u \in Threads : pc[u] = "idle")
      /\ sent' = 0 /\ heard' = [u \in Threads |-> <<>>]
      /\ UNCHANGED <<items, context, mutex, pc, op, sub, msg, it, owed>>
  BY DEF furi_pubsub_free, PubSubInv, CallbackIsSubscribed
<1>1. items = <<>>
  <2>1. Len(items) \in Nat /\ \A k \in 1 .. Len(items) : items[k] \in Items
    BY <1>t DEF TypeOK
  <2>2. ~(1 \in 1 .. Len(items))
    <3> SUFFICES ASSUME 1 \in 1 .. Len(items) PROVE FALSE
        OBVIOUS
    <3>1. items[1] \in Items /\ sub[context[items[1]]] = items[1] /\ context[items[1]] \in Threads
      BY <2>1 DEF PubSubInv, ListConsistent
    <3> QED BY <3>1, <1>t
  <2>3. Len(items) = 0
    BY <2>1, <2>2
  <2> QED BY <2>3, <1>t, EmptySeq DEF TypeOK
<1>2. ~crashed'
  BY <1>1, Zenon DEF furi_pubsub_free
<1>3. TypeOK'
  BY <1>t, <1>2, EmptySeq DEF TypeOK
<1>4. CallsConsistent'
  BY <1>t DEF PubSubInv, CallsConsistent
<1>5. CallbackIsSubscribed'
  BY <1>3, <1>t DEF CallbackIsSubscribed
<1>6. ListConsistent'
  BY <1>t DEF PubSubInv, ListConsistent
<1>7. WalkConsistent'
  <2>1. \A u \in Threads : op'[u] # "publish"
    BY <1>t DEF PubSubInv, CallsConsistent
  <2>2. \A u \in Threads : Len(heard'[u]) = 0
    BY <1>t
  <2> QED BY <2>1, <2>2 DEF WalkConsistent
<1>8. SameOrderForAll'
  BY <1>t DEF SameOrderForAll, IsInjective
<1> QED
  BY <1>4, <1>5, <1>6, <1>7, <1>8 DEF PubSubInv

\* Every step of every thread keeps the invariant.
LEMMA NextPreserves == PubSubInv /\ [Next]_vars => PubSubInv'
<1> SUFFICES ASSUME PubSubInv, [Next]_vars PROVE PubSubInv'
    OBVIOUS
<1>1. ASSUME NEW t \in Threads, CallSubscribe(t) PROVE PubSubInv'
  BY <1>1, CallSubscribePreserves
<1>2. ASSUME NEW t \in Threads, CallUnsubscribe(t) PROVE PubSubInv'
  BY <1>2, CallUnsubscribePreserves
<1>3. ASSUME NEW t \in Threads, CallPublish(t) PROVE PubSubInv'
  BY <1>3, CallPublishPreserves
<1>4. ASSUME NEW t \in Threads, Acquire(t) PROVE PubSubInv'
  BY <1>4, AcquirePreserves
<1>5. ASSUME NEW t \in Threads, Step(t) PROVE PubSubInv'
  BY <1>5, SubscribePreserves, UnsubscribePreserves, EnterCallbackPreserves,
     LeaveCallbackPreserves, PublishPreserves DEF Step
<1>6. CASE furi_pubsub_free
  BY <1>6, FreePreserves
<1>7. CASE UNCHANGED vars
  BY <1>7 DEF vars, PubSubInv, CallbackIsSubscribed, TypeOK, CallsConsistent,
     ListConsistent, WalkConsistent, HeardSoFar, HeardBy, SameOrderForAll
<1> QED
  BY <1>1, <1>2, <1>3, <1>4, <1>5, <1>6, <1>7 DEF Next

\* PubSubInv holds in every state of every behaviour.
THEOREM PubSubInvariant == Spec => []PubSubInv
<1> QED
  BY InitEstablishes, NextPreserves, PTL DEF Spec

\* furi_pubsub_publish runs callbacks of live subscriptions only: none overlaps
\* or follows the return of the unsubscribe that ends it.  No furi_check of
\* pubsub.c fails.
THEOREM CallbacksAreSubscribed == Spec => []CallbackIsSubscribed
<1>1. PubSubInv => CallbackIsSubscribed
  BY DEF PubSubInv
<1> QED
  BY <1>1, PubSubInvariant, PTL

\* Holding the mutex across the walk gives all subscribers one order.
THEOREM OneOrder == Spec => []SameOrderForAll
<1>1. PubSubInv => SameOrderForAll
  BY DEF PubSubInv
<1> QED
  BY <1>1, PubSubInvariant, PTL

\* A publish that returns has reached everybody it owed the message to.
THEOREM PublishIsHeard == Spec => PublishReachesAll
<1>1. ASSUME PubSubInv, NEW t \in Threads, furi_pubsub_publish(t), NEW s \in owed[t]
      PROVE  msg[t] \in ToSet(heard[s])
  <2>1. pc[t] = "locked" /\ op[t] = "publish" /\ it[t] > Len(items) /\ s \in Threads
        /\ sub[s] # NULL /\ HeardSoFar(t)
    BY <1>1 DEF furi_pubsub_publish, AtEnd, PubSubInv, CallbackIsSubscribed, TypeOK,
       CallsConsistent, WalkConsistent
  <2>2. PICK i \in 1 .. Len(items) : items[i] = sub[s] /\ context[items[i]] = s
    BY <1>1, <2>1 DEF PubSubInv, ListConsistent
  <2>3. HeardBy(s, msg[t])
    <3>1. Len(items) \in Nat /\ it[t] \in Nat
      BY <1>1, LenProperties DEF PubSubInv, CallbackIsSubscribed, TypeOK
    <3>2. i < it[t]
      BY <2>1, <3>1
    <3> QED BY <2>1, <2>2, <3>2 DEF HeardSoFar
  <2>4. DOMAIN heard[s] = 1 .. Len(heard[s])
    BY <1>1, <2>1, LenProperties DEF PubSubInv, CallbackIsSubscribed, TypeOK
  <2> QED BY <2>3, <2>4 DEF HeardBy, ToSet
<1>2. PubSubInv /\ [Next]_vars =>
        [\A t \in Threads : furi_pubsub_publish(t) =>
            \A s \in owed[t] : msg[t] \in ToSet(heard[s])]_vars
  BY <1>1
<1> QED
  BY <1>2, PubSubInvariant, PTL DEF Spec, PublishReachesAll
=============================================================================
