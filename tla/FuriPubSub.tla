----------------------------- MODULE FuriPubSub -----------------------------
(***************************************************************************)
(* The publisher-subscriber list, core/furi/pubsub.c.                      *)
(*                                                                         *)
(* Subscribe, unsubscribe and publish each take pubsub->mutex, which       *)
(* osMutexNew(NULL) makes non-recursive, and publish keeps it while it     *)
(* calls the callbacks one by one.  The calls, the acquisition and every   *)
(* callback are separate steps; a callback runs in the publishing thread   *)
(* and works for the thread that subscribed it.                            *)
(*                                                                         *)
(* A thread holds at most one subscription, publishes at any time and      *)
(* unsubscribes only the subscription it was given.                        *)
(***************************************************************************)
EXTENDS Naturals, Sequences, FiniteSets, SequencesExt

CONSTANTS Threads,     \* threads of the firmware that share the pubsub
          Items,       \* addresses a FuriPubSubSubscription can have
          NULL,
          MaxPublish   \* bound: messages published in a behaviour

ASSUME PubSubAssumption ==
    /\ NULL \notin Threads \cup Items \cup {"subscribe", "unsubscribe", "publish"}
    /\ IsFiniteSet(Items)
    /\ Cardinality(Threads) <= Cardinality(Items)
    /\ MaxPublish \in Nat

VARIABLES items,    \* pubsub->items, in the order publish walks it
          context,  \* item->callback_context: the thread that subscribed
          mutex,    \* the thread that holds pubsub->mutex, or NULL
          pc,       \* pc[t]: where t is in the function it called
          op,       \* op[t]: the function t called
          sub,      \* sub[t]: the subscription t was given
          msg,      \* msg[t]: the message t publishes
          it,       \* it[t]: position of publish's iterator
          sent,     \* number of messages published so far
          heard,    \* heard[t]: messages t's callback was run for, in order
          owed,     \* owed[t]: threads that were subscribed when t called
                    \* publish and have not called unsubscribe since
          crashed   \* a furi_check failed

vars == <<items, context, mutex, pc, op, sub, msg, it, sent, heard, owed,
          crashed>>

Init ==
    /\ items = <<>>
    /\ context = [i \in Items |-> NULL]
    /\ mutex = NULL
    /\ pc = [t \in Threads |-> "idle"]
    /\ op = [t \in Threads |-> NULL]
    /\ sub = [t \in Threads |-> NULL]
    /\ msg = [t \in Threads |-> 0]
    /\ it = [t \in Threads |-> 0]
    /\ sent = 0
    /\ heard = [t \in Threads |-> <<>>]
    /\ owed = [t \in Threads |-> {}]
    /\ crashed = FALSE

(***************************************************************************)
(* Calls: up to the wait for the mutex                                     *)
(***************************************************************************)
Call(t, f) ==
    /\ ~crashed
    /\ pc[t] = "idle"
    /\ pc' = [pc EXCEPT ![t] = "lock"]
    /\ op' = [op EXCEPT ![t] = f]
    /\ UNCHANGED <<items, context, mutex, sub, it, heard, crashed>>

CallSubscribe(t) ==
    /\ sub[t] = NULL
    /\ Call(t, "subscribe")
    /\ UNCHANGED <<msg, sent, owed>>

CallUnsubscribe(t) ==
    /\ sub[t] # NULL
    /\ Call(t, "unsubscribe")
    /\ owed' = [p \in Threads |-> owed[p] \ {t}]
    /\ UNCHANGED <<msg, sent>>

CallPublish(t) ==
    /\ sent < MaxPublish
    /\ Call(t, "publish")
    /\ sent' = sent + 1
    /\ msg' = [msg EXCEPT ![t] = sent + 1]
    /\ owed' = [owed EXCEPT ![t] =
                  {s \in Threads : sub[s] # NULL /\ op[s] # "unsubscribe"}]

\* osMutexAcquire(pubsub->mutex, osWaitForever)
Acquire(t) ==
    /\ ~crashed
    /\ pc[t] = "lock"
    /\ mutex = NULL
    /\ mutex' = t
    /\ pc' = [pc EXCEPT ![t] = "locked"]
    /\ it' = [it EXCEPT ![t] = 1]
    /\ UNCHANGED <<items, context, op, sub, msg, sent, heard, owed, crashed>>

\* osMutexRelease and return to the caller.
Release(t) ==
    /\ mutex' = NULL
    /\ pc' = [pc EXCEPT ![t] = "idle"]
    /\ op' = [op EXCEPT ![t] = NULL]
    /\ msg' = [msg EXCEPT ![t] = 0]
    /\ it' = [it EXCEPT ![t] = 0]
    /\ owed' = [owed EXCEPT ![t] = {}]

(***************************************************************************)
(* The bodies                                                              *)
(***************************************************************************)
\* push_raw links the new item in front of the others.
furi_pubsub_subscribe(t) ==
    /\ ~crashed
    /\ pc[t] = "locked" /\ op[t] = "subscribe"
    /\ \E i \in Items \ ToSet(items) :
        /\ items' = <<i>> \o items
        /\ context' = [context EXCEPT ![i] = t]
        /\ sub' = [sub EXCEPT ![t] = i]
    /\ Release(t)
    /\ UNCHANGED <<sent, heard, crashed>>

\* The walk of furi_pubsub_unsubscribe removes the node it was given and stops.
RemoveItem(s) ==
    IF s \in ToSet(items)
    THEN RemoveAt(items, CHOOSE i \in DOMAIN items : items[i] = s)
    ELSE items

furi_pubsub_unsubscribe(t) ==
    /\ ~crashed
    /\ pc[t] = "locked" /\ op[t] = "unsubscribe"
    /\ items' = RemoveItem(sub[t])
    /\ crashed' = (sub[t] \notin ToSet(items))      \* furi_check(result)
    /\ sub' = [sub EXCEPT ![t] = NULL]
    /\ context' = [context EXCEPT ![sub[t]] = NULL]
    /\ Release(t)
    /\ UNCHANGED <<sent, heard>>

\* The list walk of furi_pubsub_publish enters the next callback ...
EnterCallbackUnlocked(t) ==
    /\ ~crashed
    /\ pc[t] = "locked" /\ op[t] = "publish"
    /\ it[t] <= Len(items)
    /\ pc' = [pc EXCEPT ![t] = "callback"]
    /\ mutex' = NULL
    /\ UNCHANGED <<items, context, op, sub, msg, it, sent, heard, owed,
                   crashed>>

EnterCallback(t) ==
    /\ ~crashed
    /\ pc[t] = "locked" /\ op[t] = "publish"
    /\ it[t] <= Len(items)
    /\ pc' = [pc EXCEPT ![t] = "callback"]
    /\ UNCHANGED <<items, context, mutex, op, sub, msg, it, sent, heard, owed,
                   crashed>>

\* ... which does its work and returns to the walk.
LeaveCallbackSameItem(t) ==
    /\ ~crashed
    /\ pc[t] = "callback"
    /\ LET s == context[items[it[t]]]
       IN  heard' = [heard EXCEPT ![s] = Append(@, msg[t])]
    /\ pc' = [pc EXCEPT ![t] = "locked"]
    /\ UNCHANGED <<items, context, mutex, op, sub, msg, it, sent, owed, crashed>>

LeaveCallback(t) ==
    /\ ~crashed
    /\ pc[t] = "callback"
    /\ LET s == context[items[it[t]]]
       IN  heard' = [heard EXCEPT ![s] = Append(@, msg[t])]
    /\ it' = [it EXCEPT ![t] = @ + 1]
    /\ pc' = [pc EXCEPT ![t] = "locked"]
    /\ UNCHANGED <<items, context, mutex, op, sub, msg, sent, owed, crashed>>

\* Where the walk ends: after the last item.
AtLastItem(t) == it[t] >= Len(items)
AtEnd(t) == it[t] > Len(items)

PublishKeepsMutex(t) ==
    /\ ~crashed
    /\ pc[t] = "locked" /\ op[t] = "publish"
    /\ AtEnd(t)
    /\ pc' = [pc EXCEPT ![t] = "idle"]
    /\ UNCHANGED <<items, context, mutex, op, sub, msg, it, sent, heard, owed,
                   crashed>>

furi_pubsub_publish(t) ==
    /\ ~crashed
    /\ pc[t] = "locked" /\ op[t] = "publish"
    /\ AtEnd(t)
    /\ Release(t)
    /\ UNCHANGED <<items, context, sub, sent, heard, crashed>>

\* The owner frees the pubsub once nobody uses it any more and sets it up
\* again for the next test or service: no furi_check of furi_pubsub_free fails.
furi_pubsub_free ==
    /\ ~crashed
    /\ sub = [s \in Threads |-> NULL]
    /\ \A s \in Threads : pc[s] = "idle"
    /\ crashed' = (items # <<>>)
    /\ sent' = 0
    /\ heard' = [s \in Threads |-> <<>>]
    /\ UNCHANGED <<items, context, mutex, pc, op, sub, msg, it, owed>>

Step(t) ==
    \/ furi_pubsub_subscribe(t)
    \/ furi_pubsub_unsubscribe(t)
    \/ EnterCallback(t)
    \/ LeaveCallback(t)
    \/ furi_pubsub_publish(t)

Next ==
    \/ \E t \in Threads :
        \/ CallSubscribe(t)
        \/ CallUnsubscribe(t)
        \/ CallPublish(t)
        \/ Acquire(t)
        \/ Step(t)
    \/ furi_pubsub_free

\* Threads inside the functions run on and callbacks return; the mutex hands
\* itself to every waiter in turn (FreeRTOS keeps its waiters in a queue).
Fairness ==
    \A t \in Threads : WF_vars(Step(t)) /\ SF_vars(Acquire(t))

Spec == Init /\ [][Next]_vars /\ Fairness

-----------------------------------------------------------------------------
(* Properties *)

\* The state of pubsub.c and of the calls in progress is well formed, and no
\* furi_check has failed: an unsubscribe finds its item (line 80), and a pubsub
\* that is freed is empty (line 34).
TypeOK ==
    /\ items \in Seq(Items)
    /\ context \in [Items -> Threads \cup {NULL}]
    /\ mutex \in Threads \cup {NULL}
    /\ pc \in [Threads -> {"idle", "lock", "locked", "callback"}]
    /\ op \in [Threads -> {"subscribe", "unsubscribe", "publish", NULL}]
    /\ sub \in [Threads -> Items \cup {NULL}]
    /\ msg \in [Threads -> 0..MaxPublish]
    /\ it \in [Threads -> 0..(Cardinality(Items) + 1)]
    /\ sent \in 0..MaxPublish
    /\ heard \in [Threads -> Seq(1..MaxPublish)]
    /\ owed \in [Threads -> SUBSET Threads]
    /\ ~crashed

\* A running callback belongs to a live subscription: it cannot overlap or
\* follow the return of furi_pubsub_unsubscribe, after which its context may be
\* freed (pubsub.h:44).
CallbackIsSubscribed ==
    /\ TypeOK
    /\ \A t \in Threads : pc[t] = "callback" =>
          /\ it[t] <= Len(items)
          /\ sub[context[items[it[t]]]] = items[it[t]]

\* Two subscribers that both hear two messages hear them in the same order and
\* once each, however many threads publish (the mutex is held across the walk).
SameOrderForAll ==
    /\ \A s \in Threads : IsInjective(heard[s])
    /\ \A s, r \in Threads :
        \A i, j \in DOMAIN heard[s] : \A k, l \in DOMAIN heard[r] :
            (heard[s][i] = heard[r][k] /\ heard[s][j] = heard[r][l] /\ i < j)
                => k < l

\* When furi_pubsub_publish returns, its message has reached everybody who was
\* subscribed when it was called and has not begun to unsubscribe.
PublishReachesAll ==
    [][\A t \in Threads : furi_pubsub_publish(t) =>
          \A s \in owed[t] : msg[t] \in ToSet(heard[s])]_vars

\* What the calls in progress have to do with each other: the mutex has the
\* thread that is inside, and its iterator is in the list or behind its end.
CallsConsistent ==
    \A t \in Threads :
        /\ pc[t] \in {"locked", "callback"} <=> mutex = t
        /\ pc[t] = "idle" <=> op[t] = NULL
        /\ pc[t] = "idle" => owed[t] = {}
        /\ pc[t] = "callback" => op[t] = "publish" /\ it[t] \in 1 .. Len(items)
        /\ pc[t] = "locked" => it[t] \in 1 .. Len(items) + 1
        /\ op[t] = "subscribe" => sub[t] = NULL
        /\ op[t] = "unsubscribe" => sub[t] # NULL
        /\ \A s \in owed[t] : sub[s] # NULL /\ op[s] # "unsubscribe"

\* The list holds exactly the subscriptions, each once and with its context.
ListConsistent ==
    /\ IsInjective(items)
    /\ \A i \in 1 .. Len(items) :
          /\ context[items[i]] \in Threads
          /\ sub[context[items[i]]] = items[i]
    /\ \A t \in Threads : sub[t] # NULL =>
          /\ \E i \in 1 .. Len(items) : items[i] = sub[t]
          /\ context[sub[t]] = t

HeardBy(s, m) == \E k \in 1 .. Len(heard[s]) : heard[s][k] = m

\* The message of the walk t is on has been heard, as the last so far, by
\* exactly those that the walk has passed.
HeardSoFar(t) ==
    /\ \A s \in Threads : \A k \in 1 .. Len(heard[s]) :
          heard[s][k] = msg[t] => k = Len(heard[s])
    /\ \A i \in 1 .. Len(items) :
          HeardBy(context[items[i]], msg[t]) <=> i < it[t]

\* Messages under way are different, and nobody hears one before its walk.
WalkConsistent ==
    /\ \A s \in Threads : \A k \in 1 .. Len(heard[s]) : heard[s][k] <= sent
    /\ \A t \in Threads : op[t] = "publish" =>
        /\ msg[t] \in 1 .. sent
        /\ \A u \in Threads \ {t} : op[u] = "publish" => msg[u] # msg[t]
        /\ pc[t] = "lock" => \A s \in Threads : ~HeardBy(s, msg[t])
        /\ pc[t] \in {"locked", "callback"} => HeardSoFar(t)

\* The invariant that is inductive.
PubSubInv ==
    /\ CallbackIsSubscribed
    /\ CallsConsistent
    /\ ListConsistent
    /\ WalkConsistent
    /\ SameOrderForAll

\* Every subscribe, unsubscribe and publish returns.
CallsReturn == \A t \in Threads : pc[t] = "lock" ~> pc[t] = "idle"
=============================================================================
