----------------------------- MODULE RpcSession -----------------------------
(***************************************************************************)
(* An RPC session: applications/rpc/rpc.c.  A transport opens a session,   *)
(* feeds it bytes and closes it; the session's own thread, the worker,     *)
(* decodes commands from a stream buffer, handles them and answers through *)
(* the transport's callbacks.  The transports are in RpcTransports.        *)
(*                                                                         *)
(* The bytes of a message are cut into units, each one read of the         *)
(* decoder: "part" is a piece with more to come, the others end a message: *)
(* "end" a command with a handler, "stop" the stop_session command,        *)
(* "unknown" a command without a handler, "bad" what does not decode.      *)
(*                                                                         *)
(* callbacks_mutex has no variable: setting a callback is one step, and    *)
(* the worker holds the mutex exactly while it is inside                   *)
(* send_bytes_callback, at "call".                                         *)
(***************************************************************************)
EXTENDS Integers, Sequences, FiniteSets

CONSTANTS Sessions,         \* every session that is ever opened
          NoSession,        \* the NULL session pointer
          RPC_BUFFER_SIZE,  \* units the stream buffer holds
          MaxReplies        \* answers a handler sends at most

ASSUME RpcAssumption ==
    /\ NoSession \notin Sessions
    /\ RPC_BUFFER_SIZE \in Nat \ {0}
    /\ MaxReplies \in Nat \ {0}

VARIABLES session,    \* session[s]: the RpcSession and its worker
          busy_mutex  \* the session whose handler runs

rpcVars == <<session, busy_mutex>>

Kinds == {"end", "stop", "unknown", "bad"}
Unit == Kinds \cup {"part"}

\* owed counts the commands accepted and not handled yet; it is no field of
\* the struct.  torn: a part of the input was dropped, so that what follows
\* decodes as anything.
Closed == [pc |-> "none", stream |-> <<>>, feeding |-> <<>>, flags |-> {},
           unit |-> "none", decode_error |-> FALSE, callbacks |-> {},
           replies |-> 0, owed |-> 0, torn |-> FALSE]

RpcInit == session = [s \in Sessions |-> Closed] /\ busy_mutex = NoSession

Become(s, r) == session' = [session EXCEPT ![s] = r]
Live(s) == s \in Sessions /\ session[s].pc \notin {"none", "freed"}

\* Mutant: callbacks are changed without callbacks_mutex.
MutexIgnored(s) == Live(s)

CallbacksMutexFree(s) == session[s].pc # "call"

-----------------------------------------------------------------------------
\* What a transport calls.

\* The session malloc gives next, if one is left: all are alike.
Fresh(S) == LET unused == {s \in S : session[s].pc = "none"}
            IN  IF unused = {} THEN {} ELSE {CHOOSE s \in unused : TRUE}

\* rpc_session_open, and the callbacks its caller sets before it feeds.
Open(s, callbacks) ==
    /\ session[s].pc = "none"
    /\ Become(s, [Closed EXCEPT !.pc = "read", !.callbacks = callbacks])

\* rpc_session_feed: xStreamBufferSend waits for room for all it was given,
\* or writes what fits when its time is over; then the worker is woken.
Room(s) == Len(session[s].stream) + Len(session[s].feeding) <= RPC_BUFFER_SIZE
Commands(units) == Cardinality({i \in DOMAIN units : units[i] = "end"})

Feed(s, units) ==
    /\ Live(s)
    /\ Become(s, [session[s] EXCEPT !.feeding = units])

FeedWrite(s) ==
    /\ Live(s) /\ Room(s)
    /\ Become(s, [session[s] EXCEPT !.stream = @ \o session[s].feeding,
                                    !.feeding = <<>>,
                                    !.owed = @ + Commands(session[s].feeding)])

FeedTimeout(s) ==
    /\ Live(s) /\ ~Room(s)
    /\ LET fits == SubSeq(session[s].feeding, 1,
                          RPC_BUFFER_SIZE - Len(session[s].stream))
       IN  Become(s, [session[s] EXCEPT !.stream = @ \o fits, !.feeding = <<>>,
                                        !.torn = TRUE])

\* Mutant: only a worker that waits is woken.
SignalIfWaiting(s) ==
    /\ Live(s)
    /\ Become(s, [session[s] EXCEPT !.flags = IF session[s].pc = "wait" THEN @ \cup {"NewData"}
                                                                       ELSE @])

FeedSignal(s) ==
    /\ Live(s)
    /\ Become(s, [session[s] EXCEPT !.flags = @ \cup {"NewData"}])

\* rpc_session_close: send_bytes_callback goes first and waits for the mutex;
\* then the other two, and the worker is told.
\* Mutant: the worker is told first.
CloseTellsFirst(s) ==
    /\ Live(s) /\ CallbacksMutexFree(s)
    /\ Become(s, [session[s] EXCEPT !.callbacks = @ \ {"send"},
                                    !.flags = @ \cup {"Disconnect"}])

CloseSend(s) ==
    /\ Live(s) /\ CallbacksMutexFree(s)
    /\ Become(s, [session[s] EXCEPT !.callbacks = @ \ {"send"}])

CloseRest(s) ==
    /\ Live(s) /\ CallbacksMutexFree(s)
    /\ Become(s, [session[s] EXCEPT !.callbacks = {},
                                    !.flags = @ \cup {"Disconnect"}])

-----------------------------------------------------------------------------
\* rpc_session_worker.

\* What the worker does with a unit it has read: after a decoding error
\* nothing leaves rpc_pb_stream_read, and without a unit it waits.  A message
\* that does not decode resets the stream buffer, which xStreamBufferReset
\* refuses while a feeder waits for room.
Decoded(s, r) ==
    LET next(pc) == [r EXCEPT !.pc = pc, !.replies = 1]
    IN  IF r.decode_error \/ r.unit = "none" THEN [r EXCEPT !.pc = "wait", !.unit = "none"]
        ELSE CASE r.unit = "part" -> [r EXCEPT !.pc = "read", !.unit = "none"]
               [] r.unit \in {"end", "stop"} -> next("handle")
               [] r.unit = "unknown" -> next("reply")
               [] OTHER -> [next("reply") EXCEPT !.decode_error = TRUE,
                                                 !.stream = IF Room(s) THEN <<>> ELSE @]

\* rpc_pb_stream_read: one receive without waiting, and the test whether the
\* buffer is empty now; buffer_is_empty_callback is fetched without the mutex
\* and called in a step of the transport.
WorkerRead(s) ==
    /\ session[s].pc = "read"
    /\ LET queue == session[s].stream
           rest == IF queue = <<>> THEN <<>> ELSE Tail(queue)
           got(unit) == [session[s] EXCEPT !.stream = rest, !.unit = unit]
       IN  \E unit \in IF queue = <<>> THEN {"none"}
                       ELSE IF session[s].torn THEN Unit ELSE {Head(queue)} :
             Become(s, IF rest = <<>> /\ "empty" \in session[s].callbacks
                       THEN [got(unit) EXCEPT !.pc = "notify"]
                       ELSE Decoded(s, got(unit)))
    /\ UNCHANGED busy_mutex

\* Mutants: Disconnect ends the session at once, or is not put back.
WaitLeavesInput(s) ==
    /\ session[s].pc = "wait" /\ session[s].flags # {}
    /\ LET over == "Disconnect" \in session[s].flags
       IN  Become(s, [session[s] EXCEPT !.pc = IF over THEN "free" ELSE "read", !.flags = {}])
    /\ UNCHANGED busy_mutex

WaitForgetsDisconnect(s) ==
    /\ session[s].pc = "wait" /\ session[s].flags # {}
    /\ LET over == "Disconnect" \in session[s].flags /\ session[s].stream = <<>>
       IN  Become(s, [session[s] EXCEPT !.pc = IF over THEN "free" ELSE "read", !.flags = {}])
    /\ UNCHANGED busy_mutex

\* osThreadFlagsWait takes all the flags; Disconnect is put back while there
\* is something to read.
WorkerWait(s) ==
    /\ session[s].pc = "wait" /\ session[s].flags # {}
    /\ LET r == session[s]
           over == "Disconnect" \in r.flags /\ r.stream = <<>>
       IN  Become(s, [r EXCEPT !.pc = IF over THEN "free" ELSE "read",
                               !.flags = IF over THEN {} ELSE @ \cap {"Disconnect"}])
    /\ UNCHANGED busy_mutex

\* busy_mutex is taken around the handler, which sends any number of answers;
\* that of stop_session sends one.
WorkerHandle(s) ==
    /\ session[s].pc = "handle" /\ busy_mutex = NoSession
    /\ busy_mutex' = s
    /\ \E n \in IF session[s].unit = "stop" THEN {1} ELSE 0 .. MaxReplies :
         Become(s, [session[s] EXCEPT
             !.pc = "reply", !.replies = n,
             !.owed = IF @ > 0 /\ session[s].unit = "end" THEN @ - 1 ELSE @])

\* rpc_send_and_release: under callbacks_mutex, if there is a callback.
WorkerReply(s) ==
    /\ session[s].pc = "reply" /\ session[s].replies > 0
    /\ Become(s, IF "send" \in session[s].callbacks
                 THEN [session[s] EXCEPT !.pc = "call"]
                 ELSE [session[s] EXCEPT !.replies = @ - 1])
    /\ UNCHANGED busy_mutex

\* send_bytes_callback returns.
Sent(s) == Become(s, [session[s] EXCEPT !.pc = "reply", !.replies = @ - 1])

\* The handler returns; stop_session and a decoding error first call
\* closed_callback, of which asks says whether it is still set.
WorkerReplied(s, asks) ==
    /\ session[s].pc = "reply" /\ session[s].replies = 0
    /\ asks = (session[s].unit \in {"stop", "bad"} /\ "closed" \in session[s].callbacks)
    /\ Become(s, [session[s] EXCEPT !.pc = "read", !.unit = "none"])
    /\ busy_mutex' = IF busy_mutex = s THEN NoSession ELSE busy_mutex

\* rpc_session_free_callback, in the worker's last moments.
WorkerFree(s) ==
    /\ session[s].pc = "free"
    /\ Become(s, [Closed EXCEPT !.pc = "freed"])
    /\ UNCHANGED busy_mutex

WorkerStep(s) ==
    \/ WorkerRead(s)  \/ WorkerWait(s) \/ WorkerHandle(s)
    \/ WorkerReply(s) \/ WorkerFree(s)

-----------------------------------------------------------------------------
RpcSessionStruct ==
    [pc : {"none", "read", "notify", "wait", "handle", "reply", "call", "free", "freed"},
     stream : Seq(Unit), feeding : Seq(Unit),
     flags : SUBSET {"NewData", "Disconnect"},
     unit : Unit \cup {"none"}, decode_error : BOOLEAN,
     callbacks : SUBSET {"send", "closed", "empty"},
     replies : 0 .. MaxReplies, owed : Nat, torn : BOOLEAN]

RpcTypeOK ==
    /\ busy_mutex \in Sessions \cup {NoSession}
    /\ session \in [Sessions -> RpcSessionStruct]
    /\ \A s \in Sessions : /\ Len(session[s].stream) <= RPC_BUFFER_SIZE
                            /\ Len(session[s].feeding) <= RPC_BUFFER_SIZE
=============================================================================
