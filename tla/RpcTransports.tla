---------------------------- MODULE RpcTransports ---------------------------
(***************************************************************************)
(* The two transports of RPC sessions, together with RpcSession:           *)
(*  - Bluetooth: applications/bt/bt_service/bt.c over the serial service   *)
(*    of ble_glue/serial_service.c.  The GAP thread delivers the radio's   *)
(*    events, and the session's worker sends and waits for the phone's     *)
(*    confirmation;                                                        *)
(*  - the console: rpc_cli_command_start_session in rpc_cli.c.             *)
(*                                                                         *)
(* The phone sends no more than the flow control characteristic allows,    *)
(* which is bytes_ready_to_receive: it is renewed only when it is 0.  The  *)
(* link may be lost at any time; a confirmation then never comes.          *)
(*                                                                         *)
(* buff_size_mtx is held by the GAP thread from the receipt of data to the *)
(* end of the callback (SerialBusy); the worker's use of it is one step.   *)
(* A step that would use a freed session has no successor: the properties  *)
(* are about getting there.  The change of the profile, in which the bt    *)
(* thread closes the session under the GAP thread, is left out.            *)
(***************************************************************************)
EXTENDS RpcSession

CONSTANTS CliSessions,  \* the sessions the console opens
          Packets,      \* what the phone and the USB host send at once
          MaxInputs,    \* how many packets they send
          MaxFrames     \* radio packets in one answer

\* A packet of either side is smaller than the stream buffer (1024 bytes):
\* SERIAL_SVC_DATA_LEN_MAX is 486, CLI_READ_BUFFER_SIZE 64.
ASSUME TransportsAssumption ==
    /\ CliSessions \subseteq Sessions
    /\ Packets \subseteq {units \in Seq(Unit) : Len(units) <= RPC_BUFFER_SIZE}
    /\ MaxInputs \in Nat
    /\ MaxFrames \in Nat \ {0}

BtSessions == Sessions \ CliSessions

VARIABLES link,         \* "down", "up", "lost" (event pending)
          gap,          \* where the GAP thread is
          bt,           \* struct Bt, and where the bt thread is
          serial,       \* serial_svc
          sending,      \* frames bt_rpc_send_bytes_callback still waits for
          unacked,      \* an indication waits for its confirmation
          cli,          \* the console thread in its command
          inputs        \* packets sent so far

btVars == <<link, gap, bt, serial, sending, unacked>>
vars == <<rpcVars, btVars, cli, inputs>>

NoService == [callback |-> FALSE, buff_size |-> 0, ready |-> 0]

Init ==
    /\ RpcInit
    /\ link = "down"
    /\ gap = "idle"
    /\ bt = [rpc_session |-> NoSession, rpc_event |-> {}]
    /\ serial = NoService
    /\ sending = 0
    /\ unacked = FALSE
    /\ cli = [pc |-> "idle", session |-> NoSession, close_request |-> FALSE]
    /\ inputs = 0

SerialBusy == gap \in {"feed", "signal"}

-----------------------------------------------------------------------------
\* The GAP thread: bt_on_gap_event_callback and serial_svc_event_handler.

\* Connected: a session is opened, then the serial service given the size of
\* its buffer and the callback, without which nothing is fed.
GapConnect ==
    /\ gap = "idle" /\ link = "down"
    /\ link' = "up"
    /\ \E s \in Fresh(BtSessions) :
         /\ Open(s, {"send", "empty"})
         /\ bt' = [bt EXCEPT !.rpc_session = s]
    /\ serial' = [callback |-> TRUE, buff_size |-> RPC_BUFFER_SIZE, ready |-> RPC_BUFFER_SIZE]
    /\ UNCHANGED <<busy_mutex, gap, sending, unacked, cli, inputs>>

\* Data from the phone: the credit is charged, then bt_serial_event_callback
\* feeds bt->rpc_session.
GapReceive(packet) ==
    /\ gap = "idle" /\ link = "up" /\ inputs < MaxInputs
    /\ serial.callback /\ Len(packet) <= serial.ready
    /\ inputs' = inputs + 1
    /\ serial' = [serial EXCEPT !.ready = @ - Len(packet)]
    /\ Feed(bt.rpc_session, packet)
    /\ gap' = "feed"
    /\ UNCHANGED <<busy_mutex, link, bt, sending, unacked, cli>>

GapFed ==
    /\ gap = "feed"
    /\ FeedWrite(bt.rpc_session) \/ FeedTimeout(bt.rpc_session)
    /\ gap' = "signal"
    /\ UNCHANGED <<busy_mutex, link, bt, serial, sending, unacked, cli, inputs>>

\* The worker is woken; rpc_session_get_available_size is asked, and ignored.
GapSignal ==
    /\ gap = "signal"
    /\ FeedSignal(bt.rpc_session)
    /\ gap' = "idle"
    /\ UNCHANGED <<busy_mutex, link, bt, serial, sending, unacked, cli, inputs>>

\* The phone's confirmation of the last indication.
GapConfirm ==
    /\ gap = "idle" /\ link = "up" /\ unacked
    /\ unacked' = FALSE
    /\ bt' = [bt EXCEPT !.rpc_event = IF serial.callback THEN @ \cup {"BUFF_SENT"} ELSE @]
    /\ UNCHANGED <<rpcVars, link, gap, serial, sending, cli, inputs>>

LinkLost ==
    /\ link = "up"
    /\ link' = "lost"
    /\ unacked' = FALSE
    /\ UNCHANGED <<rpcVars, gap, bt, serial, sending, cli, inputs>>

\* Disconnected: the worker is freed from its wait, then the session closed.
GapDisconnect ==
    /\ gap = "idle" /\ link = "lost"
    /\ bt.rpc_session # NoSession
    /\ bt' = [bt EXCEPT !.rpc_event = @ \cup {"DISCONNECTED"}]
    /\ gap' = "close"
    /\ UNCHANGED <<rpcVars, link, serial, sending, unacked, cli, inputs>>

GapClose ==
    /\ gap = "close"
    /\ CloseSend(bt.rpc_session)
    /\ gap' = "closing"
    /\ UNCHANGED <<busy_mutex, link, bt, serial, sending, unacked, cli, inputs>>

\* The session is closed, and the serial service left without a callback.
GapClosed ==
    /\ gap = "closing"
    /\ CloseRest(bt.rpc_session)
    /\ serial' = NoService
    /\ bt' = [bt EXCEPT !.rpc_session = NoSession]
    /\ gap' = "idle"
    /\ link' = "down"
    /\ UNCHANGED <<busy_mutex, sending, unacked, cli, inputs>>

-----------------------------------------------------------------------------
\* The worker of a Bluetooth session inside its callbacks.

\* Mutant: the credit is renewed only while some is left.
NotifyWhileReady(s) ==
    /\ session[s].pc = "notify" /\ ~SerialBusy
    /\ serial' = IF serial.ready > 0 THEN [serial EXCEPT !.ready = serial.buff_size] ELSE serial
    /\ Become(s, Decoded(s, session[s]))
    /\ UNCHANGED <<busy_mutex, link, gap, bt, sending, unacked, cli, inputs>>

\* furi_hal_bt_serial_notify_buffer_is_empty.
BtNotify(s) ==
    /\ session[s].pc = "notify" /\ ~SerialBusy
    /\ serial' = IF serial.ready = 0 THEN [serial EXCEPT !.ready = serial.buff_size] ELSE serial
    /\ Become(s, Decoded(s, session[s]))
    /\ UNCHANGED <<busy_mutex, link, gap, bt, sending, unacked, cli, inputs>>

\* bt_rpc_send_bytes_callback: old events are cleared, then frame by frame
\* the answer is sent and its confirmation, or the end of the link, awaited.
BtSend(s) ==
    /\ s \in BtSessions /\ session[s].pc = "call" /\ sending = 0
    /\ bt' = [bt EXCEPT !.rpc_event = {}]
    /\ unacked' = (link = "up")
    /\ sending' \in 1 .. MaxFrames
    /\ UNCHANGED <<rpcVars, link, gap, serial, cli, inputs>>

BtSendWait(s) ==
    /\ s \in BtSessions /\ session[s].pc = "call"
    /\ sending > 0 /\ bt.rpc_event # {}
    /\ bt' = [bt EXCEPT !.rpc_event = {}]
    /\ IF "DISCONNECTED" \in bt.rpc_event \/ sending = 1
       THEN sending' = 0 /\ Sent(s) /\ UNCHANGED unacked
       ELSE
            /\ sending' = sending - 1 /\ unacked' = (link = "up") /\ UNCHANGED session
    /\ UNCHANGED <<busy_mutex, link, gap, serial, cli, inputs>>

-----------------------------------------------------------------------------
\* The console: rpc_cli_command_start_session.

CliStart ==
    /\ cli.pc = "idle"
    /\ \E s \in Fresh(CliSessions) :
         /\ Open(s, {"send", "closed"})
         /\ cli' = [pc |-> "loop", session |-> s, close_request |-> FALSE]
    /\ UNCHANGED <<busy_mutex, btVars, inputs>>

CliReceive(packet) ==
    /\ cli.pc = "loop" /\ ~cli.close_request /\ inputs < MaxInputs
    /\ inputs' = inputs + 1
    /\ Feed(cli.session, packet)
    /\ cli' = [cli EXCEPT !.pc = "feed"]
    /\ UNCHANGED <<busy_mutex, btVars>>

\* A feed that was cut short fails furi_assert(fed_bytes == size_received).
CliFed ==
    /\ \/ cli.pc = "feed" /\ FeedWrite(cli.session) /\ cli' = [cli EXCEPT !.pc = "signal"]
       \/ cli.pc = "feed" /\ FeedTimeout(cli.session) /\ cli' = [cli EXCEPT !.pc = "halted"]
       \/ cli.pc = "signal" /\ FeedSignal(cli.session) /\ cli' = [cli EXCEPT !.pc = "loop"]
    /\ UNCHANGED <<busy_mutex, btVars, inputs>>

\* The loop ends when the worker asked for it or the USB cable is pulled.
CliClose ==
    /\ cli.pc = "loop"
    /\ CloseSend(cli.session)
    /\ cli' = [cli EXCEPT !.pc = "closing"]
    /\ UNCHANGED <<busy_mutex, btVars, inputs>>

CliClosed ==
    /\ cli.pc = "closing"
    /\ CloseRest(cli.session)
    /\ cli' = [cli EXCEPT !.pc = "idle", !.session = NoSession]
    /\ UNCHANGED <<busy_mutex, btVars, inputs>>

\* Its callbacks, in the worker: cli_write, and the request to close.
CliSend(s) ==
    /\ s \in CliSessions /\ session[s].pc = "call"
    /\ Sent(s)
    /\ UNCHANGED <<busy_mutex, btVars, cli, inputs>>

Replied(s) ==
    \E asks \in BOOLEAN :
        /\ WorkerReplied(s, asks)
        /\ cli' = [cli EXCEPT !.close_request = @ \/ asks]
        /\ UNCHANGED <<btVars, inputs>>

-----------------------------------------------------------------------------
Worker(s) == \/ WorkerStep(s) /\ UNCHANGED <<btVars, cli, inputs>>
             \/ BtNotify(s) \/ BtSend(s) \/ BtSendWait(s)
             \/ CliSend(s) \/ Replied(s)
Gap == GapFed \/ GapSignal \/ GapConfirm
           \/ GapDisconnect \/ GapClose \/ GapClosed
CliThread == CliFed \/ CliClosed \/ (cli.close_request /\ CliClose)

Next ==
    /\ cli.pc # "halted"
    /\ \/ \E s \in Sessions : Worker(s)
       \/ GapConnect \/ LinkLost \/ Gap
       \/ CliStart \/ CliClose \/ CliFed \/ CliClosed
       \/ \E packet \in Packets : GapReceive(packet) \/ CliReceive(packet)

\* Threads run; nothing obliges anyone to connect, to send or to pull a
\* cable.  A phone confirms an indication or the link is lost (the attribute
\* protocol's transaction timeout).
Fairness ==
    /\ \A s \in Sessions : WF_vars(Worker(s) /\ cli.pc # "halted")
    /\ WF_vars(Gap /\ cli.pc # "halted")
    /\ WF_vars(CliThread /\ cli.pc # "halted")

Spec == Init /\ [][Next]_vars /\ Fairness

-----------------------------------------------------------------------------
\* The GAP thread never feeds, wakes or closes a session that is freed, or
\* none: the session it works on stays until it closes it itself.
GapUsesLiveSession ==
    /\ RpcTypeOK
    /\ gap # "idle" => Live(bt.rpc_session)

\* A worker inside send_bytes_callback finds the transport that set it: the
\* link's session is still this one, and the console's command has not
\* returned (the callback's context is on that thread's stack), because
\* rpc_session_close waits for callbacks_mutex.
CallbackFindsTransport ==
    \A s \in Sessions :
        session[s].pc = "call" => s = IF s \in BtSessions THEN bt.rpc_session ELSE cli.session

\* A session ends only when every command that was accepted has been handled:
\* rpc_pb_stream_read puts Disconnect back until the buffer is empty, and the
\* thread that closes is the one that feeds.  Input that was dropped or did
\* not decode is excepted: nothing after it can be told apart.
ClosedSessionIsDrained ==
    \A s \in Sessions :
        session[s].pc = "free" /\ ~session[s].decode_error /\ ~session[s].torn
            => session[s].owed = 0

\* The invariant behind the three.  Who may use session s: the transport that
\* has opened it and has not closed it.
Owner(s) == IF s \in BtSessions THEN bt.rpc_session ELSE cli.session
Owned(s) == Owner(s) = s

TransportsTypeOK ==
    /\ RpcTypeOK
    /\ link \in {"down", "up", "lost"}
    /\ gap \in {"idle", "feed", "signal", "close", "closing"}
    /\ bt \in [rpc_session : BtSessions \cup {NoSession},
               rpc_event : SUBSET {"BUFF_SENT", "DISCONNECTED"}]
    /\ serial \in [callback : BOOLEAN, buff_size : 0 .. RPC_BUFFER_SIZE,
                   ready : 0 .. RPC_BUFFER_SIZE]
    /\ sending \in 0 .. MaxFrames
    /\ unacked \in BOOLEAN
    /\ cli \in [pc : {"idle", "loop", "feed", "signal", "closing", "halted"},
                session : CliSessions \cup {NoSession}, close_request : BOOLEAN]
    /\ inputs \in 0 .. MaxInputs

\* The Bluetooth session lasts as long as the link, the console's as long as
\* the command.
OwnersConsistent ==
    /\ bt.rpc_session = NoSession <=> link = "down"
    /\ bt.rpc_session = NoSession => gap = "idle" /\ ~serial.callback
    /\ cli.session = NoSession <=> cli.pc = "idle"

\* Every command that was accepted is in the buffer, or in the worker's hands.
InHand(r) == IF r.unit = "end" /\ r.pc \in {"notify", "handle"} THEN 1 ELSE 0
Accounted(r) ==
    ~r.decode_error /\ ~r.torn =>
        /\ r.owed = Commands(r.stream) + InHand(r)
        /\ r.pc = "free" => r.stream = <<>>

\* A session that is owned is alive and was not told to end; only such a one
\* sends through its owner.
SessionConsistent(r, owned) ==
    /\ owned => r.pc \notin {"none", "free", "freed"} /\ "Disconnect" \notin r.flags
    /\ "send" \in r.callbacks => owned
    /\ r.pc = "call" => owned /\ r.replies > 0
    /\ Accounted(r)

RpcInv ==
    /\ TransportsTypeOK
    /\ OwnersConsistent
    /\ \A s \in Sessions : SessionConsistent(session[s], Owned(s))

\* A worker never waits for a flag over input it has not read: whoever wrote it
\* has set the flag, or is about to.  Input that came between the worker's last
\* read and its wait is included; what follows a decoding error is left.
Signals(s) == \/ s = bt.rpc_session /\ gap = "signal"
              \/ s = cli.session /\ cli.pc \in {"signal", "halted"}
InputWakesWorker ==
    \A s \in Sessions :
        session[s].pc = "wait" /\ session[s].stream # <<>> /\ ~session[s].decode_error
            => session[s].flags # {} \/ Signals(s)

\* A session that its transport has left knows it until it ends: every turn of
\* the worker that takes Disconnect and goes on puts it back (rpc.c:444-454).
ClosedSessionIsTold ==
    \A s \in Sessions :
        Live(s) /\ ~Owned(s) => session[s].pc = "free" \/ "Disconnect" \in session[s].flags

\* A phone that has no credit left has input on its way through the buffer, at
\* whose end the worker renews it: bytes_ready_to_receive is never 0 with
\* nothing to read (serial_service.c:47-56, 164-180).
CreditIsDue ==
    \A s \in BtSessions :
        s = bt.rpc_session /\ serial.callback /\ serial.ready = 0 /\ ~session[s].decode_error
            => \/ session[s].stream # <<>> \/ session[s].pc = "notify"
               \/ (gap = "feed" /\ session[s].feeding # <<>>)

\* Nobody waits for what has come, or for what nobody is to bring: the worker
\* for input and the end of its session (rpc.c:411, 444), the phone for credit.
NobodyWaitsInVain == InputWakesWorker /\ ClosedSessionIsTold /\ CreditIsDue

\* rpc.h:48: no callback is called once rpc_session_close has returned; the
\* worker is at "notify" when it has fetched buffer_is_empty_callback.
NoCallbackAfterClose ==
    \A s \in Sessions : session[s].pc \in {"call", "notify"} =>
        bt.rpc_session = s \/ cli.session = s

\* The worker waits for a confirmation that can no longer come: the link was
\* lost before its indication went out, and it cleared the event that says so.
StuckInSend == sending > 0 /\ link # "up"

\* A closed session ends, and gives its memory back, whatever it was fed
\* before, unless a Bluetooth answer is caught by the end of the link.
ClosedSessionEnds ==
    \A s \in Sessions :
        "Disconnect" \in session[s].flags
            ~> session[s].pc = "freed" \/ StuckInSend \/ cli.pc = "halted"

\* bt.c:225: the event that frees the worker from its wait lets a
\* disconnection finish.
DisconnectionFinishes == gap = "close" ~> gap # "close" \/ cli.pc = "halted"

\* The phone gets its credit back: a phone that used it all may send again,
\* unless the link ends or the input stopped making sense.
CreditReturns ==
    link = "up" /\ serial.callback /\ serial.ready = 0
        ~> \/ serial.ready > 0 \/ link # "up" \/ cli.pc = "halted"
           \/ \E s \in BtSessions : s = bt.rpc_session /\ session[s].decode_error
=============================================================================
