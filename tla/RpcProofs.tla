----------------------------- MODULE RpcProofs ------------------------------
(***************************************************************************)
(* Proofs about the RPC sessions and their transports, RpcTransports: a    *)
(* transport uses the session it opened until it closes it, the worker     *)
(* answers through a transport that is there, and what was accepted is     *)
(* handled before a session ends; no worker waits over input or over the   *)
(* end of its session, and no phone waits for credit that is not due.      *)
(***************************************************************************)
EXTENDS RpcTransports, FiniteSetTheorems, FunctionTheorems, SequenceTheorems, TLAPS

-----------------------------------------------------------------------------
(* Counting the commands in a buffer *)

LEMMA CommandsCount ==
    ASSUME NEW units \in Seq(Unit)
    PROVE  Commands(units) \in Nat /\ IsFiniteSet({i \in DOMAIN units : units[i] = "end"})
<1>1. DOMAIN units = 1 .. Len(units) /\ Len(units) \in Nat
  OBVIOUS
<1>2. IsFiniteSet({i \in DOMAIN units : units[i] = "end"})
  <2>1. IsFiniteSet(1 .. Len(units))
    BY <1>1, FS_Interval
  <2>2. {i \in DOMAIN units : units[i] = "end"} \in SUBSET (1 .. Len(units))
    BY <1>1
  <2> QED BY <2>1, <2>2, FS_Subset
<1> QED
  BY <1>2, FS_CardinalityType DEF Commands

LEMMA NoCommands == Commands(<<>>) = 0
<1>1. {i \in DOMAIN <<>> : <<>>[i] = "end"} = {}
  OBVIOUS
<1> QED
  BY <1>1, FS_EmptySet DEF Commands

\* What is written behind a buffer is counted with it.
LEMMA CommandsConcat ==
    ASSUME NEW u \in Seq(Unit), NEW v \in Seq(Unit)
    PROVE  Commands(u \o v) = Commands(u) + Commands(v)
<1> DEFINE U == {i \in DOMAIN u : u[i] = "end"}
           V == {i \in DOMAIN v : v[i] = "end"}
           W == {i \in DOMAIN (u \o v) : (u \o v)[i] = "end"}
           n == Len(u)
           S == {i \in n + 1 .. n + Len(v) : v[i - n] = "end"}
<1>1. /\ n \in Nat /\ Len(v) \in Nat /\ DOMAIN u = 1 .. n /\ DOMAIN v = 1 .. Len(v)
      /\ DOMAIN (u \o v) = 1 .. n + Len(v)
      /\ \A i \in 1 .. n + Len(v) : (u \o v)[i] = IF i <= n THEN u[i] ELSE v[i - n]
  BY ConcatProperties, LenProperties
<1>2. W = U \cup S /\ U \cap S = {}
  BY <1>1
<1>3. IsFiniteSet(U) /\ IsFiniteSet(V)
  BY CommandsCount
<1>4. IsFiniteSet(S) /\ Cardinality(S) = Cardinality(V)
  <2> DEFINE f == [i \in V |-> i + n]
  <2>1. f \in Bijection(V, S)
    <3>1. f \in [V -> S]
      BY <1>1
    <3>2. \A a, b \in V : f[a] = f[b] => a = b
      BY <1>1
    <3>3. \A t \in S : \E s \in V : f[s] = t
      <4> TAKE t \in S
      <4>1. t - n \in V /\ f[t - n] = t
        BY <1>1
      <4> QED BY <4>1
    <3> HIDE DEF f, V, S
    <3> QED BY <3>1, <3>2, <3>3, Fun_IsBij
  <2> QED BY <2>1, <1>3, FS_Bijection DEF ExistsBijection
<1>5. Cardinality(U \cup S) = Cardinality(U) + Cardinality(S) - Cardinality(U \cap S)
  BY <1>3, <1>4, FS_Union
<1>6. Cardinality(U \cap S) = 0
  BY <1>2, FS_EmptySet
<1>7. Cardinality(U) \in Nat /\ Cardinality(S) \in Nat
  BY <1>3, <1>4, FS_CardinalityType
<1> HIDE DEF U, V, W, S
<1>8. Cardinality(W) = Cardinality(U) + Cardinality(V)
  BY <1>2, <1>4, <1>5, <1>6, <1>7
<1> QED
  BY <1>8 DEF Commands, U, V, W

\* What is read from a buffer is no longer counted with it.
LEMMA CommandsTail ==
    ASSUME NEW u \in Seq(Unit), u # <<>>
    PROVE  /\ Head(u) \in Unit /\ Tail(u) \in Seq(Unit) /\ Len(Tail(u)) <= Len(u)
           /\ Commands(u) = Commands(Tail(u)) + (IF Head(u) = "end" THEN 1 ELSE 0)
<1>1. /\ Head(u) \in Unit /\ Tail(u) \in Seq(Unit) /\ Len(Tail(u)) <= Len(u)
      /\ u = <<Head(u)>> \o Tail(u)
  OBVIOUS
<1>2. <<Head(u)>> \in Seq(Unit) /\ DOMAIN <<Head(u)>> = {1} /\ <<Head(u)>>[1] = Head(u)
  BY <1>1
<1>3. Commands(<<Head(u)>>) = IF Head(u) = "end" THEN 1 ELSE 0
  <2>1. {i \in DOMAIN <<Head(u)>> : <<Head(u)>>[i] = "end"} =
          IF Head(u) = "end" THEN {1} ELSE {}
    BY <1>2
  <2> QED BY <2>1, FS_EmptySet, FS_Singleton DEF Commands
<1>4. Commands(u) = Commands(<<Head(u)>>) + Commands(Tail(u))
  BY <1>1, <1>2, CommandsConcat
<1>5. Commands(Tail(u)) \in Nat
  BY <1>1, CommandsCount
<1> QED
  BY <1>1, <1>3, <1>4, <1>5

-----------------------------------------------------------------------------
(* What happens to one session *)

\* Type and consistency of one session, for its owner's state.
SessionOK(r, owned) ==
    /\ r \in RpcSessionStruct
    /\ Len(r.stream) <= RPC_BUFFER_SIZE
    /\ Len(r.feeding) <= RPC_BUFFER_SIZE
    /\ SessionConsistent(r, owned)

\* How what the worker does to its session is seen by the invariant.
LEMMA WorkerMoves ==
    ASSUME NEW r, NEW owned \in BOOLEAN, SessionOK(r, owned), NEW b \in RpcSessionStruct,
           b.feeding = r.feeding, b.flags = r.flags, b.callbacks = r.callbacks,
           b.pc \notin {"none", "free", "freed"}, Len(b.stream) <= RPC_BUFFER_SIZE,
           b.pc = "call" => owned /\ b.replies > 0,
           ~b.decode_error /\ ~b.torn => b.owed = Commands(b.stream) + InHand(b)
    PROVE  SessionOK(b, owned)
<1>1. Accounted(b)
  BY DEF Accounted
<1>2. SessionConsistent(b, owned)
  BY <1>1 DEF SessionOK, SessionConsistent
<1> QED
  BY <1>2 DEF SessionOK

\* How what a transport does to a session is seen by the invariant.
LEMMA OwnerMoves ==
    ASSUME NEW r, NEW owned \in BOOLEAN, SessionOK(r, owned), NEW b \in RpcSessionStruct,
           NEW after \in BOOLEAN,
           b.pc = r.pc, b.unit = r.unit, b.decode_error = r.decode_error,
           b.replies = r.replies, b.callbacks \subseteq r.callbacks, r.torn => b.torn,
           Len(b.stream) <= RPC_BUFFER_SIZE, Len(b.feeding) <= RPC_BUFFER_SIZE,
           owned,
           \/ after /\ "Disconnect" \notin b.flags
           \/ ~after /\ r.pc # "call" /\ "send" \notin b.callbacks,
           ~r.decode_error /\ ~b.torn =>
               b.owed - Commands(b.stream) = r.owed - Commands(r.stream)
    PROVE  SessionOK(b, after)
<1>1. r \in RpcSessionStruct /\ SessionConsistent(r, owned)
  BY DEF SessionOK
<1>2. Accounted(b)
  <2>1. /\ Commands(b.stream) \in Nat /\ Commands(r.stream) \in Nat
        /\ r.owed \in Nat /\ b.owed \in Nat /\ r.torn \in BOOLEAN
    BY <1>1, CommandsCount DEF RpcSessionStruct
  <2>2. PICK n \in {0, 1} : InHand(b) = n /\ InHand(r) = n
    BY DEF InHand
  <2>3. r.pc # "free"
    BY <1>1 DEF SessionConsistent
  <2> QED BY <1>1, <2>1, <2>2, <2>3 DEF SessionConsistent, Accounted
<1>3. SessionConsistent(b, after)
  BY <1>1, <1>2 DEF SessionConsistent
<1> QED
  BY <1>3 DEF SessionOK

SessionsOK ==
    /\ session \in [Sessions -> RpcSessionStruct]
    /\ \A s \in Sessions : SessionOK(session[s], Owned(s))

TransportsOK ==
    /\ busy_mutex \in Sessions \cup {NoSession}
    /\ link \in {"down", "up", "lost"}
    /\ gap \in {"idle", "feed", "signal", "close", "closing"}
    /\ bt \in [rpc_session : BtSessions \cup {NoSession},
               rpc_event : SUBSET {"BUFF_SENT", "DISCONNECTED"}]
    /\ serial \in [callback : BOOLEAN, buff_size : 0 .. RPC_BUFFER_SIZE,
                   ready : 0 .. RPC_BUFFER_SIZE]
    /\ sending \in 0 .. MaxFrames
    /\ unacked \in BOOLEAN
    /\ cli \in [pc : {"idle", "loop", "feed", "signal", "closing", "halted"},
                session : CliSessions \cup {NoSession}, close_request : BOOLEAN]
    /\ inputs \in 0 .. MaxInputs
    /\ OwnersConsistent

\* The invariant, taken apart into the sessions and their transports.
LEMMA InvariantParts == RpcInv <=> SessionsOK /\ TransportsOK
  BY DEF RpcInv, TransportsTypeOK, RpcTypeOK, SessionsOK, TransportsOK, SessionOK

LEMMA InvariantPartsNext == SessionsOK' /\ TransportsOK' => RpcInv'
  BY DEF RpcInv, TransportsTypeOK, RpcTypeOK, SessionsOK, TransportsOK, SessionOK

\* A step of one session, whose owner stays.
LEMMA SessionStep ==
    ASSUME SessionsOK, NEW s \in Sessions, NEW b, Become(s, b), SessionOK(b, Owned(s)),
           bt'.rpc_session = bt.rpc_session, cli'.session = cli.session
    PROVE  SessionsOK'
<1>1. /\ session' \in [Sessions -> RpcSessionStruct] /\ session'[s] = b
      /\ \A t \in Sessions \ {s} : session'[t] = session[t]
  BY DEF SessionsOK, SessionOK, Become
<1>2. \A t \in Sessions : Owned(t)' <=> Owned(t)
  BY DEF Owned, Owner, BtSessions
<1>3. \A t \in Sessions : SessionOK(session'[t], Owned(t))
  BY <1>1 DEF SessionsOK
<1>4. \A t \in Sessions : SessionOK(session'[t], Owned(t)')
  BY <1>2, <1>3 DEF SessionOK, SessionConsistent
<1> QED
  BY <1>1, <1>4 DEF SessionsOK

\* Sessions and owners that stay as they are.
LEMMA NoSessionStep ==
    ASSUME SessionsOK, UNCHANGED session,
           bt'.rpc_session = bt.rpc_session, cli'.session = cli.session
    PROVE  SessionsOK'
<1>1. \A t \in Sessions : Owned(t)' <=> Owned(t)
  BY DEF Owned, Owner, BtSessions
<1> QED
  BY <1>1 DEF SessionsOK, SessionOK, SessionConsistent

-----------------------------------------------------------------------------
(* The steps of a worker *)

\* A unit that was read is counted in the worker's hand.
LEMMA DecodedOK ==
    ASSUME NEW s, NEW r, NEW owned \in BOOLEAN, SessionOK(r, owned), r.pc \in {"read", "notify"},
           NEW q \in Seq(Unit), Len(q) <= RPC_BUFFER_SIZE, NEW unit \in Unit \cup {"none"},
           ~r.decode_error /\ ~r.torn =>
              r.owed = Commands(q) + (IF unit = "end" THEN 1 ELSE 0),
           NEW g \in RpcSessionStruct,
           g.unit = unit, g.stream = q, g.decode_error = r.decode_error,
           g.torn = r.torn, g.owed = r.owed,
           g.feeding = r.feeding, g.flags = r.flags, g.callbacks = r.callbacks
    PROVE  SessionOK(Decoded(s, g), owned)
<1> USE RpcAssumption
<1> DEFINE d == Decoded(s, g)
<1>1. r \in RpcSessionStruct /\ Commands(q) \in Nat
  BY CommandsCount DEF SessionOK
<1>2. r.decode_error \in BOOLEAN /\ 1 \in 0 .. MaxReplies
  BY <1>1 DEF RpcSessionStruct
<1>4. CASE r.decode_error = TRUE \/ unit = "none"
  <2>1. d = [g EXCEPT !.pc = "wait", !.unit = "none"]
    <3>1. CASE unit = "none"
      BY <3>1 DEF Decoded
    <3>2. CASE r.decode_error = TRUE
      <4>1. g.decode_error = TRUE
        BY <3>2
      <4> QED BY <4>1, Zenon DEF Decoded
    <3> QED BY <1>4, <3>1, <3>2
  <2>2. /\ d \in RpcSessionStruct /\ d.pc = "wait" /\ d.stream = q /\ d.unit = "none"
        /\ d.decode_error = r.decode_error /\ d.torn = r.torn /\ d.owed = r.owed
        /\ d.feeding = r.feeding /\ d.flags = r.flags /\ d.callbacks = r.callbacks
    BY <2>1, <1>2 DEF RpcSessionStruct
  <2> HIDE DEF d
  <2>3. ~d.decode_error /\ ~d.torn => d.owed = Commands(d.stream) + InHand(d)
    BY <2>2, <1>4, <1>1 DEF InHand
  <2>4. SessionOK(d, owned)
    BY <2>2, <2>3, WorkerMoves
  <2> QED BY <2>4 DEF d
<1>5. CASE r.decode_error = FALSE /\ unit = "part"
  <2>1. d = [g EXCEPT !.pc = "read", !.unit = "none"]
    BY <1>5, <1>2 DEF Decoded
  <2>2. /\ d \in RpcSessionStruct /\ d.pc = "read" /\ d.stream = q /\ d.unit = "none"
        /\ d.decode_error = r.decode_error /\ d.torn = r.torn /\ d.owed = r.owed
        /\ d.feeding = r.feeding /\ d.flags = r.flags /\ d.callbacks = r.callbacks
    BY <2>1, <1>2 DEF RpcSessionStruct
  <2> HIDE DEF d
  <2>3. ~d.decode_error /\ ~d.torn => d.owed = Commands(d.stream) + InHand(d)
    BY <2>2, <1>5, <1>1 DEF InHand
  <2>4. SessionOK(d, owned)
    BY <2>2, <2>3, WorkerMoves
  <2> QED BY <2>4 DEF d
<1>6. CASE r.decode_error = FALSE /\ unit \in {"end", "stop"}
  <2>1. d = [g EXCEPT !.pc = "handle", !.replies = 1]
    BY <1>6, <1>2 DEF Decoded
  <2>2. /\ d \in RpcSessionStruct /\ d.pc = "handle" /\ d.stream = q /\ d.unit = unit
        /\ d.decode_error = r.decode_error /\ d.torn = r.torn /\ d.owed = r.owed
        /\ d.feeding = r.feeding /\ d.flags = r.flags /\ d.callbacks = r.callbacks
    BY <2>1, <1>2 DEF RpcSessionStruct
  <2> HIDE DEF d
  <2>3. ~d.decode_error /\ ~d.torn => d.owed = Commands(d.stream) + InHand(d)
    BY <2>2, <1>6, <1>1 DEF InHand
  <2>4. SessionOK(d, owned)
    BY <2>2, <2>3, WorkerMoves
  <2> QED BY <2>4 DEF d
<1>7. CASE r.decode_error = FALSE /\ unit = "unknown"
  <2>1. d = [g EXCEPT !.pc = "reply", !.replies = 1]
    BY <1>7, <1>2 DEF Decoded
  <2>2. /\ d \in RpcSessionStruct /\ d.pc = "reply" /\ d.stream = q /\ d.unit = unit
        /\ d.decode_error = r.decode_error /\ d.torn = r.torn /\ d.owed = r.owed
        /\ d.feeding = r.feeding /\ d.flags = r.flags /\ d.callbacks = r.callbacks
    BY <2>1, <1>2 DEF RpcSessionStruct
  <2> HIDE DEF d
  <2>3. ~d.decode_error /\ ~d.torn => d.owed = Commands(d.stream) + InHand(d)
    BY <2>2, <1>7, <1>1 DEF InHand
  <2>4. SessionOK(d, owned)
    BY <2>2, <2>3, WorkerMoves
  <2> QED BY <2>4 DEF d
<1>8. CASE r.decode_error = FALSE /\ unit = "bad"
  <2>1. PICK p \in {<<>>, q} :
          d = [[g EXCEPT !.pc = "reply", !.replies = 1] EXCEPT !.decode_error = TRUE, !.stream = p]
    <3>1. d = [[g EXCEPT !.pc = "reply", !.replies = 1]
                 EXCEPT !.decode_error = TRUE, !.stream = IF Room(s) THEN <<>> ELSE @]
      BY <1>8 DEF Decoded
    <3> QED BY <3>1 DEF RpcSessionStruct
  <2>2. p \in Seq(Unit) /\ Len(p) <= RPC_BUFFER_SIZE
    <3>1. <<>> \in Seq(Unit) /\ Len(<<>>) = 0
      OBVIOUS
    <3>2. CASE p = <<>>
      BY <3>1, <3>2
    <3>3. CASE p = q
      BY <3>3
    <3> QED BY <2>1, <3>2, <3>3
  <2>3. /\ d \in RpcSessionStruct /\ d.pc = "reply" /\ d.stream = p /\ d.decode_error = TRUE
        /\ d.feeding = r.feeding /\ d.flags = r.flags /\ d.callbacks = r.callbacks
    BY <2>1, <2>2, <1>2 DEF RpcSessionStruct
  <2> HIDE DEF d
  <2>4. SessionOK(d, owned)
    BY <2>2, <2>3, WorkerMoves
  <2> QED BY <2>4 DEF d
<1> QED
  BY <1>2, <1>4, <1>5, <1>6, <1>7, <1>8 DEF Unit, Kinds

\* rpc_pb_stream_read takes a unit from the buffer into the worker's hand.
LEMMA WorkerReadOK ==
    ASSUME SessionsOK, NEW s \in Sessions, WorkerRead(s)
    PROVE  \E b : Become(s, b) /\ SessionOK(b, Owned(s))
<1> DEFINE r == session[s]
           queue == r.stream
           rest == IF queue = <<>> THEN <<>> ELSE Tail(queue)
<1>1. SessionOK(r, Owned(s)) /\ r \in RpcSessionStruct /\ r.pc = "read" /\ Owned(s) \in BOOLEAN
  BY DEF SessionsOK, SessionOK, WorkerRead, Owned
<1>2. queue \in Seq(Unit) /\ Len(queue) <= RPC_BUFFER_SIZE /\ r.torn \in BOOLEAN
  BY <1>1 DEF RpcSessionStruct, SessionOK
<1>3. PICK unit \in IF queue = <<>> THEN {"none"} ELSE IF r.torn THEN Unit ELSE {Head(queue)} :
        Become(s, IF rest = <<>> /\ "empty" \in r.callbacks
                  THEN [[r EXCEPT !.stream = rest, !.unit = unit] EXCEPT !.pc = "notify"]
                  ELSE Decoded(s, [r EXCEPT !.stream = rest, !.unit = unit]))
  BY DEF WorkerRead
<1>4. ~r.decode_error /\ ~r.torn => r.owed = Commands(queue)
  <2>1. Commands(queue) \in Nat
    BY <1>2, CommandsCount
  <2> QED BY <1>1, <2>1 DEF SessionOK, SessionConsistent, Accounted, InHand
<1>5. /\ rest \in Seq(Unit) /\ Len(rest) <= RPC_BUFFER_SIZE /\ unit \in Unit \cup {"none"}
      /\ ~r.decode_error /\ ~r.torn =>
            r.owed = Commands(rest) + (IF unit = "end" THEN 1 ELSE 0)
  <2>1. CASE queue = <<>>
    BY <2>1, <1>2, <1>3, <1>4, NoCommands
  <2>2. CASE queue # <<>>
    <3>1. /\ Head(queue) \in Unit /\ Tail(queue) \in Seq(Unit) /\ Len(Tail(queue)) <= Len(queue)
          /\ Commands(queue) = Commands(Tail(queue)) + (IF Head(queue) = "end" THEN 1 ELSE 0)
      BY <2>2, <1>2, CommandsTail
    <3>2. Len(Tail(queue)) <= RPC_BUFFER_SIZE
      BY <3>1, <1>2, RpcAssumption, LenProperties
    <3>3. rest = Tail(queue) /\ (~r.torn => unit = Head(queue)) /\ unit \in Unit
      BY <2>2, <1>2, <1>3, <3>1
    <3> HIDE DEF rest, r, queue
    <3> QED BY <3>1, <3>2, <3>3, <1>4
  <2> QED BY <2>1, <2>2
<1> HIDE DEF rest, r, queue
<1>6. CASE rest = <<>> /\ "empty" \in r.callbacks
  <2> DEFINE b == [[r EXCEPT !.stream = rest, !.unit = unit] EXCEPT !.pc = "notify"]
  <2>1. /\ b \in RpcSessionStruct /\ b.pc = "notify" /\ b.stream = rest /\ b.unit = unit
        /\ b.decode_error = r.decode_error /\ b.torn = r.torn /\ b.owed = r.owed
        /\ b.feeding = r.feeding /\ b.flags = r.flags /\ b.callbacks = r.callbacks
    BY <1>1, <1>5 DEF RpcSessionStruct
  <2>2. Become(s, b)
    BY <1>3, <1>6
  <2> HIDE DEF b
  <2>3. ~b.decode_error /\ ~b.torn => b.owed = Commands(b.stream) + InHand(b)
    BY <2>1, <1>5 DEF InHand
  <2>4. SessionOK(b, Owned(s))
    BY <2>1, <2>3, <1>1, <1>5, WorkerMoves
  <2> QED BY <2>2, <2>4
<1>7. CASE ~(rest = <<>> /\ "empty" \in r.callbacks)
  <2>1. Become(s, Decoded(s, [r EXCEPT !.stream = rest, !.unit = unit]))
    BY <1>3, <1>7
  <2> DEFINE g == [r EXCEPT !.stream = rest, !.unit = unit]
  <2>2. /\ g \in RpcSessionStruct /\ g.stream = rest /\ g.unit = unit
        /\ g.decode_error = r.decode_error /\ g.torn = r.torn /\ g.owed = r.owed
        /\ g.feeding = r.feeding /\ g.flags = r.flags /\ g.callbacks = r.callbacks
    BY <1>1, <1>5 DEF RpcSessionStruct
  <2>3. Become(s, Decoded(s, g))
    BY <2>1
  <2> HIDE DEF g
  <2>4. SessionOK(Decoded(s, g), Owned(s))
    BY <2>2, <1>1, <1>5, DecodedOK
  <2> QED BY <2>3, <2>4
<1> QED
  BY <1>6, <1>7

\* osThreadFlagsWait: only a session without an owner and without input ends.
LEMMA WorkerWaitOK ==
    ASSUME SessionsOK, NEW s \in Sessions, WorkerWait(s)
    PROVE  \E b : Become(s, b) /\ SessionOK(b, Owned(s))
<1> DEFINE r == session[s]
<1>1. SessionOK(r, Owned(s)) /\ r \in RpcSessionStruct /\ r.pc = "wait" /\ Owned(s) \in BOOLEAN
  BY DEF SessionsOK, SessionOK, Owned, WorkerWait
<1> DEFINE over == "Disconnect" \in r.flags /\ r.stream = <<>>
           b == [r EXCEPT !.pc = IF over THEN "free" ELSE "read",
                          !.flags = IF over THEN {} ELSE @ \cap {"Disconnect"}]
<1>2. Become(s, b)
  BY DEF WorkerWait
<1> HIDE DEF r
<1>3. /\ b \in RpcSessionStruct /\ b.stream = r.stream /\ b.feeding = r.feeding
      /\ b.unit = r.unit /\ b.decode_error = r.decode_error /\ b.callbacks = r.callbacks
      /\ b.owed = r.owed /\ b.torn = r.torn
      /\ b.pc = (IF over THEN "free" ELSE "read") /\ b.flags \subseteq r.flags
  BY <1>1 DEF RpcSessionStruct
<1> HIDE DEF b
<1>4. Accounted(b)
  BY <1>1, <1>3 DEF SessionOK, SessionConsistent, Accounted, InHand
<1>5. SessionConsistent(b, Owned(s))
  BY <1>1, <1>3, <1>4 DEF SessionOK, SessionConsistent
<1>6. SessionOK(b, Owned(s))
  BY <1>1, <1>3, <1>5 DEF SessionOK
<1> QED
  BY <1>2, <1>6

\* The handler takes a command out of the worker's hand.
LEMMA WorkerHandleOK ==
    ASSUME SessionsOK, NEW s \in Sessions, WorkerHandle(s)
    PROVE  \E b : Become(s, b) /\ SessionOK(b, Owned(s))
<1> USE RpcAssumption
<1> DEFINE r == session[s]
<1>1. SessionOK(r, Owned(s)) /\ r \in RpcSessionStruct /\ r.pc = "handle" /\ Owned(s) \in BOOLEAN
  BY DEF SessionsOK, SessionOK, Owned, WorkerHandle
<1>2. PICK n \in 0 .. MaxReplies :
        Become(s, [r EXCEPT !.pc = "reply", !.replies = n,
                            !.owed = IF @ > 0 /\ r.unit = "end" THEN @ - 1 ELSE @])
  <2>1. PICK n \in IF r.unit = "stop" THEN {1} ELSE 0 .. MaxReplies :
          Become(s, [r EXCEPT !.pc = "reply", !.replies = n,
                              !.owed = IF @ > 0 /\ r.unit = "end" THEN @ - 1 ELSE @])
    BY DEF WorkerHandle
  <2>2. n \in 0 .. MaxReplies
    BY <2>1
  <2> QED BY <2>1, <2>2
<1> HIDE DEF r
<1> DEFINE o == IF r.owed > 0 /\ r.unit = "end" THEN r.owed - 1 ELSE r.owed
           b == [r EXCEPT !.pc = "reply", !.replies = n, !.owed = o]
<1>o. o \in Nat /\ Become(s, b)
  BY <1>1, <1>2 DEF RpcSessionStruct
<1> HIDE DEF o
<1>3. /\ b \in RpcSessionStruct /\ b.stream = r.stream /\ b.feeding = r.feeding
      /\ b.flags = r.flags /\ b.unit = r.unit /\ b.decode_error = r.decode_error
      /\ b.callbacks = r.callbacks /\ b.torn = r.torn /\ b.pc = "reply"
      /\ b.owed = o
  BY <1>1, <1>2, <1>o DEF RpcSessionStruct
<1>4. Become(s, b)
  BY <1>o
<1> HIDE DEF b
<1>5. ~b.decode_error /\ ~b.torn => b.owed = Commands(b.stream) + InHand(b)
  <2>1. r.owed \in Nat /\ Commands(r.stream) \in Nat
    BY <1>1, CommandsCount DEF RpcSessionStruct
  <2> QED BY <2>1, <1>1, <1>3 DEF SessionOK, SessionConsistent, Accounted, InHand, o
<1>6. SessionOK(b, Owned(s))
  BY <1>1, <1>3, <1>5, WorkerMoves DEF SessionOK
<1> QED
  BY <1>4, <1>6

\* Answers leave what is owed alone, and go out only to the owner.
LEMMA WorkerReplyOK ==
    ASSUME SessionsOK, NEW s \in Sessions, WorkerReply(s)
    PROVE  \E b : Become(s, b) /\ SessionOK(b, Owned(s))
<1> USE RpcAssumption
<1> DEFINE r == session[s]
<1>1. SessionOK(r, Owned(s)) /\ r \in RpcSessionStruct /\ r.pc = "reply" /\ Owned(s) \in BOOLEAN
  BY DEF SessionsOK, SessionOK, Owned, WorkerReply
<1>2. PICK pc \in {"reply", "call"}, n \in 0 .. MaxReplies :
        /\ Become(s, [r EXCEPT !.pc = pc, !.replies = n])
        /\ pc = "call" => "send" \in r.callbacks /\ n > 0
  <2>1. r.replies \in 0 .. MaxReplies /\ r.replies > 0
    BY <1>1 DEF RpcSessionStruct, WorkerReply
  <2>2. CASE "send" \in r.callbacks
    <3>1. Become(s, [r EXCEPT !.pc = "call"])
      BY <2>2 DEF WorkerReply
    <3>2. [r EXCEPT !.pc = "call"] = [r EXCEPT !.pc = "call", !.replies = r.replies]
      BY <1>1 DEF RpcSessionStruct
    <3> QED BY <3>1, <3>2, <2>1, <2>2
  <2>3. CASE "send" \notin r.callbacks
    <3>1. Become(s, [r EXCEPT !.replies = @ - 1])
      BY <2>3 DEF WorkerReply
    <3>2. [r EXCEPT !.replies = @ - 1] = [r EXCEPT !.pc = "reply", !.replies = r.replies - 1]
      BY <1>1 DEF RpcSessionStruct
    <3>3. r.replies - 1 \in 0 .. MaxReplies
      BY <2>1
    <3> HIDE DEF r
    <3> QED BY <3>1, <3>2, <3>3
  <2> QED BY <2>2, <2>3
<1> HIDE DEF r
<1> DEFINE b == [r EXCEPT !.pc = pc, !.replies = n]
<1>3. /\ b \in RpcSessionStruct /\ b.stream = r.stream /\ b.feeding = r.feeding
      /\ b.flags = r.flags /\ b.unit = r.unit /\ b.decode_error = r.decode_error
      /\ b.callbacks = r.callbacks /\ b.torn = r.torn /\ b.pc = pc /\ b.replies = n
      /\ b.owed = r.owed
  BY <1>1 DEF RpcSessionStruct
<1>4. Become(s, b)
  BY <1>2
<1> HIDE DEF b
<1>5. ~b.decode_error /\ ~b.torn => b.owed = Commands(b.stream) + InHand(b)
  BY <1>1, <1>2, <1>3 DEF SessionOK, SessionConsistent, Accounted, InHand
<1>6. b.pc = "call" => Owned(s) /\ b.replies > 0
  BY <1>1, <1>2, <1>3 DEF SessionOK, SessionConsistent
<1>7. b.pc \notin {"none", "free", "freed"} /\ Len(b.stream) <= RPC_BUFFER_SIZE
  BY <1>1, <1>2, <1>3 DEF SessionOK
<1>8. SessionOK(b, Owned(s))
  BY <1>1, <1>3, <1>5, <1>6, <1>7, WorkerMoves
<1> QED
  BY <1>4, <1>8

\* A callback of the transport has taken an answer.
LEMMA SentOK ==
    ASSUME SessionsOK, NEW s \in Sessions, session[s].pc = "call", Sent(s)
    PROVE  \E b : Become(s, b) /\ SessionOK(b, Owned(s))
<1> USE RpcAssumption
<1> DEFINE r == session[s]
<1>1. SessionOK(r, Owned(s)) /\ r \in RpcSessionStruct /\ r.pc = "call" /\ Owned(s) \in BOOLEAN
  BY DEF SessionsOK, SessionOK, Owned, Sent
<1> DEFINE n == r.replies - 1
           b == [r EXCEPT !.pc = "reply", !.replies = n]
<1>2. Become(s, b)
  BY DEF Sent
<1> HIDE DEF r
<1>3. n \in 0 .. MaxReplies
  BY <1>1 DEF SessionOK, SessionConsistent, RpcSessionStruct
<1> HIDE DEF n
<1>4. /\ b \in RpcSessionStruct /\ b.stream = r.stream /\ b.feeding = r.feeding
      /\ b.flags = r.flags /\ b.unit = r.unit /\ b.decode_error = r.decode_error
      /\ b.callbacks = r.callbacks /\ b.torn = r.torn /\ b.pc = "reply"
      /\ b.owed = r.owed
  BY <1>1, <1>3 DEF RpcSessionStruct
<1> HIDE DEF b
<1>5. ~b.decode_error /\ ~b.torn => b.owed = Commands(b.stream) + InHand(b)
  BY <1>1, <1>4 DEF SessionOK, SessionConsistent, Accounted, InHand
<1>6. SessionOK(b, Owned(s))
  BY <1>1, <1>4, <1>5, WorkerMoves DEF SessionOK
<1> QED
  BY <1>2, <1>6

\* The handler has returned.
LEMMA WorkerRepliedOK ==
    ASSUME SessionsOK, NEW s \in Sessions, NEW asks, WorkerReplied(s, asks)
    PROVE  \E b : Become(s, b) /\ SessionOK(b, Owned(s))
<1> DEFINE r == session[s]
<1>1. SessionOK(r, Owned(s)) /\ r \in RpcSessionStruct /\ r.pc = "reply" /\ Owned(s) \in BOOLEAN
  BY DEF SessionsOK, SessionOK, Owned, WorkerReplied
<1> DEFINE b == [r EXCEPT !.pc = "read", !.unit = "none"]
<1>2. Become(s, b)
  BY DEF WorkerReplied
<1> HIDE DEF r
<1>3. /\ b \in RpcSessionStruct /\ b.stream = r.stream /\ b.feeding = r.feeding
      /\ b.flags = r.flags /\ b.unit = "none" /\ b.decode_error = r.decode_error
      /\ b.callbacks = r.callbacks /\ b.torn = r.torn /\ b.pc = "read"
      /\ b.owed = r.owed
  BY <1>1 DEF RpcSessionStruct
<1> HIDE DEF b
<1>4. ~b.decode_error /\ ~b.torn => b.owed = Commands(b.stream) + InHand(b)
  BY <1>1, <1>3 DEF SessionOK, SessionConsistent, Accounted, InHand
<1>5. SessionOK(b, Owned(s))
  BY <1>1, <1>3, <1>4, WorkerMoves DEF SessionOK
<1> QED
  BY <1>2, <1>5

\* A session that is not used: empty and without an owner.
LEMMA UnusedOK ==
    ASSUME NEW l \in {"none", "freed"}, NEW owned \in BOOLEAN, ~owned
    PROVE  SessionOK([Closed EXCEPT !.pc = l], owned)
<1> DEFINE b == [Closed EXCEPT !.pc = l]
<1>1. <<>> \in Seq(Unit) /\ 0 \in 0 .. MaxReplies /\ Len(<<>>) <= RPC_BUFFER_SIZE
  BY RpcAssumption
<1>2. /\ Closed \in RpcSessionStruct /\ Closed.stream = <<>> /\ Closed.feeding = <<>>
      /\ Closed.owed = 0 /\ Closed.unit = "none" /\ Closed.callbacks = {}
  BY <1>1 DEF Closed, RpcSessionStruct
<1>3. /\ b \in RpcSessionStruct /\ b.stream = <<>> /\ b.feeding = <<>> /\ b.pc = l
      /\ b.owed = 0 /\ b.unit = "none" /\ b.callbacks = {}
  BY <1>2 DEF RpcSessionStruct
<1> HIDE DEF b
<1>4. Accounted(b)
  BY <1>3, NoCommands DEF Accounted, InHand
<1>5. SessionConsistent(b, owned)
  BY <1>3, <1>4 DEF SessionConsistent
<1>6. SessionOK(b, owned)
  BY <1>1, <1>3, <1>5 DEF SessionOK
<1> QED
  BY <1>6 DEF b

LEMMA WorkerFreeOK ==
    ASSUME SessionsOK, NEW s \in Sessions, WorkerFree(s)
    PROVE  \E b : Become(s, b) /\ SessionOK(b, Owned(s))
<1>1. ~Owned(s) /\ Owned(s) \in BOOLEAN
  BY DEF SessionsOK, SessionOK, SessionConsistent, WorkerFree, Owned
<1>2. SessionOK([Closed EXCEPT !.pc = "freed"], Owned(s))
  BY <1>1, UnusedOK
<1> QED
  BY <1>2 DEF WorkerFree

\* buffer_is_empty_callback has returned: the unit in the hand is looked at.
LEMMA BtNotifyOK ==
    ASSUME SessionsOK, NEW s \in Sessions, BtNotify(s)
    PROVE  \E b : Become(s, b) /\ SessionOK(b, Owned(s))
<1> DEFINE r == session[s]
<1>1. SessionOK(r, Owned(s)) /\ r \in RpcSessionStruct /\ r.pc = "notify" /\ Owned(s) \in BOOLEAN
  BY DEF SessionsOK, SessionOK, Owned, BtNotify
<1>2. Become(s, Decoded(s, r))
  BY DEF BtNotify
<1> HIDE DEF r
<1>3. r.stream \in Seq(Unit) /\ Len(r.stream) <= RPC_BUFFER_SIZE /\ r.unit \in Unit \cup {"none"}
  BY <1>1 DEF SessionOK, RpcSessionStruct
<1>4. ~r.decode_error /\ ~r.torn => r.owed = Commands(r.stream) + (IF r.unit = "end" THEN 1 ELSE 0)
  BY <1>1 DEF SessionOK, SessionConsistent, Accounted, InHand
<1>5. SessionOK(Decoded(s, r), Owned(s))
  BY <1>1, <1>3, <1>4, DecodedOK
<1> QED
  BY <1>2, <1>5

-----------------------------------------------------------------------------
(* What an owner does to its session *)

\* rpc_session_feed is given a packet.
LEMMA FeedOK ==
    ASSUME SessionsOK, NEW s \in Sessions, Owned(s), NEW units \in Packets, Feed(s, units)
    PROVE  \E b : Become(s, b) /\ SessionOK(b, Owned(s))
<1> DEFINE r == session[s]
<1>1. SessionOK(r, Owned(s)) /\ r \in RpcSessionStruct /\ Owned(s) \in BOOLEAN
  BY DEF SessionsOK, SessionOK, Owned
<1>2. /\ r.stream \in Seq(Unit) /\ r.feeding \in Seq(Unit) /\ r.owed \in Nat
      /\ Len(r.stream) <= RPC_BUFFER_SIZE /\ Len(r.feeding) <= RPC_BUFFER_SIZE
      /\ Len(r.stream) \in Nat /\ Len(r.feeding) \in Nat
      /\ r.flags \subseteq {"NewData"}
  BY <1>1, LenProperties DEF RpcSessionStruct, SessionOK, SessionConsistent
<1> DEFINE b == [r EXCEPT !.feeding = units]
<1>3. Become(s, b)
  BY DEF Feed
<1>4. units \in Seq(Unit) /\ Len(units) <= RPC_BUFFER_SIZE
  BY TransportsAssumption
<1> HIDE DEF r
<1>5. /\ b \in RpcSessionStruct
      /\ b.pc = r.pc /\ b.unit = r.unit /\ b.decode_error = r.decode_error /\ b.replies = r.replies
      /\ b.callbacks = r.callbacks /\ b.torn = r.torn /\ b.stream = r.stream /\ b.feeding = units
      /\ b.owed = r.owed /\ b.flags = r.flags
  BY <1>1, <1>4 DEF RpcSessionStruct
<1> HIDE DEF b
<1>d. "Disconnect" \notin b.flags
  BY <1>2, <1>5
<1>6. SessionOK(b, Owned(s))
  BY <1>d, <1>1, <1>2, <1>4, <1>5, OwnerMoves
<1> QED
  BY <1>3, <1>6

\* All of the packet is written, and what is owed for it noted.
LEMMA FeedWriteOK ==
    ASSUME SessionsOK, NEW s \in Sessions, Owned(s), FeedWrite(s)
    PROVE  \E b : Become(s, b) /\ SessionOK(b, Owned(s))
<1> DEFINE r == session[s]
<1>1. SessionOK(r, Owned(s)) /\ r \in RpcSessionStruct /\ Owned(s) \in BOOLEAN
  BY DEF SessionsOK, SessionOK, Owned
<1>2. /\ r.stream \in Seq(Unit) /\ r.feeding \in Seq(Unit) /\ r.owed \in Nat
      /\ Len(r.stream) <= RPC_BUFFER_SIZE /\ Len(r.feeding) <= RPC_BUFFER_SIZE
      /\ Len(r.stream) \in Nat /\ Len(r.feeding) \in Nat
      /\ r.flags \subseteq {"NewData"}
  BY <1>1, LenProperties DEF RpcSessionStruct, SessionOK, SessionConsistent
<1> DEFINE q == r.stream \o r.feeding
           o == r.owed + Commands(r.feeding)
           b == [r EXCEPT !.stream = q, !.feeding = <<>>, !.owed = o]
<1>3. Become(s, b)
  BY DEF FeedWrite
<1>4. q \in Seq(Unit) /\ Len(q) <= RPC_BUFFER_SIZE
  <2>1. Len(r.stream) + Len(r.feeding) <= RPC_BUFFER_SIZE
    BY DEF FeedWrite, Room
  <2>2. q \in Seq(Unit) /\ Len(q) = Len(r.stream) + Len(r.feeding)
    BY <1>2, ConcatProperties
  <2> QED BY <2>1, <2>2
<1>5. /\ Commands(q) = Commands(r.stream) + Commands(r.feeding) /\ o \in Nat
      /\ o - Commands(q) = r.owed - Commands(r.stream)
  <2>1. Commands(r.stream) \in Nat /\ Commands(r.feeding) \in Nat
    BY <1>2, CommandsCount
  <2>2. Commands(q) = Commands(r.stream) + Commands(r.feeding)
    BY <1>2, CommandsConcat
  <2> QED BY <1>2, <2>1, <2>2
<1>6. <<>> \in Seq(Unit) /\ Len(<<>>) <= RPC_BUFFER_SIZE
  BY RpcAssumption
<1> HIDE DEF r, q, o
<1>7. /\ b \in RpcSessionStruct
      /\ b.pc = r.pc /\ b.unit = r.unit /\ b.decode_error = r.decode_error /\ b.replies = r.replies
      /\ b.callbacks = r.callbacks /\ b.torn = r.torn /\ b.stream = q /\ b.feeding = <<>>
      /\ b.owed = o /\ b.flags = r.flags
  BY <1>1, <1>4, <1>5, <1>6 DEF RpcSessionStruct
<1> HIDE DEF b
<1>d. "Disconnect" \notin b.flags
  BY <1>2, <1>7
<1>8. SessionOK(b, Owned(s))
  BY <1>d, <1>1, <1>2, <1>4, <1>5, <1>6, <1>7, OwnerMoves
<1> QED
  BY <1>3, <1>8

\* A part of the packet is written: the session is torn.
LEMMA FeedTimeoutOK ==
    ASSUME SessionsOK, NEW s \in Sessions, Owned(s), FeedTimeout(s)
    PROVE  \E b : Become(s, b) /\ SessionOK(b, Owned(s))
<1> DEFINE r == session[s]
<1>1. SessionOK(r, Owned(s)) /\ r \in RpcSessionStruct /\ Owned(s) \in BOOLEAN
  BY DEF SessionsOK, SessionOK, Owned
<1>2. /\ r.stream \in Seq(Unit) /\ r.feeding \in Seq(Unit) /\ r.owed \in Nat
      /\ Len(r.stream) <= RPC_BUFFER_SIZE /\ Len(r.feeding) <= RPC_BUFFER_SIZE
      /\ Len(r.stream) \in Nat /\ Len(r.feeding) \in Nat
      /\ r.flags \subseteq {"NewData"}
  BY <1>1, LenProperties DEF RpcSessionStruct, SessionOK, SessionConsistent
<1> DEFINE n == RPC_BUFFER_SIZE - Len(r.stream)
           fits == SubSeq(r.feeding, 1, n)
           q == r.stream \o fits
           b == [r EXCEPT !.stream = q, !.feeding = <<>>, !.torn = TRUE]
<1>3. Become(s, b)
  BY DEF FeedTimeout
<1>4. q \in Seq(Unit) /\ Len(q) <= RPC_BUFFER_SIZE
  <2>1. n \in Nat /\ n < Len(r.feeding)
    <3>1. ~(Len(r.stream) + Len(r.feeding) <= RPC_BUFFER_SIZE) /\ RPC_BUFFER_SIZE \in Nat
      BY RpcAssumption DEF FeedTimeout, Room
    <3>2. \A a, c, z \in Nat : a <= z /\ ~(a + c <= z) => z - a \in Nat /\ z - a < c
      OBVIOUS
    <3> HIDE DEF r
    <3> QED BY <1>2, <3>1, <3>2
  <2>2. \A i \in 1 .. n : r.feeding[i] \in Unit
    BY <1>2, <2>1
  <2>3. fits \in Seq(Unit) /\ Len(fits) = IF 1 <= n THEN n - 1 + 1 ELSE 0
    BY <2>1, <2>2, SubSeqProperties
  <2>4. Len(fits) = n
    BY <2>1, <2>3
  <2>5. q \in Seq(Unit) /\ Len(q) = Len(r.stream) + Len(fits)
    BY <1>2, <2>3, ConcatProperties
  <2>6. RPC_BUFFER_SIZE \in Nat
    BY RpcAssumption
  <2> HIDE DEF r, fits, q
  <2> QED BY <1>2, <2>4, <2>5, <2>6
<1>5. <<>> \in Seq(Unit) /\ Len(<<>>) <= RPC_BUFFER_SIZE
  BY RpcAssumption
<1> HIDE DEF r, q
<1>6. /\ b \in RpcSessionStruct
      /\ b.pc = r.pc /\ b.unit = r.unit /\ b.decode_error = r.decode_error /\ b.replies = r.replies
      /\ b.callbacks = r.callbacks /\ b.torn = TRUE /\ b.stream = q /\ b.feeding = <<>>
      /\ b.owed = r.owed /\ b.flags = r.flags
  BY <1>1, <1>4, <1>5 DEF RpcSessionStruct
<1> HIDE DEF b
<1>d. "Disconnect" \notin b.flags
  BY <1>2, <1>6
<1>7. SessionOK(b, Owned(s))
  BY <1>d, <1>1, <1>2, <1>4, <1>5, <1>6, OwnerMoves
<1> QED
  BY <1>3, <1>7

LEMMA FeedSignalOK ==
    ASSUME SessionsOK, NEW s \in Sessions, Owned(s), FeedSignal(s)
    PROVE  \E b : Become(s, b) /\ SessionOK(b, Owned(s))
<1> DEFINE r == session[s]
<1>1. SessionOK(r, Owned(s)) /\ r \in RpcSessionStruct /\ Owned(s) \in BOOLEAN
  BY DEF SessionsOK, SessionOK, Owned
<1>2. /\ r.stream \in Seq(Unit) /\ r.feeding \in Seq(Unit) /\ r.owed \in Nat
      /\ Len(r.stream) <= RPC_BUFFER_SIZE /\ Len(r.feeding) <= RPC_BUFFER_SIZE
      /\ Len(r.stream) \in Nat /\ Len(r.feeding) \in Nat
      /\ r.flags \subseteq {"NewData"}
  BY <1>1, LenProperties DEF RpcSessionStruct, SessionOK, SessionConsistent
<1> DEFINE b == [r EXCEPT !.flags = @ \cup {"NewData"}]
<1>3. Become(s, b)
  BY DEF FeedSignal
<1> HIDE DEF r
<1>4. /\ b \in RpcSessionStruct
      /\ b.pc = r.pc /\ b.unit = r.unit /\ b.decode_error = r.decode_error /\ b.replies = r.replies
      /\ b.callbacks = r.callbacks /\ b.torn = r.torn /\ b.stream = r.stream /\ b.feeding = r.feeding
      /\ b.owed = r.owed /\ b.flags = {"NewData"}
  BY <1>1, <1>2 DEF RpcSessionStruct
<1> HIDE DEF b
<1>5. SessionOK(b, Owned(s))
  BY <1>1, <1>2, <1>4, OwnerMoves
<1> QED
  BY <1>3, <1>5

\* rpc_session_close waits for callbacks_mutex, and takes the callbacks away.
LEMMA CloseSendOK ==
    ASSUME SessionsOK, NEW s \in Sessions, Owned(s), CloseSend(s)
    PROVE  \E b : Become(s, b) /\ SessionOK(b, Owned(s))
<1> DEFINE r == session[s]
<1>1. SessionOK(r, Owned(s)) /\ r \in RpcSessionStruct /\ Owned(s) \in BOOLEAN
  BY DEF SessionsOK, SessionOK, Owned
<1>2. /\ r.stream \in Seq(Unit) /\ r.feeding \in Seq(Unit) /\ r.owed \in Nat
      /\ Len(r.stream) <= RPC_BUFFER_SIZE /\ Len(r.feeding) <= RPC_BUFFER_SIZE
      /\ Len(r.stream) \in Nat /\ Len(r.feeding) \in Nat
      /\ r.flags \subseteq {"NewData"}
  BY <1>1, LenProperties DEF RpcSessionStruct, SessionOK, SessionConsistent
<1> DEFINE c == r.callbacks \ {"send"}
           b == [r EXCEPT !.callbacks = c]
<1>3. Become(s, b)
  BY DEF CloseSend
<1>4. c \in SUBSET {"send", "closed", "empty"} /\ c \subseteq r.callbacks
  BY <1>1 DEF RpcSessionStruct
<1> HIDE DEF r, c
<1>5. /\ b \in RpcSessionStruct
      /\ b.pc = r.pc /\ b.unit = r.unit /\ b.decode_error = r.decode_error /\ b.replies = r.replies
      /\ b.callbacks = c /\ b.torn = r.torn /\ b.stream = r.stream /\ b.feeding = r.feeding
      /\ b.owed = r.owed /\ b.flags = r.flags
  BY <1>1, <1>4 DEF RpcSessionStruct
<1> HIDE DEF b
<1>d. "Disconnect" \notin b.flags
  BY <1>2, <1>5
<1>6. SessionOK(b, Owned(s))
  BY <1>d, <1>1, <1>2, <1>4, <1>5, OwnerMoves
<1> QED
  BY <1>3, <1>6

\* The session has no owner any more, and its worker is not in a callback.
LEMMA CloseRestOK ==
    ASSUME SessionsOK, NEW s \in Sessions, Owned(s), CloseRest(s)
    PROVE  \E b : Become(s, b) /\ \A after \in BOOLEAN : ~after => SessionOK(b, after)
<1> DEFINE r == session[s]
<1>1. SessionOK(r, Owned(s)) /\ r \in RpcSessionStruct /\ Owned(s) \in BOOLEAN
  BY DEF SessionsOK, SessionOK, Owned
<1>2. /\ r.stream \in Seq(Unit) /\ r.feeding \in Seq(Unit) /\ r.owed \in Nat
      /\ Len(r.stream) <= RPC_BUFFER_SIZE /\ Len(r.feeding) <= RPC_BUFFER_SIZE
      /\ Len(r.stream) \in Nat /\ Len(r.feeding) \in Nat
      /\ r.flags \subseteq {"NewData"}
  BY <1>1, LenProperties DEF RpcSessionStruct, SessionOK, SessionConsistent
<1> DEFINE f == r.flags \cup {"Disconnect"}
           b == [r EXCEPT !.callbacks = {}, !.flags = f]
<1>3. Become(s, b) /\ r.pc # "call"
  BY DEF CloseRest, CallbacksMutexFree
<1>4. f \in SUBSET {"NewData", "Disconnect"}
  BY <1>1 DEF RpcSessionStruct
<1> HIDE DEF r, f
<1>5. /\ b \in RpcSessionStruct
      /\ b.pc = r.pc /\ b.unit = r.unit /\ b.decode_error = r.decode_error /\ b.replies = r.replies
      /\ b.callbacks = {} /\ b.torn = r.torn /\ b.stream = r.stream /\ b.feeding = r.feeding
      /\ b.owed = r.owed /\ b.flags = f
  BY <1>1, <1>4 DEF RpcSessionStruct
<1> HIDE DEF b
<1>6. ASSUME NEW after \in BOOLEAN, ~after PROVE SessionOK(b, after)
  BY <1>1, <1>2, <1>3, <1>5, <1>6, OwnerMoves
<1> QED
  BY <1>3, <1>6

\* rpc_session_open gives its caller a session that is alive.
LEMMA OpenOK ==
    ASSUME NEW s \in Sessions, NEW callbacks \in SUBSET {"send", "closed", "empty"},
           Open(s, callbacks)
    PROVE  \E b : Become(s, b) /\ \A after \in BOOLEAN : after => SessionOK(b, after)
<1> DEFINE b == [Closed EXCEPT !.pc = "read", !.callbacks = callbacks]
<1>1. Become(s, b)
  BY DEF Open
<1>2. <<>> \in Seq(Unit) /\ 0 \in 0 .. MaxReplies /\ Len(<<>>) <= RPC_BUFFER_SIZE
  BY RpcAssumption
<1>3. /\ Closed \in RpcSessionStruct /\ Closed.stream = <<>> /\ Closed.feeding = <<>>
      /\ Closed.owed = 0 /\ Closed.unit = "none" /\ Closed.flags = {}
  BY <1>2 DEF Closed, RpcSessionStruct
<1>4. /\ b \in RpcSessionStruct /\ b.stream = <<>> /\ b.feeding = <<>> /\ b.pc = "read"
      /\ b.owed = 0 /\ b.unit = "none" /\ b.flags = {}
  BY <1>3 DEF RpcSessionStruct
<1> HIDE DEF b
<1>5. Accounted(b)
  BY <1>4, NoCommands DEF Accounted, InHand
<1>6. ASSUME NEW after \in BOOLEAN, after PROVE SessionOK(b, after)
  <2>1. SessionConsistent(b, after)
    BY <1>4, <1>5, <1>6 DEF SessionConsistent
  <2> QED BY <2>1, <1>2, <1>4 DEF SessionOK
<1> QED
  BY <1>1, <1>6

\* A session changes its owner.
LEMMA OwnerStep ==
    ASSUME SessionsOK, NEW s \in Sessions, NEW b, Become(s, b), SessionOK(b, Owned(s)'),
           \A t \in Sessions \ {s} : Owned(t)' <=> Owned(t)
    PROVE  SessionsOK'
<1>1. /\ session' \in [Sessions -> RpcSessionStruct] /\ session'[s] = b
      /\ \A t \in Sessions \ {s} : session'[t] = session[t]
  BY DEF SessionsOK, SessionOK, Become
<1>2. \A t \in Sessions \ {s} : SessionOK(session'[t], Owned(t)')
  BY <1>1 DEF SessionsOK, SessionOK, SessionConsistent
<1>3. \A t \in Sessions : SessionOK(session'[t], Owned(t)')
  BY <1>1, <1>2
<1> QED
  BY <1>1, <1>3 DEF SessionsOK

-----------------------------------------------------------------------------
(* The invariant *)

LEMMA RpcInitOK == Init => RpcInv
<1> SUFFICES ASSUME Init PROVE RpcInv
    OBVIOUS
<1> USE RpcAssumption, TransportsAssumption DEF Init, RpcInit
<1>1. /\ bt.rpc_session = NoSession /\ cli.session = NoSession
  OBVIOUS
<1>2. \A s \in Sessions : ~Owned(s) /\ Owned(s) \in BOOLEAN
  BY <1>1 DEF Owned, Owner
<1>3. SessionsOK
  <2>1. [Closed EXCEPT !.pc = "none"] = Closed
    BY DEF Closed
  <2>2. \A s \in Sessions : SessionOK(Closed, Owned(s))
    BY <1>2, <2>1, UnusedOK
  <2> QED BY <2>2 DEF SessionsOK, SessionOK
<1>4. TransportsOK
  <2>1. 0 \in 0 .. RPC_BUFFER_SIZE /\ 0 \in 0 .. MaxFrames /\ 0 \in 0 .. MaxInputs
    OBVIOUS
  <2>2. serial \in [callback : BOOLEAN, buff_size : 0 .. RPC_BUFFER_SIZE,
                    ready : 0 .. RPC_BUFFER_SIZE] /\ serial.callback = FALSE
    BY <2>1 DEF NoService
  <2>3. bt \in [rpc_session : BtSessions \cup {NoSession},
                rpc_event : SUBSET {"BUFF_SENT", "DISCONNECTED"}]
    OBVIOUS
  <2>4. cli \in [pc : {"idle", "loop", "feed", "signal", "closing", "halted"},
                 session : CliSessions \cup {NoSession}, close_request : BOOLEAN]
        /\ cli.pc = "idle"
    OBVIOUS
  <2> QED BY <1>1, <2>1, <2>2, <2>3, <2>4 DEF TransportsOK, OwnersConsistent
<1> QED
  BY <1>3, <1>4, InvariantParts

\* The worker of a session, and the callbacks it calls.
LEMMA WorkerKeeps ==
    ASSUME RpcInv, NEW s \in Sessions, Worker(s)
    PROVE  RpcInv'
<1> USE RpcAssumption, TransportsAssumption
<1>1. SessionsOK /\ TransportsOK
  BY InvariantParts
<1>2. CASE WorkerStep(s) /\ UNCHANGED <<btVars, cli, inputs>>
  <2>1. UNCHANGED <<link, gap, bt, serial, sending, unacked, cli, inputs>>
    BY <1>2 DEF btVars
  <2>2. \E b : Become(s, b) /\ SessionOK(b, Owned(s))
    BY <1>1, <1>2, WorkerReadOK, WorkerWaitOK, WorkerHandleOK, WorkerReplyOK, WorkerFreeOK
       DEF WorkerStep
  <2>3. SessionsOK'
    BY <1>1, <2>1, <2>2, SessionStep
  <2>4. busy_mutex' \in Sessions \cup {NoSession}
    BY <1>1, <1>2 DEF TransportsOK, WorkerStep, WorkerRead, WorkerWait, WorkerHandle,
       WorkerReply, WorkerFree
  <2>5. TransportsOK'
    BY <1>1, <2>1, <2>4 DEF TransportsOK, OwnersConsistent
  <2> QED BY <2>3, <2>5, InvariantPartsNext
<1>3. CASE BtNotify(s)
  <2>1. UNCHANGED <<busy_mutex, link, gap, bt, sending, unacked, cli, inputs>>
    BY <1>3 DEF BtNotify
  <2>2. /\ serial' \in [callback : BOOLEAN, buff_size : 0 .. RPC_BUFFER_SIZE,
                         ready : 0 .. RPC_BUFFER_SIZE]
        /\ serial'.callback = serial.callback
    BY <1>1, <1>3 DEF BtNotify, TransportsOK
  <2>3. SessionsOK'
    BY <1>1, <1>3, <2>1, BtNotifyOK, SessionStep
  <2>4. TransportsOK'
    BY <1>1, <2>1, <2>2 DEF TransportsOK, OwnersConsistent
  <2> QED BY <2>3, <2>4, InvariantPartsNext
<1>4. CASE BtSend(s)
  <2>1. /\ UNCHANGED <<session, busy_mutex, link, gap, serial, cli, inputs>>
        /\ bt' = [bt EXCEPT !.rpc_event = {}] /\ unacked' = (link = "up")
        /\ sending' \in 0 .. MaxFrames
    BY <1>4 DEF BtSend, rpcVars
  <2>2. /\ bt' \in [rpc_session : BtSessions \cup {NoSession},
                     rpc_event : SUBSET {"BUFF_SENT", "DISCONNECTED"}]
        /\ bt'.rpc_session = bt.rpc_session
    BY <1>1, <2>1 DEF TransportsOK
  <2>3. unacked' \in BOOLEAN
    BY <2>1
  <2>4. SessionsOK'
    BY <1>1, <2>1, <2>2, NoSessionStep
  <2>5. TransportsOK'
    BY <1>1, <2>1, <2>2, <2>3 DEF TransportsOK, OwnersConsistent
  <2> QED BY <2>4, <2>5, InvariantPartsNext
<1>5. CASE BtSendWait(s)
  <2>1. /\ UNCHANGED <<busy_mutex, link, gap, serial, cli, inputs>>
        /\ bt' = [bt EXCEPT !.rpc_event = {}] /\ session[s].pc = "call"
    BY <1>5 DEF BtSendWait
  <2>2. /\ bt' \in [rpc_session : BtSessions \cup {NoSession},
                     rpc_event : SUBSET {"BUFF_SENT", "DISCONNECTED"}]
        /\ bt'.rpc_session = bt.rpc_session
    BY <1>1, <2>1 DEF TransportsOK
  <2>3. sending' \in 0 .. MaxFrames /\ unacked' \in BOOLEAN
    <3>1. sending \in 0 .. MaxFrames /\ unacked \in BOOLEAN /\ sending > 0
      BY <1>1, <1>5 DEF TransportsOK, BtSendWait
    <3>2. sending' \in {0, sending - 1}
      BY <1>5 DEF BtSendWait
    <3>3. sending' \in 0 .. MaxFrames
      BY <3>1, <3>2
    <3>4. unacked' = unacked \/ unacked' = (link = "up")
      BY <1>5 DEF BtSendWait
    <3>5. unacked' \in BOOLEAN
      BY <3>1, <3>4
    <3> QED BY <3>3, <3>5
  <2>4. SessionsOK'
    <3>1. CASE Sent(s)
      BY <1>1, <2>1, <2>2, <3>1, SentOK, SessionStep
    <3>2. CASE UNCHANGED session
      BY <1>1, <2>1, <2>2, <3>2, NoSessionStep
    <3> QED BY <1>5, <3>1, <3>2 DEF BtSendWait
  <2>5. TransportsOK'
    BY <1>1, <2>1, <2>2, <2>3 DEF TransportsOK, OwnersConsistent
  <2> QED BY <2>4, <2>5, InvariantPartsNext
<1>6. CASE CliSend(s)
  <2>1. /\ UNCHANGED <<busy_mutex, link, gap, bt, serial, sending, unacked, cli, inputs>>
        /\ Sent(s) /\ session[s].pc = "call"
    BY <1>6 DEF CliSend, btVars
  <2>2. SessionsOK'
    BY <1>1, <2>1, SentOK, SessionStep
  <2>3. TransportsOK'
    BY <1>1, <2>1 DEF TransportsOK, OwnersConsistent
  <2> QED BY <2>2, <2>3, InvariantPartsNext
<1>7. CASE Replied(s)
  <2>1. PICK asks \in BOOLEAN :
          /\ WorkerReplied(s, asks)
          /\ cli' = [cli EXCEPT !.close_request = @ \/ asks]
          /\ UNCHANGED <<link, gap, bt, serial, sending, unacked, inputs>>
    BY <1>7 DEF Replied, btVars
  <2>2. /\ cli' \in [pc : {"idle", "loop", "feed", "signal", "closing", "halted"},
                      session : CliSessions \cup {NoSession}, close_request : BOOLEAN]
        /\ cli'.session = cli.session /\ cli'.pc = cli.pc
    BY <1>1, <2>1 DEF TransportsOK
  <2>3. busy_mutex' \in Sessions \cup {NoSession}
    BY <1>1, <2>1 DEF WorkerReplied, TransportsOK
  <2>4. SessionsOK'
    BY <1>1, <2>1, <2>2, WorkerRepliedOK, SessionStep
  <2>5. TransportsOK'
    BY <1>1, <2>1, <2>2, <2>3 DEF TransportsOK, OwnersConsistent
  <2> QED BY <2>4, <2>5, InvariantPartsNext
<1> QED
  BY <1>2, <1>3, <1>4, <1>5, <1>6, <1>7 DEF Worker

\* The GAP thread and the radio.
LEMMA GapKeeps ==
    ASSUME RpcInv, GapConnect \/ LinkLost \/ Gap \/ \E packet \in Packets : GapReceive(packet)
    PROVE  RpcInv'
<1> USE RpcAssumption, TransportsAssumption
<1> DEFINE g == bt.rpc_session
<1>1. SessionsOK /\ TransportsOK
  BY InvariantParts
<1>2. ASSUME g # NoSession PROVE g \in Sessions /\ Owned(g)
  BY <1>1, <1>2 DEF TransportsOK, Owned, Owner, BtSessions
<1>3. gap # "idle" \/ serial.callback => g # NoSession
  BY <1>1 DEF TransportsOK, OwnersConsistent
<1>4. CASE GapConnect
  <2>1. PICK s \in BtSessions :
          /\ Open(s, {"send", "empty"}) /\ bt' = [bt EXCEPT !.rpc_session = s]
          /\ link = "down" /\ link' = "up"
          /\ serial' = [callback |-> TRUE, buff_size |-> RPC_BUFFER_SIZE, ready |-> RPC_BUFFER_SIZE]
          /\ UNCHANGED <<busy_mutex, gap, sending, unacked, cli, inputs>>
    BY <1>4 DEF GapConnect, Fresh
  <2>2. s \in Sessions /\ g = NoSession /\ bt'.rpc_session = s
        /\ bt' \in [rpc_session : BtSessions \cup {NoSession},
                     rpc_event : SUBSET {"BUFF_SENT", "DISCONNECTED"}]
    BY <1>1, <2>1 DEF TransportsOK, OwnersConsistent, BtSessions
  <2>3. \A t \in Sessions \ {s} : Owned(t)' <=> Owned(t)
    BY <2>1, <2>2 DEF Owned, Owner, BtSessions
  <2>4. Owned(s)' /\ Owned(s)' \in BOOLEAN
    BY <2>1, <2>2 DEF Owned, Owner, BtSessions
  <2>5. SessionsOK'
    <3>1. PICK b : Become(s, b) /\ \A after \in BOOLEAN : after => SessionOK(b, after)
      BY <2>1, <2>2, OpenOK
    <3>2. SessionOK(b, Owned(s)')
      BY <2>4, <3>1
    <3> QED BY <1>1, <2>2, <2>3, <3>1, <3>2, OwnerStep
  <2>6. TransportsOK'
    <3>1. serial' \in [callback : BOOLEAN, buff_size : 0 .. RPC_BUFFER_SIZE,
                       ready : 0 .. RPC_BUFFER_SIZE]
      BY <2>1
    <3> QED BY <1>1, <2>1, <2>2, <3>1 DEF TransportsOK, OwnersConsistent
  <2> QED BY <2>5, <2>6, InvariantPartsNext
<1>5. CASE LinkLost
  <2>1. /\ UNCHANGED <<session, busy_mutex, gap, bt, serial, sending, cli, inputs>>
        /\ link = "up" /\ link' = "lost" /\ unacked' = FALSE
    BY <1>5 DEF LinkLost, rpcVars
  <2>2. SessionsOK'
    BY <1>1, <2>1, NoSessionStep
  <2>3. TransportsOK'
    BY <1>1, <2>1 DEF TransportsOK, OwnersConsistent
  <2> QED BY <2>2, <2>3, InvariantPartsNext
<1>6. ASSUME NEW packet \in Packets, GapReceive(packet) PROVE RpcInv'
  <2>1. /\ UNCHANGED <<busy_mutex, link, bt, sending, unacked, cli>>
        /\ inputs < MaxInputs /\ inputs' = inputs + 1 /\ gap' = "feed"
        /\ serial' = [serial EXCEPT !.ready = @ - Len(packet)]
        /\ serial.callback /\ Len(packet) <= serial.ready /\ Feed(g, packet)
    BY <1>6 DEF GapReceive
  <2>2. Len(packet) \in Nat
    BY LenProperties
  <2>3. serial' \in [callback : BOOLEAN, buff_size : 0 .. RPC_BUFFER_SIZE,
                     ready : 0 .. RPC_BUFFER_SIZE]
    <3> DEFINE n == serial.ready - Len(packet)
    <3>1. n \in 0 .. RPC_BUFFER_SIZE
      BY <1>1, <2>1, <2>2 DEF TransportsOK
    <3>2. serial' = [serial EXCEPT !.ready = n]
      BY <2>1
    <3> HIDE DEF n
    <3> QED BY <1>1, <3>1, <3>2 DEF TransportsOK
  <2>4. inputs' \in 0 .. MaxInputs
    BY <1>1, <2>1 DEF TransportsOK
  <2>5. g # NoSession
    BY <1>3, <2>1
  <2>6. SessionsOK'
    BY <1>1, <1>2, <2>1, <2>5, FeedOK, SessionStep
  <2>7. TransportsOK'
    BY <1>1, <2>1, <2>3, <2>4, <2>5 DEF TransportsOK, OwnersConsistent
  <2> QED BY <2>6, <2>7, InvariantPartsNext
<1>7. CASE GapFed
  <2>1. /\ UNCHANGED <<busy_mutex, link, bt, serial, sending, unacked, cli, inputs>>
        /\ gap' = "signal" /\ g # NoSession /\ (FeedWrite(g) \/ FeedTimeout(g))
    BY <1>3, <1>7 DEF GapFed
  <2>2. SessionsOK'
    BY <1>1, <1>2, <2>1, FeedWriteOK, FeedTimeoutOK, SessionStep
  <2>3. TransportsOK'
    BY <1>1, <2>1 DEF TransportsOK, OwnersConsistent
  <2> QED BY <2>2, <2>3, InvariantPartsNext
<1>8. CASE GapSignal
  <2>1. /\ UNCHANGED <<busy_mutex, link, bt, serial, sending, unacked, cli, inputs>>
        /\ gap' = "idle" /\ g # NoSession /\ FeedSignal(g)
    BY <1>3, <1>8 DEF GapSignal
  <2>2. SessionsOK'
    BY <1>1, <1>2, <2>1, FeedSignalOK, SessionStep
  <2>3. TransportsOK'
    BY <1>1, <2>1 DEF TransportsOK, OwnersConsistent
  <2> QED BY <2>2, <2>3, InvariantPartsNext
<1>9. ASSUME GapConfirm \/ GapDisconnect PROVE RpcInv'
  <2>1. /\ UNCHANGED <<session, busy_mutex, link, serial, sending, cli, inputs>>
        /\ unacked' \in {unacked, FALSE}
        /\ gap' = gap \/ (gap' = "close" /\ g # NoSession)
        /\ \E ev \in SUBSET {"BUFF_SENT", "DISCONNECTED"} :
              bt' = [bt EXCEPT !.rpc_event = @ \cup ev]
    <3>1. CASE GapConfirm
      <4>1. \E ev \in {{}, {"BUFF_SENT"}} : bt' = [bt EXCEPT !.rpc_event = @ \cup ev]
        <5>1. bt' = [bt EXCEPT !.rpc_event = IF serial.callback THEN @ \cup {"BUFF_SENT"} ELSE @]
          BY <3>1 DEF GapConfirm
        <5>2. CASE serial.callback
          BY <5>1, <5>2
        <5>3. CASE ~serial.callback
          <6>1. bt.rpc_event \cup {} = bt.rpc_event
            OBVIOUS
          <6> QED BY <5>1, <5>3, <6>1
        <5> QED BY <5>2, <5>3
      <4> QED BY <3>1, <4>1 DEF GapConfirm, rpcVars
    <3>2. CASE GapDisconnect
      <4>1. bt' = [bt EXCEPT !.rpc_event = @ \cup {"DISCONNECTED"}]
        BY <3>2 DEF GapDisconnect
      <4> QED BY <3>2, <4>1 DEF GapDisconnect, rpcVars
    <3> QED BY <1>9, <3>1, <3>2
  <2>2. /\ bt' \in [rpc_session : BtSessions \cup {NoSession},
                     rpc_event : SUBSET {"BUFF_SENT", "DISCONNECTED"}]
        /\ bt'.rpc_session = bt.rpc_session
    BY <1>1, <2>1 DEF TransportsOK
  <2>3. SessionsOK'
    BY <1>1, <2>1, <2>2, NoSessionStep
  <2>4. TransportsOK'
    BY <1>1, <2>1, <2>2 DEF TransportsOK, OwnersConsistent
  <2> QED BY <2>3, <2>4, InvariantPartsNext
<1>10. CASE GapClose
  <2>1. /\ UNCHANGED <<busy_mutex, link, bt, serial, sending, unacked, cli, inputs>>
        /\ gap' = "closing" /\ g # NoSession /\ CloseSend(g)
    BY <1>3, <1>10 DEF GapClose
  <2>2. SessionsOK'
    BY <1>1, <1>2, <2>1, CloseSendOK, SessionStep
  <2>3. TransportsOK'
    BY <1>1, <2>1 DEF TransportsOK, OwnersConsistent
  <2> QED BY <2>2, <2>3, InvariantPartsNext
<1>11. CASE GapClosed
  <2>1. /\ UNCHANGED <<busy_mutex, sending, unacked, cli, inputs>>
        /\ gap' = "idle" /\ link' = "down" /\ serial' = NoService
        /\ bt' = [bt EXCEPT !.rpc_session = NoSession]
        /\ g # NoSession /\ CloseRest(g)
    BY <1>3, <1>11 DEF GapClosed
  <2>2. g \in Sessions /\ Owned(g) /\ bt'.rpc_session = NoSession /\ g \in BtSessions
        /\ bt' \in [rpc_session : BtSessions \cup {NoSession},
                     rpc_event : SUBSET {"BUFF_SENT", "DISCONNECTED"}]
    BY <1>1, <1>2, <2>1 DEF TransportsOK
  <2>3. \A t \in Sessions \ {g} : Owned(t)' <=> Owned(t)
    BY <2>1, <2>2 DEF Owned, Owner, BtSessions
  <2>4. ~(g = bt'.rpc_session)
    BY <2>1, <2>2
  <2>5. SessionsOK'
    <3>1. PICK s \in Sessions : s = g
      BY <2>2
    <3>2. Owned(s) /\ CloseRest(s) /\ s \in BtSessions
      BY <2>1, <2>2, <3>1
    <3>3. ~Owned(s)' /\ Owned(s)' \in BOOLEAN
      BY <2>2, <2>4, <3>1, <3>2 DEF Owned, Owner, BtSessions
    <3>4. PICK b : Become(s, b) /\ \A after \in BOOLEAN : ~after => SessionOK(b, after)
      BY <1>1, <3>2, CloseRestOK
    <3>5. SessionOK(b, Owned(s)')
      BY <3>3, <3>4
    <3>6. \A t \in Sessions \ {s} : Owned(t)' <=> Owned(t)
      BY <2>3, <3>1
    <3> QED BY <1>1, <3>4, <3>5, <3>6, OwnerStep
  <2>6. TransportsOK'
    <3>1. /\ serial' \in [callback : BOOLEAN, buff_size : 0 .. RPC_BUFFER_SIZE,
                          ready : 0 .. RPC_BUFFER_SIZE]
          /\ serial'.callback = FALSE
      BY <2>1 DEF NoService
    <3> QED BY <1>1, <2>1, <2>2, <3>1 DEF TransportsOK, OwnersConsistent
  <2> QED BY <2>5, <2>6, InvariantPartsNext
<1> HIDE DEF g
<1> QED
  BY <1>4, <1>5, <1>6, <1>7, <1>8, <1>9, <1>10, <1>11 DEF Gap

\* The console's command.
LEMMA CliKeeps ==
    ASSUME RpcInv, \/ CliStart \/ CliClose \/ CliFed \/ CliClosed
                   \/ \E packet \in Packets : CliReceive(packet)
    PROVE  RpcInv'
<1> USE RpcAssumption, TransportsAssumption
<1> DEFINE c == cli.session
           CliType == [pc : {"idle", "loop", "feed", "signal", "closing", "halted"},
                       session : CliSessions \cup {NoSession}, close_request : BOOLEAN]
<1>1. SessionsOK /\ TransportsOK /\ cli \in CliType
  BY InvariantParts DEF TransportsOK
<1>2. ASSUME cli.pc # "idle" PROVE c \in Sessions /\ c \in CliSessions /\ Owned(c)
  BY <1>1, <1>2 DEF TransportsOK, OwnersConsistent, Owned, Owner, BtSessions
<1>3. ASSUME UNCHANGED <<busy_mutex, link, gap, bt, serial, sending, unacked>>,
             inputs' \in 0 .. MaxInputs, cli' \in CliType, SessionsOK',
             cli'.session = NoSession <=> cli'.pc = "idle"
      PROVE  RpcInv'
  <2>1. TransportsOK'
    BY <1>1, <1>3 DEF TransportsOK, OwnersConsistent
  <2> QED BY <1>3, <2>1, InvariantPartsNext
<1>4. inputs \in 0 .. MaxInputs
  BY <1>1 DEF TransportsOK
<1>5. ASSUME NEW l \in {"loop", "feed", "signal", "closing", "halted"},
             cli' = [cli EXCEPT !.pc = l], cli.pc # "idle"
      PROVE  /\ cli' \in CliType /\ cli'.session = c
             /\ cli'.session = NoSession <=> cli'.pc = "idle"
  BY <1>1, <1>2, <1>5
<1>6. CASE CliStart
  <2>1. PICK s \in CliSessions :
          /\ Open(s, {"send", "closed"})
          /\ cli' = [pc |-> "loop", session |-> s, close_request |-> FALSE]
          /\ UNCHANGED <<busy_mutex, link, gap, bt, serial, sending, unacked, inputs>>
          /\ cli.pc = "idle"
    BY <1>6 DEF CliStart, Fresh, btVars
  <2>2. s \in Sessions /\ c = NoSession /\ cli'.session = s /\ cli' \in CliType
        /\ cli'.pc = "loop"
    BY <1>1, <2>1 DEF TransportsOK, OwnersConsistent
  <2>3. \A t \in Sessions \ {s} : Owned(t)' <=> Owned(t)
    BY <2>1, <2>2 DEF Owned, Owner, BtSessions
  <2>4. Owned(s)' /\ Owned(s)' \in BOOLEAN
    BY <2>1, <2>2 DEF Owned, Owner, BtSessions
  <2>5. SessionsOK'
    <3>1. PICK b : Become(s, b) /\ \A after \in BOOLEAN : after => SessionOK(b, after)
      BY <2>1, <2>2, OpenOK
    <3>2. SessionOK(b, Owned(s)')
      BY <2>4, <3>1
    <3> QED BY <1>1, <2>2, <2>3, <3>1, <3>2, OwnerStep
  <2> HIDE DEF CliType
  <2> QED BY <1>3, <1>4, <2>1, <2>2, <2>5
<1>7. ASSUME NEW packet \in Packets, CliReceive(packet) PROVE RpcInv'
  <2>1. /\ UNCHANGED <<busy_mutex, link, gap, bt, serial, sending, unacked>>
        /\ inputs < MaxInputs /\ inputs' = inputs + 1 /\ Feed(c, packet)
        /\ cli.pc # "idle" /\ cli' = [cli EXCEPT !.pc = "feed"]
    BY <1>7 DEF CliReceive, btVars
  <2>2. inputs' \in 0 .. MaxInputs
    BY <1>4, <2>1
  <2> HIDE DEF CliType
  <2>3. /\ cli' \in CliType /\ cli'.session = c
        /\ cli'.session = NoSession <=> cli'.pc = "idle"
    BY <1>5, <2>1
  <2>4. SessionsOK'
    BY <1>1, <1>2, <2>1, <2>3, FeedOK, SessionStep
  <2> QED BY <1>3, <2>1, <2>2, <2>3, <2>4
<1>8. CASE CliFed \/ CliClose
  <2>1. PICK l \in {"loop", "signal", "closing", "halted"} :
          /\ UNCHANGED <<busy_mutex, link, gap, bt, serial, sending, unacked, inputs>>
          /\ FeedWrite(c) \/ FeedTimeout(c) \/ FeedSignal(c) \/ CloseSend(c)
          /\ cli.pc # "idle" /\ cli' = [cli EXCEPT !.pc = l]
    BY <1>8 DEF CliFed, CliClose, btVars
  <2> HIDE DEF CliType
  <2>2. /\ cli' \in CliType /\ cli'.session = c
        /\ cli'.session = NoSession <=> cli'.pc = "idle"
    BY <1>5, <2>1
  <2>3. SessionsOK'
    BY <1>1, <1>2, <2>1, <2>2, FeedWriteOK, FeedTimeoutOK, FeedSignalOK, CloseSendOK, SessionStep
  <2> QED BY <1>3, <1>4, <2>1, <2>2, <2>3
<1>9. CASE CliClosed
  <2>1. /\ UNCHANGED <<busy_mutex, link, gap, bt, serial, sending, unacked, inputs>>
        /\ CloseRest(c) /\ cli.pc = "closing"
        /\ cli' = [cli EXCEPT !.pc = "idle", !.session = NoSession]
    BY <1>9 DEF CliClosed, btVars
  <2>2. cli' \in CliType /\ cli'.session = NoSession /\ cli'.pc = "idle"
    BY <1>1, <2>1
  <2>3. SessionsOK'
    <3>1. PICK s \in Sessions : s = c
      BY <1>2, <2>1
    <3>2. Owned(s) /\ CloseRest(s) /\ s \in CliSessions
      BY <1>2, <2>1, <3>1
    <3>3. ~Owned(s)' /\ Owned(s)' \in BOOLEAN
      BY <2>2, <3>1, <3>2 DEF Owned, Owner, BtSessions
    <3>4. PICK b : Become(s, b) /\ \A after \in BOOLEAN : ~after => SessionOK(b, after)
      BY <1>1, <3>2, CloseRestOK
    <3>5. SessionOK(b, Owned(s)')
      BY <3>3, <3>4
    <3>6. \A t \in Sessions \ {s} : Owned(t)' <=> Owned(t)
      BY <2>1, <2>2, <3>1 DEF Owned, Owner, BtSessions
    <3> QED BY <1>1, <3>4, <3>5, <3>6, OwnerStep
  <2> HIDE DEF CliType
  <2> QED BY <1>3, <1>4, <2>1, <2>2, <2>3
<1> HIDE DEF c
<1> QED
  BY <1>6, <1>7, <1>8, <1>9

LEMMA RpcNextOK == RpcInv /\ [Next]_vars => RpcInv'
<1> SUFFICES ASSUME RpcInv, [Next]_vars PROVE RpcInv'
    OBVIOUS
<1>1. CASE Next
  BY <1>1, WorkerKeeps, GapKeeps, CliKeeps DEF Next
<1>2. CASE UNCHANGED vars
  <2>1. SessionsOK /\ TransportsOK
    BY InvariantParts
  <2>2. UNCHANGED <<session, busy_mutex, link, gap, bt, serial, sending, unacked, cli, inputs>>
    BY <1>2 DEF vars, rpcVars, btVars
  <2>3. SessionsOK'
    BY <2>1, <2>2, NoSessionStep
  <2>4. TransportsOK'
    BY <2>1, <2>2 DEF TransportsOK, OwnersConsistent
  <2> QED BY <2>3, <2>4, InvariantPartsNext
<1> QED
  BY <1>1, <1>2

\* Sessions have one owner each, which is their transport from rpc_session_open
\* to rpc_session_close, and what is owed is in the buffer or in hand.
THEOREM RpcInvariant == Spec => []RpcInv
<1> QED
  BY RpcInitOK, RpcNextOK, PTL DEF Spec

-----------------------------------------------------------------------------
(* What the invariant is for *)

\* bt.c never feeds, wakes or closes a session that rpc.c has freed, for any
\* number of connections and any input.
THEOREM GapSessionLives == Spec => []GapUsesLiveSession
<1>1. RpcInv => GapUsesLiveSession
  <2> SUFFICES ASSUME RpcInv PROVE GapUsesLiveSession
      OBVIOUS
  <2>1. RpcTypeOK
    BY DEF RpcInv, TransportsTypeOK
  <2>2. ASSUME gap # "idle" PROVE Live(bt.rpc_session)
    <3>1. bt.rpc_session \in BtSessions
      BY <2>2 DEF RpcInv, TransportsTypeOK, OwnersConsistent
    <3>2. bt.rpc_session \in Sessions /\ Owned(bt.rpc_session)
      BY <3>1 DEF Owned, Owner, BtSessions
    <3> QED BY <3>2 DEF RpcInv, SessionConsistent, Live
  <2> QED BY <2>1, <2>2 DEF GapUsesLiveSession
<1> QED
  BY <1>1, RpcInvariant, PTL

\* rpc_session_close waits for callbacks_mutex: a worker in its
\* send_bytes_callback finds the transport that set it.
THEOREM TransportIsThere == Spec => []CallbackFindsTransport
<1>1. RpcInv => CallbackFindsTransport
  <2> SUFFICES ASSUME RpcInv, NEW s \in Sessions, session[s].pc = "call"
               PROVE  s = IF s \in BtSessions THEN bt.rpc_session ELSE cli.session
      BY DEF CallbackFindsTransport
  <2> QED BY DEF RpcInv, SessionConsistent, Owned, Owner
<1> QED
  BY <1>1, RpcInvariant, PTL

\* Every command that was accepted is handled before the session ends.
THEOREM SessionIsDrained == Spec => []ClosedSessionIsDrained
<1>1. RpcInv => ClosedSessionIsDrained
  BY NoCommands DEF RpcInv, SessionConsistent, Accounted, InHand, ClosedSessionIsDrained
<1> QED
  BY <1>1, RpcInvariant, PTL

-----------------------------------------------------------------------------
(* Nobody waits for what has come *)

\* The worker is about to wait, or waits.
Listening(r) == r.pc = "wait" \/ (r.pc = "notify" /\ r.unit = "none")
Idle(r) == r.pc \in {"none", "free", "freed"}
WakeOK(r, signals, owned) ==
    /\ Listening(r) /\ r.stream # <<>> /\ ~r.decode_error => r.flags # {} \/ signals
    /\ ~owned => Idle(r) \/ "Disconnect" \in r.flags

\* The inductive invariants, given RpcInv: one of every session, and one of the
\* serial service and the session of the link.
WakeInv == \A s \in Sessions : WakeOK(session[s], Signals(s), Owned(s))
Credit(r) ==
    /\ "empty" \in r.callbacks
    /\ serial.ready = 0 /\ ~r.decode_error =>
         \/ r.stream # <<>> \/ r.pc = "notify"
         \/ (gap = "feed" /\ r.feeding # <<>>)
CreditInv ==
    bt.rpc_session # NoSession =>
      serial.callback /\ serial.buff_size = RPC_BUFFER_SIZE /\ Credit(session[bt.rpc_session])

\* What a worker's step does to its session, as far as this is concerned, and
\* to what stands for the credit.
WorkerEffect(r, b) ==
    /\ ~Idle(r) \/ (r.pc = "free" /\ b.pc = "freed")
    /\ Listening(b) /\ b.stream # <<>> /\ ~b.decode_error =>
         Listening(r) /\ b.stream = r.stream /\ ~r.decode_error /\ b.flags = r.flags
    /\ Idle(b) \/ ("Disconnect" \in r.flags => "Disconnect" \in b.flags)
    /\ ~Idle(b) => b.callbacks = r.callbacks /\ b.feeding = r.feeding
    /\ r.decode_error => b.decode_error \/ Idle(b)
CreditEffect(r, b) ==
    (r.stream # <<>> \/ r.pc = "notify") /\ "empty" \in r.callbacks /\ ~b.decode_error /\ ~Idle(b) =>
        b.stream # <<>> \/ b.pc = "notify"

LEMMA DecodedGives ==
    ASSUME NEW s, NEW g \in RpcSessionStruct
    PROVE  LET d == Decoded(s, g)
           IN  /\ d.flags = g.flags /\ d.callbacks = g.callbacks /\ d.feeding = g.feeding
               /\ d.pc \in {"wait", "read", "handle", "reply"}
               /\ g.decode_error => d.decode_error
               /\ ~d.decode_error => d.stream = g.stream
               /\ d.pc = "wait" /\ ~d.decode_error => g.unit = "none"
<1> DEFINE d == Decoded(s, g)
<1>1. g.decode_error \in BOOLEAN /\ g.unit \in Unit \cup {"none"}
  BY DEF RpcSessionStruct
<1>2. CASE g.decode_error = TRUE \/ g.unit = "none"
  <2>1. d = [g EXCEPT !.pc = "wait", !.unit = "none"]
    <3>1. CASE g.unit = "none"
      BY <3>1 DEF Decoded
    <3>2. CASE g.decode_error = TRUE
      <4> QED BY <3>2, Zenon DEF Decoded
    <3> QED BY <1>2, <3>1, <3>2
  <2>2. /\ d.pc = "wait" /\ d.flags = g.flags /\ d.callbacks = g.callbacks /\ d.feeding = g.feeding
        /\ d.decode_error = g.decode_error /\ d.stream = g.stream
    BY <2>1 DEF RpcSessionStruct
  <2> HIDE DEF d
  <2>3. g.decode_error = TRUE \/ g.decode_error = FALSE
    BY <1>1
  <2>4. d.pc = "wait" /\ ~d.decode_error => g.unit = "none"
    BY <1>2, <2>2
  <2> QED BY <2>2, <2>4 DEF d
<1>3. CASE g.decode_error = FALSE /\ g.unit = "part"
  <2>1. d = [g EXCEPT !.pc = "read", !.unit = "none"]
    BY <1>3 DEF Decoded
  <2>2. /\ d.pc = "read" /\ d.flags = g.flags /\ d.callbacks = g.callbacks /\ d.feeding = g.feeding
        /\ d.decode_error = g.decode_error /\ d.stream = g.stream
    BY <2>1 DEF RpcSessionStruct
  <2> HIDE DEF d
  <2> QED BY <2>2 DEF d
<1>4. CASE g.decode_error = FALSE /\ g.unit \in {"end", "stop"}
  <2>1. d = [g EXCEPT !.pc = "handle", !.replies = 1]
    BY <1>4 DEF Decoded
  <2>2. /\ d.pc = "handle" /\ d.flags = g.flags /\ d.callbacks = g.callbacks /\ d.feeding = g.feeding
        /\ d.decode_error = g.decode_error /\ d.stream = g.stream
    BY <2>1 DEF RpcSessionStruct
  <2> HIDE DEF d
  <2> QED BY <2>2 DEF d
<1>5. CASE g.decode_error = FALSE /\ g.unit = "unknown"
  <2>1. d = [g EXCEPT !.pc = "reply", !.replies = 1]
    BY <1>5 DEF Decoded
  <2>2. /\ d.pc = "reply" /\ d.flags = g.flags /\ d.callbacks = g.callbacks /\ d.feeding = g.feeding
        /\ d.decode_error = g.decode_error /\ d.stream = g.stream
    BY <2>1 DEF RpcSessionStruct
  <2> HIDE DEF d
  <2> QED BY <2>2 DEF d
<1>6. CASE g.decode_error = FALSE /\ g.unit = "bad"
  <2>1. PICK p : d = [[g EXCEPT !.pc = "reply", !.replies = 1]
                        EXCEPT !.decode_error = TRUE, !.stream = p]
    <3>1. d = [[g EXCEPT !.pc = "reply", !.replies = 1]
                 EXCEPT !.decode_error = TRUE, !.stream = IF Room(s) THEN <<>> ELSE @]
      BY <1>6 DEF Decoded
    <3> QED BY <3>1
  <2>2. /\ d.pc = "reply" /\ d.flags = g.flags /\ d.callbacks = g.callbacks /\ d.feeding = g.feeding
        /\ d.decode_error = TRUE
    BY <2>1 DEF RpcSessionStruct
  <2> HIDE DEF d
  <2> QED BY <2>2 DEF d
<1> QED BY <1>1, <1>2, <1>3, <1>4, <1>5, <1>6 DEF Unit, Kinds

\* What Become leaves of the sessions.
LEMMA BecomeGives ==
    ASSUME RpcInv, NEW s \in Sessions, NEW b, Become(s, b)
    PROVE  session'[s] = b /\ \A t \in Sessions \ {s} : session'[t] = session[t]
BY DEF Become, RpcInv, TransportsTypeOK, RpcTypeOK

LEMMA ReadEffect ==
    ASSUME RpcInv, NEW s \in Sessions, WorkerRead(s)
    PROVE  \E b : /\ Become(s, b) /\ WorkerEffect(session[s], b) /\ CreditEffect(session[s], b)
<1> DEFINE r == session[s]
           queue == r.stream
           rest == IF queue = <<>> THEN <<>> ELSE Tail(queue)
<1>1. r \in RpcSessionStruct /\ r.pc = "read" /\ queue \in Seq(Unit)
  BY DEF RpcInv, TransportsTypeOK, RpcTypeOK, RpcSessionStruct, WorkerRead
<1>2. PICK unit \in IF queue = <<>> THEN {"none"} ELSE IF r.torn THEN Unit ELSE {Head(queue)} :
        Become(s, IF rest = <<>> /\ "empty" \in r.callbacks
                  THEN [[r EXCEPT !.stream = rest, !.unit = unit] EXCEPT !.pc = "notify"]
                  ELSE Decoded(s, [r EXCEPT !.stream = rest, !.unit = unit]))
  BY DEF WorkerRead
<1>3. /\ rest \in Seq(Unit) /\ unit \in Unit \cup {"none"}
      /\ unit = "none" => queue = <<>> /\ rest = <<>>
  <2>1. CASE queue = <<>>
    BY <1>1, <1>2, <2>1
  <2>2. CASE queue # <<>>
    <3>1. Head(queue) \in Unit /\ Tail(queue) \in Seq(Unit)
      BY <1>1, <2>2
    <3>2. unit \in Unit /\ rest = Tail(queue)
      BY <1>2, <2>2, <3>1
    <3> QED BY <3>1, <3>2 DEF Unit, Kinds
  <2> QED BY <2>1, <2>2
<1>4. queue = <<>> => rest = <<>>
  OBVIOUS
<1> HIDE DEF rest, r
<1>5. CASE rest = <<>> /\ "empty" \in r.callbacks
  <2> DEFINE b == [[r EXCEPT !.stream = rest, !.unit = unit] EXCEPT !.pc = "notify"]
  <2>1. /\ b.pc = "notify" /\ b.stream = <<>> /\ b.decode_error = r.decode_error
        /\ b.feeding = r.feeding /\ b.flags = r.flags /\ b.callbacks = r.callbacks
    BY <1>1, <1>5 DEF RpcSessionStruct
  <2>2. Become(s, b)
    BY <1>2, <1>5
  <2> HIDE DEF b
  <2>3. WorkerEffect(r, b) /\ CreditEffect(r, b)
    BY <1>1, <2>1 DEF WorkerEffect, CreditEffect, Idle, Listening
  <2> QED BY <2>2, <2>3 DEF r
<1>6. CASE ~(rest = <<>> /\ "empty" \in r.callbacks)
  <2> DEFINE g == [r EXCEPT !.stream = rest, !.unit = unit]
  <2>1. /\ g \in RpcSessionStruct /\ g.stream = rest /\ g.unit = unit
        /\ g.decode_error = r.decode_error
        /\ g.feeding = r.feeding /\ g.flags = r.flags /\ g.callbacks = r.callbacks
    BY <1>1, <1>3 DEF RpcSessionStruct
  <2>2. Become(s, Decoded(s, g))
    BY <1>2, <1>6
  <2> HIDE DEF g
  <2> DEFINE d == Decoded(s, g)
  <2>3. /\ d.flags = g.flags /\ d.callbacks = g.callbacks /\ d.feeding = g.feeding
        /\ d.pc \in {"wait", "read", "handle", "reply"}
        /\ g.decode_error => d.decode_error
        /\ ~d.decode_error => d.stream = g.stream
        /\ d.pc = "wait" /\ ~d.decode_error => g.unit = "none"
    BY <2>1, DecodedGives
  <2> HIDE DEF d
  <2>4. WorkerEffect(r, d) /\ CreditEffect(r, d)
    BY <1>1, <1>3, <1>4, <1>6, <2>1, <2>3 DEF WorkerEffect, CreditEffect, Idle, Listening
  <2> QED BY <2>2, <2>4 DEF r, d
<1> QED BY <1>5, <1>6

\* The steps that leave the buffer, the flags and the callbacks alone.
LEMMA HandlingEffect ==
    ASSUME NEW r, NEW b, r.pc \in {"handle", "reply", "call"}, b.pc \in {"read", "reply", "call"},
           b.stream = r.stream, b.flags = r.flags, b.callbacks = r.callbacks,
           b.feeding = r.feeding, b.decode_error = r.decode_error
    PROVE  WorkerEffect(r, b) /\ CreditEffect(r, b)
BY DEF WorkerEffect, CreditEffect, Idle, Listening

LEMMA WorkerStepEffect ==
    ASSUME RpcInv, NEW s \in Sessions, WorkerStep(s)
    PROVE  \E b : Become(s, b) /\ WorkerEffect(session[s], b) /\ CreditEffect(session[s], b)
<1> DEFINE r == session[s]
<1>1. r \in RpcSessionStruct
  BY DEF RpcInv, TransportsTypeOK, RpcTypeOK
<1>2. CASE WorkerRead(s)
  BY <1>2, ReadEffect
<1>3. CASE WorkerWait(s)
  <2> DEFINE over == "Disconnect" \in r.flags /\ r.stream = <<>>
             b == [r EXCEPT !.pc = IF over THEN "free" ELSE "read",
                            !.flags = IF over THEN {} ELSE @ \cap {"Disconnect"}]
  <2>1. Become(s, b) /\ r.pc = "wait"
    BY <1>3 DEF WorkerWait
  <2> HIDE DEF r
  <2>2. /\ b.stream = r.stream /\ b.feeding = r.feeding /\ b.callbacks = r.callbacks
        /\ b.decode_error = r.decode_error
        /\ b.pc = "free" \/ (b.pc = "read" /\ b.flags = r.flags \cap {"Disconnect"})
    BY <1>1 DEF RpcSessionStruct
  <2> HIDE DEF b
  <2>3. WorkerEffect(r, b) /\ CreditEffect(r, b)
    BY <2>1, <2>2 DEF WorkerEffect, CreditEffect, Idle, Listening
  <2> QED BY <2>1, <2>3 DEF r
<1>4. CASE WorkerHandle(s)
  <2>1. PICK n :
          Become(s, [r EXCEPT !.pc = "reply", !.replies = n,
                              !.owed = IF @ > 0 /\ r.unit = "end" THEN @ - 1 ELSE @])
    BY <1>4 DEF WorkerHandle
  <2> DEFINE b == [r EXCEPT !.pc = "reply", !.replies = n,
                            !.owed = IF @ > 0 /\ r.unit = "end" THEN @ - 1 ELSE @]
  <2>2. Become(s, b) /\ r.pc = "handle"
    BY <1>4, <2>1 DEF WorkerHandle
  <2> HIDE DEF r
  <2>3. /\ b.stream = r.stream /\ b.feeding = r.feeding /\ b.callbacks = r.callbacks
        /\ b.decode_error = r.decode_error /\ b.flags = r.flags /\ b.pc = "reply"
    BY <1>1 DEF RpcSessionStruct
  <2> HIDE DEF b
  <2>4. WorkerEffect(r, b) /\ CreditEffect(r, b)
    BY <2>2, <2>3, HandlingEffect
  <2> QED BY <2>2, <2>4 DEF r
<1>5. CASE WorkerReply(s)
  <2>1. PICK b \in {[r EXCEPT !.pc = "call"], [r EXCEPT !.replies = @ - 1]} : Become(s, b)
    BY <1>5 DEF WorkerReply
  <2>2. r.pc = "reply"
    BY <1>5 DEF WorkerReply
  <2> HIDE DEF r
  <2>3. /\ b.stream = r.stream /\ b.feeding = r.feeding /\ b.callbacks = r.callbacks
        /\ b.decode_error = r.decode_error /\ b.flags = r.flags /\ b.pc \in {"reply", "call"}
    BY <1>1, <2>1, <2>2 DEF RpcSessionStruct
  <2>4. WorkerEffect(r, b) /\ CreditEffect(r, b)
    BY <2>2, <2>3, HandlingEffect
  <2> QED BY <2>1, <2>4 DEF r
<1>6. CASE WorkerFree(s)
  <2> DEFINE b == [Closed EXCEPT !.pc = "freed"]
  <2>1. Become(s, b) /\ r.pc = "free" /\ b.pc = "freed"
    BY <1>6 DEF WorkerFree, Closed
  <2> HIDE DEF b, r
  <2>2. WorkerEffect(r, b) /\ CreditEffect(r, b)
    BY <2>1 DEF WorkerEffect, CreditEffect, Idle, Listening
  <2> QED BY <2>1, <2>2 DEF r
<1> QED BY <1>2, <1>3, <1>4, <1>5, <1>6 DEF WorkerStep

LEMMA SentEffect ==
    ASSUME RpcInv, NEW s \in Sessions, session[s].pc = "call", Sent(s)
    PROVE  \E b : Become(s, b) /\ WorkerEffect(session[s], b) /\ CreditEffect(session[s], b)
<1> DEFINE r == session[s]
           b == [r EXCEPT !.pc = "reply", !.replies = @ - 1]
<1>1. r \in RpcSessionStruct /\ Become(s, b)
  BY DEF RpcInv, TransportsTypeOK, RpcTypeOK, Sent
<1>2. r.pc = "call"
  OBVIOUS
<1> HIDE DEF r
<1>3. /\ b.stream = r.stream /\ b.feeding = r.feeding /\ b.callbacks = r.callbacks
      /\ b.decode_error = r.decode_error /\ b.flags = r.flags /\ b.pc = "reply"
  BY <1>1 DEF RpcSessionStruct
<1> HIDE DEF b
<1>4. WorkerEffect(r, b) /\ CreditEffect(r, b)
  BY <1>2, <1>3, HandlingEffect
<1> QED BY <1>1, <1>4 DEF r

LEMMA RepliedEffect ==
    ASSUME RpcInv, NEW s \in Sessions, NEW asks, WorkerReplied(s, asks)
    PROVE  \E b : Become(s, b) /\ WorkerEffect(session[s], b) /\ CreditEffect(session[s], b)
<1> DEFINE r == session[s]
           b == [r EXCEPT !.pc = "read", !.unit = "none"]
<1>1. r \in RpcSessionStruct /\ Become(s, b) /\ r.pc = "reply"
  BY DEF RpcInv, TransportsTypeOK, RpcTypeOK, WorkerReplied
<1> HIDE DEF r
<1>3. /\ b.stream = r.stream /\ b.feeding = r.feeding /\ b.callbacks = r.callbacks
      /\ b.decode_error = r.decode_error /\ b.flags = r.flags /\ b.pc = "read"
  BY <1>1 DEF RpcSessionStruct
<1> HIDE DEF b
<1>4. WorkerEffect(r, b) /\ CreditEffect(r, b)
  BY <1>1, <1>3, HandlingEffect
<1> QED BY <1>1, <1>4 DEF r

LEMMA NotifyEffect ==
    ASSUME RpcInv, NEW s \in Sessions, BtNotify(s)
    PROVE  \E b : Become(s, b) /\ WorkerEffect(session[s], b)
<1> DEFINE r == session[s]
           d == Decoded(s, r)
<1>1. r \in RpcSessionStruct /\ Become(s, d) /\ r.pc = "notify"
  BY DEF RpcInv, TransportsTypeOK, RpcTypeOK, BtNotify
<1>2. /\ d.flags = r.flags /\ d.callbacks = r.callbacks /\ d.feeding = r.feeding
      /\ d.pc \in {"wait", "read", "handle", "reply"}
      /\ r.decode_error => d.decode_error
      /\ ~d.decode_error => d.stream = r.stream
      /\ d.pc = "wait" /\ ~d.decode_error => r.unit = "none"
  <2> HIDE DEF r
  <2> QED BY <1>1, DecodedGives
<1> HIDE DEF r, d
<1>3. WorkerEffect(r, d)
  BY <1>1, <1>2 DEF WorkerEffect, Idle, Listening
<1> QED BY <1>1, <1>3 DEF r

-----------------------------------------------------------------------------
\* A worker does not wake itself up, and does not forget that it was told.
LEMMA WorkerKeepsWake ==
    ASSUME RpcInv, WakeInv, NEW s \in Sessions, NEW b, Become(s, b), WorkerEffect(session[s], b),
           gap' = gap, bt'.rpc_session = bt.rpc_session,
           cli'.pc = cli.pc, cli'.session = cli.session
    PROVE  WakeInv'
<1>1. session'[s] = b /\ \A t \in Sessions \ {s} : session'[t] = session[t]
  BY BecomeGives
<1>2. \A t \in Sessions : (Signals(t)' <=> Signals(t)) /\ (Owned(t)' <=> Owned(t))
  BY DEF Signals, Owned, Owner, BtSessions
<1>3. ASSUME NEW t \in Sessions, t # s
      PROVE  WakeOK(session'[t], Signals(t)', Owned(t)')
  BY <1>1, <1>2, <1>3 DEF WakeInv, WakeOK
<1>4. WakeOK(b, Signals(s)', Owned(s)')
  <2>1. WakeOK(session[s], Signals(s), Owned(s))
    BY DEF WakeInv
  <2> DEFINE r == session[s]
  <2> HIDE DEF r
  <2>2. WakeOK(r, Signals(s), Owned(s)) /\ WorkerEffect(r, b)
    BY <2>1 DEF r
  <2>3. Listening(b) /\ b.stream # <<>> /\ ~b.decode_error => b.flags # {} \/ Signals(s)'
    BY <1>2, <2>2 DEF WakeOK, WorkerEffect
  <2>4. ~Owned(s)' => Idle(b) \/ "Disconnect" \in b.flags
    <3>1. Idle(r) => Idle(b)
      BY <2>2 DEF WorkerEffect, Idle
    <3> QED BY <1>2, <2>2, <3>1 DEF WakeOK, WorkerEffect
  <2> QED BY <2>3, <2>4 DEF WakeOK
<1>5. \A t \in Sessions : WakeOK(session'[t], Signals(t)', Owned(t)')
  BY <1>1, <1>3, <1>4
<1> QED BY <1>5 DEF WakeInv

\* Steps that change no session, no owner and none of the threads' positions.
LEMMA SilentKeepsWake ==
    ASSUME WakeInv, UNCHANGED session, gap' = gap \/ gap # "signal",
           bt'.rpc_session = bt.rpc_session, cli'.pc = cli.pc, cli'.session = cli.session
    PROVE  WakeInv'
<1>1. \A t \in Sessions : (Signals(t) => Signals(t)') /\ (Owned(t)' <=> Owned(t))
  BY DEF Signals, Owned, Owner, BtSessions
<1>2. \A t \in Sessions : WakeOK(session'[t], Signals(t)', Owned(t)')
  BY <1>1 DEF WakeInv, WakeOK
<1> QED BY <1>2 DEF WakeInv

\* A transport's step on its session s: the others do not notice.
LEMMA OwnerKeepsWake ==
    ASSUME RpcInv, WakeInv, NEW s \in Sessions, NEW b, Become(s, b),
           WakeOK(b, Signals(s)', Owned(s)'),
           \A t \in Sessions \ {s} : (Signals(t) => Signals(t)') /\ (Owned(t)' <=> Owned(t))
    PROVE  WakeInv'
<1>1. session'[s] = b /\ \A t \in Sessions \ {s} : session'[t] = session[t]
  BY BecomeGives
<1>2. ASSUME NEW t \in Sessions \ {s}
      PROVE  WakeOK(session'[t], Signals(t)', Owned(t)')
  BY <1>1 DEF WakeInv, WakeOK
<1>3. \A t \in Sessions : WakeOK(session'[t], Signals(t)', Owned(t)')
  BY <1>1, <1>2
<1> QED BY <1>3 DEF WakeInv

\* What a transport's calls do to its session.
Same(r, b) == b.pc = r.pc /\ b.unit = r.unit /\ b.decode_error = r.decode_error

LEMMA FeedGives ==
    ASSUME RpcInv, NEW s \in Sessions, NEW units, Feed(s, units)
    PROVE  \E b : /\ Become(s, b) /\ Same(session[s], b)
                  /\ b.stream = session[s].stream /\ b.flags = session[s].flags
                  /\ b.callbacks = session[s].callbacks /\ b.feeding = units
<1> DEFINE r == session[s]
           b == [r EXCEPT !.feeding = units]
<1>1. r \in RpcSessionStruct /\ Become(s, b)
  BY DEF RpcInv, TransportsTypeOK, RpcTypeOK, Feed
<1> HIDE DEF r
<1>2. /\ Same(r, b) /\ b.stream = r.stream /\ b.flags = r.flags
      /\ b.callbacks = r.callbacks /\ b.feeding = units
  BY <1>1 DEF RpcSessionStruct, Same
<1> HIDE DEF b
<1> QED BY <1>1, <1>2 DEF r

LEMMA FeedWriteGives ==
    ASSUME RpcInv, NEW s \in Sessions, FeedWrite(s)
    PROVE  \E b : /\ Become(s, b) /\ Same(session[s], b)
                  /\ b.stream = session[s].stream \o session[s].feeding
                  /\ b.flags = session[s].flags /\ b.callbacks = session[s].callbacks
<1> DEFINE r == session[s]
           b == [r EXCEPT !.stream = @ \o r.feeding, !.feeding = <<>>,
                          !.owed = @ + Commands(r.feeding)]
<1>1. r \in RpcSessionStruct /\ Become(s, b)
  BY DEF RpcInv, TransportsTypeOK, RpcTypeOK, FeedWrite
<1> HIDE DEF r
<1>2. /\ Same(r, b) /\ b.stream = r.stream \o r.feeding /\ b.flags = r.flags
      /\ b.callbacks = r.callbacks
  BY <1>1 DEF RpcSessionStruct, Same
<1> HIDE DEF b
<1> QED BY <1>1, <1>2 DEF r

LEMMA FeedTimeoutGives ==
    ASSUME RpcInv, NEW s \in Sessions, FeedTimeout(s)
    PROVE  \E b : /\ Become(s, b) /\ Same(session[s], b) /\ b.stream # <<>>
                  /\ b.flags = session[s].flags /\ b.callbacks = session[s].callbacks
<1> DEFINE r == session[s]
           fits == SubSeq(r.feeding, 1, RPC_BUFFER_SIZE - Len(r.stream))
           b == [r EXCEPT !.stream = @ \o fits, !.feeding = <<>>, !.torn = TRUE]
<1>1. r \in RpcSessionStruct /\ Become(s, b) /\ Len(r.stream) <= RPC_BUFFER_SIZE
  BY DEF RpcInv, TransportsTypeOK, RpcTypeOK, FeedTimeout
<1>2. ~(Len(r.stream) + Len(r.feeding) <= RPC_BUFFER_SIZE) /\ RPC_BUFFER_SIZE \in Nat \ {0}
  BY RpcAssumption DEF FeedTimeout, Room
<1>3. /\ r.stream \in Seq(Unit) /\ r.feeding \in Seq(Unit)
      /\ Len(r.stream) \in Nat /\ Len(r.feeding) \in Nat
  BY <1>1, LenProperties DEF RpcSessionStruct
<1> HIDE DEF r
<1>4. fits \in Seq(Unit) /\ Len(fits) = RPC_BUFFER_SIZE - Len(r.stream)
  <2> DEFINE n == RPC_BUFFER_SIZE - Len(r.stream)
  <2>1. n \in Nat /\ n < Len(r.feeding)
    <3>1. \A a, c, z \in Nat : a <= z /\ ~(a + c <= z) => z - a \in Nat /\ z - a < c
      OBVIOUS
    <3> QED BY <1>1, <1>2, <1>3, <3>1
  <2>2. \A i \in 1 .. n : r.feeding[i] \in Unit
    BY <1>3, <2>1
  <2>3. fits \in Seq(Unit) /\ Len(fits) = IF 1 <= n THEN n - 1 + 1 ELSE 0
    BY <2>1, <2>2, SubSeqProperties
  <2> HIDE DEF fits
  <2> QED BY <2>1, <2>3
<1> HIDE DEF fits
<1>5. r.stream \o fits # <<>>
  <2>1. Len(r.stream \o fits) = RPC_BUFFER_SIZE
    <3>1. Len(r.stream \o fits) = Len(r.stream) + Len(fits)
      BY <1>3, <1>4, ConcatProperties
    <3> QED BY <1>2, <1>3, <1>4, <3>1
  <2>2. Len(<<>>) = 0
    OBVIOUS
  <2> QED BY <1>2, <2>1, <2>2
<1>6. /\ Same(r, b) /\ b.stream # <<>> /\ b.flags = r.flags /\ b.callbacks = r.callbacks
  BY <1>1, <1>5 DEF RpcSessionStruct, Same
<1> HIDE DEF b
<1> QED BY <1>1, <1>6 DEF r

LEMMA FeedSignalGives ==
    ASSUME RpcInv, NEW s \in Sessions, FeedSignal(s)
    PROVE  \E b : /\ Become(s, b) /\ Same(session[s], b)
                  /\ b.stream = session[s].stream /\ b.flags # {}
                  /\ b.callbacks = session[s].callbacks
<1> DEFINE r == session[s]
           b == [r EXCEPT !.flags = @ \cup {"NewData"}]
<1>1. r \in RpcSessionStruct /\ Become(s, b)
  BY DEF RpcInv, TransportsTypeOK, RpcTypeOK, FeedSignal
<1> HIDE DEF r
<1>2. Same(r, b) /\ b.stream = r.stream /\ b.flags # {} /\ b.callbacks = r.callbacks
  BY <1>1 DEF RpcSessionStruct, Same
<1> HIDE DEF b
<1> QED BY <1>1, <1>2 DEF r

LEMMA CloseSendGives ==
    ASSUME RpcInv, NEW s \in Sessions, CloseSend(s)
    PROVE  \E b : /\ Become(s, b) /\ Same(session[s], b)
                  /\ b.stream = session[s].stream /\ b.flags = session[s].flags
                  /\ b.callbacks = session[s].callbacks \ {"send"}
<1> DEFINE r == session[s]
           b == [r EXCEPT !.callbacks = @ \ {"send"}]
<1>1. r \in RpcSessionStruct /\ Become(s, b)
  BY DEF RpcInv, TransportsTypeOK, RpcTypeOK, CloseSend
<1> HIDE DEF r
<1>2. /\ Same(r, b) /\ b.stream = r.stream /\ b.flags = r.flags
      /\ b.callbacks = r.callbacks \ {"send"}
  BY <1>1 DEF RpcSessionStruct, Same
<1> HIDE DEF b
<1> QED BY <1>1, <1>2 DEF r

LEMMA CloseRestGives ==
    ASSUME RpcInv, NEW s \in Sessions, CloseRest(s)
    PROVE  \E b : Become(s, b) /\ "Disconnect" \in b.flags
<1> DEFINE r == session[s]
           b == [r EXCEPT !.callbacks = {}, !.flags = @ \cup {"Disconnect"}]
<1>1. r \in RpcSessionStruct /\ Become(s, b)
  BY DEF RpcInv, TransportsTypeOK, RpcTypeOK, CloseRest
<1> HIDE DEF r
<1>2. "Disconnect" \in b.flags
  BY <1>1 DEF RpcSessionStruct
<1> HIDE DEF b
<1> QED BY <1>1, <1>2 DEF r

LEMMA OpenGives ==
    ASSUME NEW s \in Sessions, NEW callbacks, Open(s, callbacks)
    PROVE  \E b : /\ Become(s, b) /\ b.pc = "read" /\ b.callbacks = callbacks
                  /\ b.decode_error = FALSE
<1> DEFINE b == [Closed EXCEPT !.pc = "read", !.callbacks = callbacks]
<1>1. Become(s, b)
  BY DEF Open
<1>2. b.pc = "read" /\ b.callbacks = callbacks /\ b.decode_error = FALSE
  BY DEF Closed
<1> HIDE DEF b
<1> QED BY <1>1, <1>2

\* A transport's session that is left alone, but for its feeding or callbacks.
LEMMA SameIsAwake ==
    ASSUME NEW r, NEW b, Same(r, b), b.stream = r.stream, b.flags = r.flags,
           NEW p \in BOOLEAN, NEW q \in BOOLEAN, NEW o \in BOOLEAN,
           p => q, WakeOK(r, p, o)
    PROVE  WakeOK(b, q, o)
<1>1. Listening(b) = Listening(r) /\ Idle(b) = Idle(r)
  BY DEF Same, Listening, Idle
<1> QED BY <1>1 DEF WakeOK, Same

LEMMA WorkerWakes ==
    ASSUME RpcInv, WakeInv, NEW s \in Sessions, Worker(s)
    PROVE  WakeInv'
<1>1. bt.rpc_session \in BtSessions \cup {NoSession} /\ DOMAIN bt = {"rpc_session", "rpc_event"}
  BY DEF RpcInv, TransportsTypeOK
<1>2. DOMAIN cli = {"pc", "session", "close_request"}
  BY DEF RpcInv, TransportsTypeOK
<1>3. CASE WorkerStep(s) /\ UNCHANGED <<btVars, cli, inputs>>
  BY <1>3, WorkerStepEffect, WorkerKeepsWake DEF btVars
<1>4. CASE BtNotify(s)
  BY <1>4, NotifyEffect, WorkerKeepsWake DEF BtNotify
<1>5. CASE BtSend(s)
  <2>1. UNCHANGED session /\ gap' = gap /\ cli' = cli /\ bt'.rpc_session = bt.rpc_session
    BY <1>1, <1>5 DEF BtSend, rpcVars
  <2> QED BY <2>1, SilentKeepsWake
<1>6. CASE BtSendWait(s)
  <2>1. gap' = gap /\ cli' = cli /\ bt'.rpc_session = bt.rpc_session /\ session[s].pc = "call"
    BY <1>1, <1>6 DEF BtSendWait
  <2>2. CASE Sent(s)
    BY <2>1, <2>2, SentEffect, WorkerKeepsWake
  <2>3. CASE UNCHANGED session
    BY <2>1, <2>3, SilentKeepsWake
  <2> QED BY <1>6, <2>2, <2>3 DEF BtSendWait
<1>7. CASE CliSend(s)
  <2>1. Sent(s) /\ session[s].pc = "call" /\ gap' = gap /\ bt' = bt /\ cli' = cli
    BY <1>7 DEF CliSend, btVars
  <2> QED BY <2>1, SentEffect, WorkerKeepsWake
<1>8. CASE Replied(s)
  <2>1. PICK asks \in BOOLEAN :
          /\ WorkerReplied(s, asks) /\ cli' = [cli EXCEPT !.close_request = @ \/ asks]
          /\ gap' = gap /\ bt' = bt
    BY <1>8 DEF Replied, btVars
  <2>2. cli'.pc = cli.pc /\ cli'.session = cli.session
    BY <1>2, <2>1
  <2> QED BY <2>1, <2>2, RepliedEffect, WorkerKeepsWake
<1> QED BY <1>3, <1>4, <1>5, <1>6, <1>7, <1>8 DEF Worker

LEMMA GapWakes ==
    ASSUME RpcInv, WakeInv, UNCHANGED cli,
           \/ GapConnect \/ LinkLost \/ Gap \/ \E packet \in Packets : GapReceive(packet)
    PROVE  WakeInv'
<1> DEFINE s == bt.rpc_session
<1>1. s \in BtSessions \cup {NoSession} /\ DOMAIN bt = {"rpc_session", "rpc_event"}
  BY DEF RpcInv, TransportsTypeOK
<1>2. NoSession \notin Sessions /\ BtSessions \subseteq Sessions
  BY RpcAssumption DEF BtSessions
<1>3. \A t \in Sessions : Owned(t) \in BOOLEAN /\ Signals(t) \in BOOLEAN /\ Owned(t)' \in BOOLEAN
  BY DEF Owned, Signals
<1>4. ASSUME bt'.rpc_session = s, s # NoSession
      PROVE  /\ s \in Sessions /\ s \in BtSessions /\ Owned(s) /\ Owned(s)'
             /\ \A t \in Sessions \ {s} : (Signals(t) => Signals(t)') /\ (Owned(t)' <=> Owned(t))
  BY <1>1, <1>2, <1>4 DEF Owned, Owner, Signals
<1>5. ASSUME bt'.rpc_session = s, s # NoSession, gap \in {"idle", "close"}, gap' # "signal",
             NEW b, Become(s, b), Same(session[s], b),
             b.stream = session[s].stream, b.flags = session[s].flags
      PROVE  WakeInv'
  <2>1. s \in Sessions /\ Owned(s) /\ Owned(s)'
    BY <1>4, <1>5
  <2>2. Signals(s) => Signals(s)'
    BY <1>5 DEF Signals
  <2>3. WakeOK(session[s], Signals(s), Owned(s))
    BY <2>1 DEF WakeInv
  <2>4. WakeOK(b, Signals(s)', Owned(s)')
    <3> DEFINE r == session[s]
               p == Signals(s)
               q == Signals(s)'
               o == Owned(s)
    <3>1. /\ Same(r, b) /\ b.stream = r.stream /\ b.flags = r.flags /\ (p => q) /\ WakeOK(r, p, o)
          /\ p \in BOOLEAN /\ q \in BOOLEAN /\ o \in BOOLEAN
      BY <1>5, <2>2, <2>3 DEF Signals, Owned
    <3> HIDE DEF r, p, q, o
    <3>2. WakeOK(b, q, o)
      BY <3>1, SameIsAwake
    <3> QED BY <2>1, <3>2 DEF q, o, WakeOK
  <2> QED BY <1>4, <1>5, <2>1, <2>4, OwnerKeepsWake
<1>6. CASE GapConnect
  <2>1. PICK n \in BtSessions : /\ Open(n, {"send", "empty"}) /\ bt' = [bt EXCEPT !.rpc_session = n]
                                /\ link = "down" /\ gap = "idle" /\ gap' = gap
    BY <1>6 DEF GapConnect, Fresh
  <2>2. s = NoSession
    BY <2>1 DEF RpcInv, OwnersConsistent
  <2>3. bt'.rpc_session = n /\ n \in Sessions
    BY <1>1, <1>2, <2>1
  <2>4. PICK b : Become(n, b) /\ b.pc = "read"
    BY <2>1, <2>3, OpenGives
  <2>5. WakeOK(b, Signals(n)', Owned(n)')
    BY <2>1, <2>3, <2>4 DEF WakeOK, Listening, Owned, Owner
  <2>6. \A t \in Sessions \ {n} : (Signals(t) => Signals(t)') /\ (Owned(t)' <=> Owned(t))
    BY <1>2, <2>1, <2>2, <2>3 DEF Signals, Owned, Owner
  <2> QED BY <2>3, <2>4, <2>5, <2>6, OwnerKeepsWake
<1>7. CASE LinkLost \/ GapConfirm \/ GapDisconnect
  <2>1. UNCHANGED session /\ (gap' = gap \/ gap # "signal") /\ bt'.rpc_session = s
    BY <1>1, <1>7 DEF LinkLost, GapConfirm, GapDisconnect, rpcVars
  <2> QED BY <2>1, SilentKeepsWake
<1>8. ASSUME NEW packet, GapReceive(packet) PROVE WakeInv'
  <2>1. /\ gap = "idle" /\ gap' = "feed" /\ bt' = bt /\ Feed(s, packet)
    BY <1>8 DEF GapReceive
  <2>2. s \in Sessions /\ s # NoSession
    BY <1>2, <2>1 DEF Feed, Live
  <2>3. PICK b : /\ Become(s, b) /\ Same(session[s], b)
                 /\ b.stream = session[s].stream /\ b.flags = session[s].flags
    BY <2>1, <2>2, FeedGives
  <2> QED BY <1>5, <2>1, <2>2, <2>3
<1>9. CASE GapFed
  <2>1. gap' = "signal" /\ bt' = bt /\ (FeedWrite(s) \/ FeedTimeout(s))
    BY <1>9 DEF GapFed
  <2>2. s \in Sessions /\ s # NoSession
    BY <1>2, <2>1 DEF FeedWrite, FeedTimeout, Live
  <2>3. PICK b : Become(s, b)
    BY <2>1 DEF FeedWrite, FeedTimeout
  <2>4. Signals(s)' /\ Owned(s)'
    BY <1>4, <2>1, <2>2 DEF Signals
  <2>5. WakeOK(b, Signals(s)', Owned(s)')
    BY <2>4 DEF WakeOK
  <2> QED BY <1>4, <2>1, <2>2, <2>3, <2>5, OwnerKeepsWake
<1>10. CASE GapSignal
  <2>1. bt' = bt /\ FeedSignal(s)
    BY <1>10 DEF GapSignal
  <2>2. s \in Sessions /\ s # NoSession
    BY <1>2, <2>1 DEF FeedSignal, Live
  <2>3. PICK b : Become(s, b) /\ b.flags # {}
    BY <2>1, <2>2, FeedSignalGives
  <2>4. WakeOK(b, Signals(s)', Owned(s)')
    BY <1>4, <2>1, <2>2, <2>3 DEF WakeOK
  <2> QED BY <1>4, <2>1, <2>2, <2>3, <2>4, OwnerKeepsWake
<1>11. CASE GapClose
  <2>1. gap = "close" /\ gap' = "closing" /\ bt' = bt /\ CloseSend(s)
    BY <1>11 DEF GapClose
  <2>2. s \in Sessions /\ s # NoSession
    BY <1>2, <2>1 DEF CloseSend, Live
  <2>3. PICK b : /\ Become(s, b) /\ Same(session[s], b)
                 /\ b.stream = session[s].stream /\ b.flags = session[s].flags
    BY <2>1, <2>2, CloseSendGives
  <2> QED BY <1>5, <2>1, <2>2, <2>3
<1>12. CASE GapClosed
  <2>1. gap = "closing" /\ bt'.rpc_session = NoSession /\ CloseRest(s)
    BY <1>1, <1>12 DEF GapClosed
  <2>2. PICK n \in Sessions : n = s
    BY <2>1 DEF CloseRest, Live
  <2>3. PICK b : Become(n, b) /\ "Disconnect" \in b.flags
    BY <2>1, <2>2, CloseRestGives
  <2>4. WakeOK(b, Signals(n)', Owned(n)')
    BY <2>3 DEF WakeOK
  <2>5. \A t \in Sessions \ {n} : (Signals(t) => Signals(t)') /\ (Owned(t)' <=> Owned(t))
    BY <1>2, <2>1, <2>2 DEF Signals, Owned, Owner
  <2> QED BY <2>3, <2>4, <2>5, OwnerKeepsWake
<1> QED BY <1>6, <1>7, <1>8, <1>9, <1>10, <1>11, <1>12 DEF Gap

LEMMA CliWakes ==
    ASSUME RpcInv, WakeInv, UNCHANGED <<gap, bt>>, cli.pc # "halted",
           \/ CliStart \/ CliClose \/ CliFed \/ CliClosed
           \/ \E packet \in Packets : CliReceive(packet)
    PROVE  WakeInv'
<1> DEFINE CliType == [pc : {"idle", "loop", "feed", "signal", "closing", "halted"},
                       session : CliSessions \cup {NoSession}, close_request : BOOLEAN]
<1>1. cli \in CliType /\ bt.rpc_session \in BtSessions \cup {NoSession}
  BY DEF RpcInv, TransportsTypeOK
<1>2. /\ NoSession \notin Sessions /\ CliSessions \subseteq Sessions
      /\ BtSessions \cap CliSessions = {} /\ BtSessions = Sessions \ CliSessions
  BY RpcAssumption, TransportsAssumption DEF BtSessions
\* With the console's session for the whole step.
<1>3. ASSUME NEW s, s = cli.session, cli'.session = s, s # NoSession
      PROVE  /\ s \in Sessions /\ Owned(s) /\ Owned(s)'
             /\ \A t \in Sessions \ {s} : (Signals(t) => Signals(t)') /\ (Owned(t)' <=> Owned(t))
  BY <1>1, <1>2, <1>3 DEF Owned, Owner, Signals
<1>4. ASSUME NEW s, s = cli.session, cli'.session = s, s # NoSession, cli.pc = "loop",
             NEW b, Become(s, b), Same(session[s], b),
             b.stream = session[s].stream, b.flags = session[s].flags
      PROVE  WakeInv'
  <2>1. s \in Sessions /\ Owned(s) /\ Owned(s)'
    BY <1>3, <1>4
  <2>2. Signals(s) => Signals(s)'
    BY <1>1, <1>2, <1>4, <2>1 DEF Signals
  <2>3. WakeOK(session[s], Signals(s), Owned(s))
    BY <2>1 DEF WakeInv
  <2>4. WakeOK(b, Signals(s)', Owned(s)')
    <3> DEFINE r == session[s]
               p == Signals(s)
               q == Signals(s)'
               o == Owned(s)
    <3>1. /\ Same(r, b) /\ b.stream = r.stream /\ b.flags = r.flags /\ (p => q) /\ WakeOK(r, p, o)
          /\ p \in BOOLEAN /\ q \in BOOLEAN /\ o \in BOOLEAN
      BY <1>4, <2>2, <2>3 DEF Signals, Owned
    <3> HIDE DEF r, p, q, o
    <3>2. WakeOK(b, q, o)
      BY <3>1, SameIsAwake
    <3> QED BY <2>1, <3>2 DEF q, o, WakeOK
  <2> QED BY <1>3, <1>4, <2>1, <2>4, OwnerKeepsWake
<1>5. CASE CliStart
  <2>1. PICK n \in CliSessions :
          /\ Open(n, {"send", "closed"}) /\ cli.pc = "idle"
          /\ cli' = [pc |-> "loop", session |-> n, close_request |-> FALSE]
    BY <1>5 DEF CliStart, Fresh
  <2>2. cli.session = NoSession
    BY <2>1 DEF RpcInv, OwnersConsistent
  <2>3. cli'.session = n /\ n \in Sessions
    BY <1>2, <2>1
  <2>4. PICK b : Become(n, b) /\ b.pc = "read"
    BY <2>1, <2>3, OpenGives
  <2>5. WakeOK(b, Signals(n)', Owned(n)')
    BY <1>2, <2>1, <2>3, <2>4 DEF WakeOK, Listening, Owned, Owner
  <2>6. \A t \in Sessions \ {n} : (Signals(t) => Signals(t)') /\ (Owned(t)' <=> Owned(t))
    BY <1>2, <2>2, <2>3 DEF Signals, Owned, Owner
  <2> QED BY <2>3, <2>4, <2>5, <2>6, OwnerKeepsWake
<1>6. PICK s : s = cli.session
  OBVIOUS
<1>7. ASSUME NEW packet, CliReceive(packet) PROVE WakeInv'
  <2>1. cli.pc = "loop" /\ Feed(s, packet) /\ cli' = [cli EXCEPT !.pc = "feed"]
    BY <1>6, <1>7 DEF CliReceive
  <2>2. s \in Sessions /\ s # NoSession /\ cli'.session = s
    BY <1>1, <1>2, <1>6, <2>1 DEF Feed, Live
  <2>3. PICK b : /\ Become(s, b) /\ Same(session[s], b)
                 /\ b.stream = session[s].stream /\ b.flags = session[s].flags
    BY <2>1, <2>2, FeedGives
  <2> QED BY <1>4, <1>6, <2>1, <2>2, <2>3
<1>8. CASE CliFed
  <2>1. CASE (FeedWrite(s) \/ FeedTimeout(s)) /\ \E l \in {"signal", "halted"} : cli' = [cli EXCEPT !.pc = l]
    <3>1. s \in Sessions /\ s # NoSession /\ cli'.session = s /\ cli'.pc \in {"signal", "halted"}
      BY <1>1, <1>2, <1>6, <2>1 DEF FeedWrite, FeedTimeout, Live
    <3>2. PICK b : Become(s, b)
      BY <2>1 DEF FeedWrite, FeedTimeout
    <3>3. Signals(s)' /\ Owned(s)'
      BY <1>3, <1>6, <3>1 DEF Signals
    <3>4. WakeOK(b, Signals(s)', Owned(s)')
      BY <3>3 DEF WakeOK
    <3> QED BY <1>3, <1>6, <3>1, <3>2, <3>4, OwnerKeepsWake
  <2>2. CASE FeedSignal(s) /\ cli' = [cli EXCEPT !.pc = "loop"]
    <3>1. s \in Sessions /\ s # NoSession /\ cli'.session = s
      BY <1>1, <1>2, <1>6, <2>2 DEF FeedSignal, Live
    <3>2. PICK b : Become(s, b) /\ b.flags # {}
      BY <2>2, <3>1, FeedSignalGives
    <3>3. WakeOK(b, Signals(s)', Owned(s)')
      BY <1>3, <1>6, <3>1, <3>2 DEF WakeOK
    <3> QED BY <1>3, <1>6, <3>1, <3>2, <3>3, OwnerKeepsWake
  <2> QED BY <1>6, <1>8, <2>1, <2>2 DEF CliFed
<1>9. CASE CliClose
  <2>1. cli.pc = "loop" /\ CloseSend(s) /\ cli' = [cli EXCEPT !.pc = "closing"]
    BY <1>6, <1>9 DEF CliClose
  <2>2. s \in Sessions /\ s # NoSession /\ cli'.session = s
    BY <1>1, <1>2, <1>6, <2>1 DEF CloseSend, Live
  <2>3. PICK b : /\ Become(s, b) /\ Same(session[s], b)
                 /\ b.stream = session[s].stream /\ b.flags = session[s].flags
    BY <2>1, <2>2, CloseSendGives
  <2> QED BY <1>4, <1>6, <2>1, <2>2, <2>3
<1>10. CASE CliClosed
  <2>1. CloseRest(s) /\ cli' = [cli EXCEPT !.pc = "idle", !.session = NoSession]
    BY <1>6, <1>10 DEF CliClosed
  <2>2. s \in Sessions /\ cli'.session = NoSession
    BY <1>1, <2>1 DEF CloseRest, Live
  <2>3. PICK b : Become(s, b) /\ "Disconnect" \in b.flags
    BY <2>1, <2>2, CloseRestGives
  <2>4. WakeOK(b, Signals(s)', Owned(s)')
    BY <2>3 DEF WakeOK
  <2>5. \A t \in Sessions \ {s} : (Signals(t) => Signals(t)') /\ (Owned(t)' <=> Owned(t))
    BY <1>2, <1>6, <2>2 DEF Signals, Owned, Owner
  <2> QED BY <2>2, <2>3, <2>4, <2>5, OwnerKeepsWake
<1> QED BY <1>5, <1>7, <1>8, <1>9, <1>10

LEMMA WakeInitOK == Init => WakeInv
<1> SUFFICES ASSUME Init, NEW s \in Sessions PROVE WakeOK(session[s], Signals(s), Owned(s))
    BY DEF WakeInv
<1>1. session[s].pc = "none"
  BY DEF Init, RpcInit, Closed
<1> QED BY <1>1 DEF WakeOK, Listening, Idle

LEMMA WakeNextOK == RpcInv /\ WakeInv /\ [Next]_vars => WakeInv'
<1> SUFFICES ASSUME RpcInv, WakeInv, [Next]_vars PROVE WakeInv'
    OBVIOUS
<1>1. CASE \E s \in Sessions : Worker(s)
  BY <1>1, WorkerWakes
<1>2. CASE GapConnect \/ LinkLost \/ Gap \/ \E packet \in Packets : GapReceive(packet)
  <2>1. UNCHANGED cli
    BY <1>2 DEF GapConnect, LinkLost, Gap, GapReceive, GapFed, GapSignal, GapConfirm,
                GapDisconnect, GapClose, GapClosed
  <2> QED BY <1>2, <2>1, GapWakes
<1>3. CASE /\ cli.pc # "halted"
           /\ CliStart \/ CliClose \/ CliFed \/ CliClosed \/ \E packet \in Packets : CliReceive(packet)
  <2>1. UNCHANGED <<gap, bt>>
    BY <1>3 DEF CliStart, CliClose, CliFed, CliClosed, CliReceive, btVars
  <2> QED BY <1>3, <2>1, CliWakes
<1>4. CASE UNCHANGED vars
  BY <1>4, SilentKeepsWake DEF vars, rpcVars, btVars
<1> QED BY <1>1, <1>2, <1>3, <1>4 DEF Next

\* The flags of every session, at every point of its worker and of the threads
\* that feed and close it (rpc_session_feed, rpc_session_close), say what the
\* worker has not seen yet.
THEOREM WakeInvariant == Spec => []WakeInv
<1> QED
  BY WakeInitOK, WakeNextOK, RpcInvariant, PTL DEF Spec

\* No lost wakeup: whenever a worker waits with input in its stream buffer, its
\* flag is set or the thread that wrote the input is about to set it, in every
\* order of rpc_session_feed and rpc_pb_stream_read.
THEOREM InputAlwaysWakes == Spec => []InputWakesWorker
<1>1. WakeInv => InputWakesWorker
  BY DEF WakeInv, WakeOK, Listening, InputWakesWorker
<1> QED BY <1>1, WakeInvariant, PTL

\* A session that was closed keeps the Disconnect flag through every turn of
\* its worker until the worker ends.
THEOREM ClosedSessionsAreTold == Spec => []ClosedSessionIsTold
<1>1. WakeInv => ClosedSessionIsTold
  BY DEF WakeInv, WakeOK, Idle, Live, ClosedSessionIsTold
<1> QED BY <1>1, WakeInvariant, PTL


-----------------------------------------------------------------------------
(* The credit comes back *)

LEMMA LinkSession ==
    ASSUME RpcInv, bt.rpc_session # NoSession
    PROVE  /\ bt.rpc_session \in Sessions /\ bt.rpc_session \in BtSessions
           /\ ~Idle(session[bt.rpc_session])
<1>1. bt.rpc_session \in BtSessions /\ bt.rpc_session \in Sessions
  BY DEF RpcInv, TransportsTypeOK, BtSessions
<1>2. SessionConsistent(session[bt.rpc_session], Owned(bt.rpc_session)) /\ Owned(bt.rpc_session)
  BY <1>1 DEF RpcInv, Owned, Owner
<1> QED BY <1>1, <1>2 DEF SessionConsistent, Idle

\* The link's session is not touched, and no credit is taken.
LEMMA CreditUntouched ==
    ASSUME RpcInv, CreditInv, bt'.rpc_session = bt.rpc_session, gap' = gap \/ gap = "idle",
           serial'.callback = serial.callback, serial'.buff_size = serial.buff_size,
           serial'.ready = 0 => serial.ready = 0,
           bt.rpc_session # NoSession => session'[bt.rpc_session] = session[bt.rpc_session]
    PROVE  CreditInv'
<1> SUFFICES ASSUME bt.rpc_session # NoSession
             PROVE  /\ serial'.callback /\ serial'.buff_size = RPC_BUFFER_SIZE
                    /\ Credit(session[bt.rpc_session])'
    BY DEF CreditInv
<1> DEFINE r == session[bt.rpc_session]
<1>1. serial.callback /\ serial.buff_size = RPC_BUFFER_SIZE /\ Credit(r)
  BY DEF CreditInv
<1>2. r' = r
  OBVIOUS
<1> HIDE DEF r
<1>3. Credit(r)'
  BY <1>1, <1>2 DEF Credit
<1> QED BY <1>1, <1>3 DEF r

\* The worker of the link's session, outside buffer_is_empty_callback.
LEMMA WorkerKeepsCredit ==
    ASSUME RpcInv, RpcInv', CreditInv, NEW s \in Sessions, NEW b, Become(s, b),
           WorkerEffect(session[s], b), CreditEffect(session[s], b),
           bt'.rpc_session = bt.rpc_session, gap' = gap, serial' = serial
    PROVE  CreditInv'
<1>1. session'[s] = b /\ \A t \in Sessions \ {s} : session'[t] = session[t]
  BY BecomeGives
<1>2. CASE s # bt.rpc_session
  <2>1. bt.rpc_session # NoSession => session'[bt.rpc_session] = session[bt.rpc_session]
    BY <1>1, <1>2, LinkSession
  <2> QED BY <2>1, CreditUntouched
<1>3. CASE s = bt.rpc_session /\ s # NoSession
  <2> DEFINE r == session[s]
  <2>1. /\ serial.callback /\ serial.buff_size = RPC_BUFFER_SIZE /\ Credit(r)
        /\ WorkerEffect(r, b) /\ CreditEffect(r, b)
    BY <1>3 DEF CreditInv
  <2>2. ~Idle(b)
    <3>1. ~Idle(session'[bt'.rpc_session])
      <4>1. bt'.rpc_session \in Sessions /\ bt'.rpc_session \in BtSessions
        BY <1>3 DEF RpcInv, TransportsTypeOK, BtSessions
      <4>2. SessionConsistent(session'[s], Owned(s)') /\ Owned(s)'
        BY <1>3, <4>1 DEF RpcInv, Owned, Owner
      <4> QED BY <1>3, <4>2 DEF SessionConsistent, Idle
    <3> QED BY <1>1, <1>3, <3>1
  <2> HIDE DEF r
  <2>3. /\ b.callbacks = r.callbacks /\ b.feeding = r.feeding
        /\ r.decode_error => b.decode_error
        /\ (r.stream # <<>> \/ r.pc = "notify") /\ "empty" \in r.callbacks /\ ~b.decode_error
             => b.stream # <<>> \/ b.pc = "notify"
    BY <2>1, <2>2 DEF WorkerEffect, CreditEffect
  <2>4. /\ "empty" \in b.callbacks
        /\ serial'.ready = 0 /\ ~b.decode_error =>
             \/ b.stream # <<>> \/ b.pc = "notify"
             \/ (gap' = "feed" /\ b.feeding # <<>>)
    BY <2>1, <2>3 DEF Credit
  <2>5. session[bt.rpc_session]' = b
    BY <1>1, <1>3
  <2>6. Credit(session[bt.rpc_session])'
    BY <2>4, <2>5 DEF Credit
  <2> QED BY <2>1, <2>6 DEF CreditInv
<1>4. CASE s = bt.rpc_session /\ s = NoSession
  BY <1>4 DEF CreditInv
<1> QED BY <1>2, <1>3, <1>4

LEMMA WorkerCredits ==
    ASSUME RpcInv, RpcInv', CreditInv, NEW s \in Sessions, Worker(s)
    PROVE  CreditInv'
<1>1. DOMAIN bt = {"rpc_session", "rpc_event"}
  BY DEF RpcInv, TransportsTypeOK
<1>2. CASE WorkerStep(s) /\ UNCHANGED <<btVars, cli, inputs>>
  BY <1>2, WorkerStepEffect, WorkerKeepsCredit DEF btVars
<1>3. CASE BtNotify(s)
  <2>1. /\ serial' = IF serial.ready = 0 THEN [serial EXCEPT !.ready = serial.buff_size] ELSE serial
        /\ bt' = bt /\ gap' = gap
    BY <1>3 DEF BtNotify
  <2> SUFFICES ASSUME bt.rpc_session # NoSession
               PROVE  /\ serial'.callback /\ serial'.buff_size = RPC_BUFFER_SIZE
                      /\ Credit(session[bt.rpc_session])'
      BY <2>1 DEF CreditInv
  <2>2. /\ serial.callback /\ serial.buff_size = RPC_BUFFER_SIZE /\ RPC_BUFFER_SIZE # 0
        /\ "empty" \in session[bt.rpc_session].callbacks
    BY RpcAssumption DEF CreditInv, Credit
  <2>3. DOMAIN serial = {"callback", "buff_size", "ready"}
    BY DEF RpcInv, TransportsTypeOK
  <2>4. serial'.callback /\ serial'.buff_size = RPC_BUFFER_SIZE /\ serial'.ready # 0
    BY <2>1, <2>2, <2>3
  <2>5. "empty" \in session'[bt.rpc_session].callbacks
    <3>1. PICK b : Become(s, b) /\ WorkerEffect(session[s], b)
      BY <1>3, NotifyEffect
    <3>2. session'[s] = b /\ \A t \in Sessions \ {s} : session'[t] = session[t]
      BY <3>1, BecomeGives
    <3>3. CASE s # bt.rpc_session
      BY <2>2, <3>2, <3>3, LinkSession
    <3>4. CASE s = bt.rpc_session
      <4>1. SessionConsistent(session'[s], Owned(s)') /\ Owned(s)'
        BY <2>1, <3>4, LinkSession DEF RpcInv, Owned, Owner
      <4>2. ~Idle(session'[s])
        BY <4>1 DEF SessionConsistent, Idle
      <4> QED BY <2>2, <3>1, <3>2, <3>4, <4>2 DEF WorkerEffect
    <3> QED BY <3>3, <3>4
  <2>6. Credit(session[bt.rpc_session])'
    BY <2>1, <2>4, <2>5 DEF Credit
  <2> QED BY <2>4, <2>6
<1>4. CASE BtSend(s)
  <2>1. UNCHANGED session /\ gap' = gap /\ serial' = serial /\ bt'.rpc_session = bt.rpc_session
    BY <1>1, <1>4 DEF BtSend, rpcVars
  <2> QED BY <2>1, CreditUntouched
<1>5. CASE BtSendWait(s)
  <2>1. /\ gap' = gap /\ serial' = serial /\ bt'.rpc_session = bt.rpc_session
        /\ session[s].pc = "call"
    BY <1>1, <1>5 DEF BtSendWait
  <2>2. CASE Sent(s)
    BY <2>1, <2>2, SentEffect, WorkerKeepsCredit
  <2>3. CASE UNCHANGED session
    BY <2>1, <2>3, CreditUntouched
  <2> QED BY <1>5, <2>2, <2>3 DEF BtSendWait
<1>6. CASE CliSend(s)
  <2>1. Sent(s) /\ session[s].pc = "call" /\ gap' = gap /\ bt' = bt /\ serial' = serial
    BY <1>6 DEF CliSend, btVars
  <2> QED BY <2>1, SentEffect, WorkerKeepsCredit
<1>7. CASE Replied(s)
  <2>1. PICK asks \in BOOLEAN : WorkerReplied(s, asks) /\ gap' = gap /\ bt' = bt /\ serial' = serial
    BY <1>7 DEF Replied, btVars
  <2> QED BY <2>1, RepliedEffect, WorkerKeepsCredit
<1> QED BY <1>2, <1>3, <1>4, <1>5, <1>6, <1>7 DEF Worker

\* The GAP thread takes credit only for what it then writes to the buffer.
LEMMA GapCredits ==
    ASSUME RpcInv, CreditInv,
           \/ GapConnect \/ LinkLost \/ Gap \/ \E packet \in Packets : GapReceive(packet)
    PROVE  CreditInv'
<1> DEFINE s == bt.rpc_session
           r == session[s]
<1>1. /\ DOMAIN bt = {"rpc_session", "rpc_event"}
      /\ serial \in [callback : BOOLEAN, buff_size : 0 .. RPC_BUFFER_SIZE, ready : 0 .. RPC_BUFFER_SIZE]
  BY DEF RpcInv, TransportsTypeOK
<1>2. NoSession \notin Sessions /\ BtSessions \subseteq Sessions /\ RPC_BUFFER_SIZE \in Nat \ {0}
  BY RpcAssumption DEF BtSessions
<1>3. s # NoSession => serial.callback /\ serial.buff_size = RPC_BUFFER_SIZE /\ Credit(r)
  BY DEF CreditInv
\* A step on the link's session.
<1>4. ASSUME s \in Sessions, bt' = bt, NEW b, Become(s, b), Same(r, b),
             "empty" \in r.callbacks => "empty" \in b.callbacks,
             serial'.callback = serial.callback, serial'.buff_size = serial.buff_size,
             Credit(r) /\ serial'.ready = 0 /\ ~b.decode_error =>
                 b.stream # <<>> \/ b.pc = "notify" \/ (gap' = "feed" /\ b.feeding # <<>>)
      PROVE  CreditInv'
  <2>1. s # NoSession
    BY <1>2, <1>4
  <2>2. session[bt.rpc_session]' = b
    BY <1>4, BecomeGives
  <2>3. Credit(session[bt.rpc_session])'
    <3>1. Credit(r) /\ "empty" \in r.callbacks
      BY <1>3, <2>1 DEF Credit
    <3> HIDE DEF r
    <3> QED BY <1>4, <2>2, <3>1 DEF Credit
  <2> QED BY <1>3, <1>4, <2>1, <2>3 DEF CreditInv
<1>5. CASE GapConnect
  <2>1. PICK n \in BtSessions : /\ Open(n, {"send", "empty"}) /\ bt' = [bt EXCEPT !.rpc_session = n]
                                /\ serial' = [callback |-> TRUE, buff_size |-> RPC_BUFFER_SIZE,
                                              ready |-> RPC_BUFFER_SIZE]
    BY <1>5 DEF GapConnect, Fresh
  <2>2. bt'.rpc_session = n /\ n \in Sessions
    BY <1>1, <1>2, <2>1
  <2>3. PICK b : Become(n, b) /\ b.callbacks = {"send", "empty"}
    <3> DEFINE calls == {"send", "empty"}
    <3>1. Open(n, calls)
      BY <2>1
    <3> HIDE DEF calls
    <3>2. \E b : Become(n, b) /\ b.callbacks = calls
      BY <2>2, <3>1, OpenGives
    <3> QED BY <3>2 DEF calls
  <2>4. session'[bt'.rpc_session] = b
    BY <2>2, <2>3, BecomeGives
  <2>5. serial'.callback /\ serial'.buff_size = RPC_BUFFER_SIZE /\ serial'.ready # 0
    BY <1>2, <2>1
  <2>6. Credit(session[bt.rpc_session])'
    BY <2>3, <2>4, <2>5 DEF Credit
  <2> QED BY <2>5, <2>6 DEF CreditInv
<1>6. CASE LinkLost \/ GapConfirm \/ GapDisconnect
  <2>1. /\ UNCHANGED session /\ (gap' = gap \/ gap = "idle") /\ bt'.rpc_session = s
        /\ serial' = serial
    BY <1>1, <1>6 DEF LinkLost, GapConfirm, GapDisconnect, rpcVars
  <2> QED BY <2>1, CreditUntouched
<1>7. ASSUME NEW packet \in Packets, GapReceive(packet) PROVE CreditInv'
  <2>1. /\ gap = "idle" /\ gap' = "feed" /\ bt' = bt /\ Feed(s, packet)
        /\ Len(packet) <= serial.ready
        /\ serial' = [serial EXCEPT !.ready = @ - Len(packet)]
    BY <1>7 DEF GapReceive
  <2>2. s \in Sessions
    BY <2>1 DEF Feed, Live
  <2>3. PICK b : /\ Become(s, b) /\ Same(r, b) /\ b.stream = r.stream
                 /\ b.callbacks = r.callbacks /\ b.feeding = packet
    BY <2>1, <2>2, FeedGives
  <2>4. packet \in Seq(Unit) /\ Len(packet) \in Nat /\ (Len(packet) = 0 => packet = <<>>)
    BY TransportsAssumption, EmptySeq, LenProperties
  <2>5. /\ serial'.callback = serial.callback /\ serial'.buff_size = serial.buff_size
        /\ serial'.ready = serial.ready - Len(packet)
    BY <1>1, <2>1
  <2>6. serial'.ready = 0 => serial.ready = 0 \/ packet # <<>>
    <3>1. serial.ready \in Nat /\ Len(<<>>) = 0
      BY <1>1
    <3> QED BY <2>4, <2>5, <3>1
  <2>7. Credit(r) /\ serial'.ready = 0 /\ ~b.decode_error =>
            b.stream # <<>> \/ b.pc = "notify" \/ (gap' = "feed" /\ b.feeding # <<>>)
    <3> HIDE DEF r
    <3> QED BY <2>1, <2>3, <2>6 DEF Credit, Same
  <2> QED BY <1>4, <2>1, <2>2, <2>3, <2>5, <2>7
<1>8. CASE GapFed
  <2>1. /\ gap' = "signal" /\ bt' = bt /\ serial' = serial
        /\ FeedWrite(s) \/ FeedTimeout(s)
    BY <1>8 DEF GapFed
  <2>2. s \in Sessions
    BY <2>1 DEF FeedWrite, FeedTimeout, Live
  <2>3. PICK b : /\ Become(s, b) /\ Same(r, b) /\ b.callbacks = r.callbacks
                 /\ b.stream = r.stream \o r.feeding \/ b.stream # <<>>
    <3>1. CASE FeedWrite(s)
      BY <2>2, <3>1, FeedWriteGives
    <3>2. CASE FeedTimeout(s)
      BY <2>2, <3>2, FeedTimeoutGives
    <3> QED BY <2>1, <3>1, <3>2
  <2>4. r.stream # <<>> \/ r.feeding # <<>> => r.stream \o r.feeding # <<>>
    <3>1. r.stream \in Seq(Unit) /\ r.feeding \in Seq(Unit)
      BY <2>2 DEF RpcInv, TransportsTypeOK, RpcTypeOK, RpcSessionStruct
    <3> HIDE DEF r
    <3> QED BY <3>1, ConcatProperties, EmptySeq, LenProperties
  <2>5. Credit(r) /\ serial'.ready = 0 /\ ~b.decode_error =>
            b.stream # <<>> \/ b.pc = "notify" \/ (gap' = "feed" /\ b.feeding # <<>>)
    <3> HIDE DEF r
    <3> QED BY <2>1, <2>3, <2>4 DEF Credit, Same
  <2> QED BY <1>4, <2>1, <2>2, <2>3, <2>5
<1>9. CASE GapSignal
  <2>1. gap = "signal" /\ bt' = bt /\ serial' = serial /\ FeedSignal(s)
    BY <1>9 DEF GapSignal
  <2>2. s \in Sessions
    BY <2>1 DEF FeedSignal, Live
  <2>3. PICK b : Become(s, b) /\ Same(r, b) /\ b.stream = r.stream /\ b.callbacks = r.callbacks
    BY <2>1, <2>2, FeedSignalGives
  <2>4. Credit(r) /\ serial'.ready = 0 /\ ~b.decode_error => b.stream # <<>> \/ b.pc = "notify"
    <3> HIDE DEF r
    <3> QED BY <2>1, <2>3 DEF Credit, Same
  <2> QED BY <1>4, <2>1, <2>2, <2>3, <2>4
<1>10. CASE GapClose
  <2>1. gap = "close" /\ bt' = bt /\ serial' = serial /\ CloseSend(s)
    BY <1>10 DEF GapClose
  <2>2. s \in Sessions
    BY <2>1 DEF CloseSend, Live
  <2>3. PICK b : /\ Become(s, b) /\ Same(r, b) /\ b.stream = r.stream
                 /\ b.callbacks = r.callbacks \ {"send"}
    BY <2>1, <2>2, CloseSendGives
  <2>4. Credit(r) /\ serial'.ready = 0 /\ ~b.decode_error => b.stream # <<>> \/ b.pc = "notify"
    <3> HIDE DEF r
    <3> QED BY <2>1, <2>3 DEF Credit, Same
  <2> QED BY <1>4, <2>1, <2>2, <2>3, <2>4
<1>11. CASE GapClosed
  <2>1. bt'.rpc_session = NoSession
    BY <1>1, <1>11 DEF GapClosed
  <2> QED BY <2>1 DEF CreditInv
<1> QED BY <1>5, <1>6, <1>7, <1>8, <1>9, <1>10, <1>11 DEF Gap

\* The console has sessions of its own.
LEMMA CliCredits ==
    ASSUME RpcInv, CreditInv,
           \/ CliStart \/ CliClose \/ CliFed \/ CliClosed
           \/ \E packet \in Packets : CliReceive(packet)
    PROVE  CreditInv'
<1>1. UNCHANGED <<gap, bt, serial>>
  BY DEF CliStart, CliClose, CliFed, CliClosed, CliReceive, btVars
<1>2. PICK s \in Sessions : s \notin BtSessions /\ \E b : Become(s, b)
  <2>1. CASE CliStart
    BY <2>1, TransportsAssumption DEF CliStart, Fresh, Open, BtSessions
  <2>2. CASE CliClose \/ CliFed \/ CliClosed \/ \E packet \in Packets : CliReceive(packet)
    <3> DEFINE c == cli.session
    <3>1. Live(c) /\ \E b : Become(c, b)
      BY <2>2 DEF CliClose, CliFed, CliClosed, CliReceive, CloseSend, CloseRest, Feed,
                  FeedWrite, FeedTimeout, FeedSignal
    <3>2. c \in Sessions /\ c \notin BtSessions
      BY <3>1, RpcAssumption DEF Live, RpcInv, TransportsTypeOK, BtSessions
    <3> QED BY <3>1, <3>2
  <2> QED BY <2>1, <2>2
<1>3. bt.rpc_session # NoSession => session'[bt.rpc_session] = session[bt.rpc_session]
  BY <1>2, LinkSession, BecomeGives
<1> QED BY <1>1, <1>3, CreditUntouched

LEMMA CreditNextOK == RpcInv /\ RpcInv' /\ CreditInv /\ [Next]_vars => CreditInv'
<1> SUFFICES ASSUME RpcInv, RpcInv', CreditInv, [Next]_vars PROVE CreditInv'
    OBVIOUS
<1>1. CASE UNCHANGED vars
  BY <1>1, CreditUntouched DEF vars, rpcVars, btVars
<1> QED BY <1>1, WorkerCredits, GapCredits, CliCredits DEF Next

\* bytes_ready_to_receive never stays at 0 for want of a renewal: while it is 0
\* there is input between the radio and the worker's next empty buffer, for any
\* packets, buffer size and number of connections.
THEOREM CreditIsAlwaysDue == Spec => []CreditIsDue
<1>1. Init => CreditInv
  BY DEF Init, CreditInv
<1>2. CreditInv => CreditIsDue
  <2>1. NoSession \notin BtSessions
    BY RpcAssumption DEF BtSessions
  <2> QED BY <2>1 DEF CreditInv, Credit, CreditIsDue
<1> QED
  BY <1>1, <1>2, CreditNextOK, RpcInvariant, PTL DEF Spec

\* The three together.
THEOREM NobodyWaits == Spec => []NobodyWaitsInVain
<1>1. InputWakesWorker /\ ClosedSessionIsTold /\ CreditIsDue => NobodyWaitsInVain
  BY DEF NobodyWaitsInVain
<1> QED BY <1>1, InputAlwaysWakes, ClosedSessionsAreTold, CreditIsAlwaysDue, PTL
=============================================================================
