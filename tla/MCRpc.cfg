\* A session over Bluetooth and one of the console share busy_mutex.  Two
\* packets of up to two units overfill a buffer of two.
CONSTANTS
    b1 = b1
    c1 = c1
    Sessions = {b1, c1}
    CliSessions = {c1}
    NoSession = NoSession
    RPC_BUFFER_SIZE = 2
    MaxReplies = 2
    Packets <- MCPackets
    MaxInputs = 2
    MaxFrames = 2
SPECIFICATION Spec
CHECK_DEADLOCK FALSE
INVARIANTS  CallbackFindsTransport ClosedSessionIsDrained
    NobodyWaitsInVain
PROPERTIES ClosedSessionEnds 
