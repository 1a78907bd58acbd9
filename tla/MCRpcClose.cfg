\* The smallest instance in which a close overtakes a callback.
CONSTANTS
    b1 = b1
    Sessions = {b1}
    CliSessions = {}
    NoSession = NoSession
    RPC_BUFFER_SIZE = 2
    MaxReplies = 1
    Packets <- MCPackets
    MaxInputs = 1
    MaxFrames = 1
SPECIFICATION Spec
CHECK_DEADLOCK FALSE
INVARIANT NoCallbackAfterClose
