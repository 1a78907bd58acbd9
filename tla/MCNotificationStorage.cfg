\* The sizes of the code: a queue of 8 and 10 attempts to mount a card.
CONSTANTS
    QUEUE = 8
    MAX_INIT = 10
    AppCalls <- NoSequences
    MaxEvents = 2
SPECIFICATION Spec
CHECK_DEADLOCK FALSE
PROPERTIES
    BlockedCallReturns
