CONSTANTS
    QUEUE = 8
    MAX_INIT = 1
    AppCalls <- AppSequences
    MaxEvents = 3
SPECIFICATION Spec
INVARIANTS
    
    BackEventAwaited
    DisplayIsTimed
PROPERTIES
    EverythingEnds
    
