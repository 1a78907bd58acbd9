\* Two keys that are pressed, held and released, or bounce, in five changes.
CONSTANTS
    Keys = {"Up", "Back"}
    DebounceTicks = 4
    LongPressCounts = 2
    InputQueueSize = 2
    MaxChanges = 5
SPECIFICATION InputSpec
INVARIANTS ChangeIsPending
PROPERTIES  KeyChangesAreSeen
CHECK_DEADLOCK FALSE
