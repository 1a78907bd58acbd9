\* Two keys and two presses, so that a second key can go down while the first
\* is held; all views horizontal.  The input queue fills up, the dispatcher's
\* does not.
CONSTANTS
    Keys = {"Up", "Back"}
    InputQueueSize = 1
    ViewPorts = {desktop, menu, app}
    NULL = NULL
    Views = {v1, v2}
    FirstView = v1
    VerticalViews = {}
    App = app
    Desktop = desktop
    Menu = menu
    MaxEvents = 3
    QueueSize = 16
SPECIFICATION VDSpec
INVARIANTS NoStaleView ReleaseOnItsWay
PROPERTY RunReturns
CHECK_DEADLOCK FALSE
