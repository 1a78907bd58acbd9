\* An application is started before the one before it has published its end.
CONSTANTS
    Callers = {rpc}
    Cli = cli
    Tasks = {k1, k2}
    Apps = {app}
    NULL = NULL
    CountMax = 4
    QueueSize = 2
    Overlaps = {"start"}
SPECIFICATION DesktopSpec
INVARIANT AnimationInTurns
