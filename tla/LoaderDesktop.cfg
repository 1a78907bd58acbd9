\* A caller and the CLI compete for the loader; two tasks, because a task may
\* still publish its end when the next one starts.  Scene changes and starts do
\* not overlap; a queue of one event, so that senders wait for the desktop.
CONSTANTS
    Callers = {menu}
    Cli = cli
    Tasks = {k1, k2}
    Apps = {app1, app2}
    NULL = NULL
    CountMax = 4
    QueueSize = 1
    Overlaps = {}
SPECIFICATION DesktopSpec
INVARIANTS OneAtATime LockBalanced RunsWhatWasAsked AppHasTheMemory AnimationInTurns
 
