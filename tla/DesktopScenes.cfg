\* Two events may wait, so that the second is handled by a scene it was not
\* meant for; five wrong PINs, of which the fourth is the first with a timeout; one visit of the debug scene.
CONSTANTS
    Overtaken = {}
    MaxQueue = 2
    MaxFails = 5
    MaxDepth = 2
SPECIFICATION DesktopSpec
INVARIANTS  AnimationMatchesState IdleEndsUnlessMissed
    LockedAsShown ScenesInTurns TimeoutServed
