\* Two answers at a time on one connection, turns announced or not.
SPECIFICATION FairSpec
CONSTANTS
    s1 = s1
    s2 = s2
    Sessions <- MCTwo
    MaxText = 3
    Throttle = 2
    Announced = {TRUE, FALSE}
    NoEvent = NoEvent
    NoTimer = NoTimer
INVARIANTS TimerKeepsDistance HeldBackIsTimed TextMovesForward
PROPERTY BufferedIsSent
