\* Two function calls, five frames.
CONSTANTS
    c1 = c1
    c2 = c2
    Calls = {c1, c2}
    MaxFrames = 5
SPECIFICATION FairStream
CHECK_DEADLOCK FALSE
INVARIANT ChainedResponseIsWhole
PROPERTY StreamEnds
PROPERTY KeepsContract
