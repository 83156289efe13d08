\* Five items, or changes of the body in place of some; one request may come
\* while another is in flight.
CONSTANTS
    Signatures = {s1, s2}
    MaxItems = 5
    MaxTurns = 6
    MaxCrossed = 1
SYMMETRY Symmetry
SPECIFICATION ChainSpec
CHECK_DEADLOCK FALSE
INVARIANT ContextExact
INVARIANT OneTurnIdPerTurn
