\* Two accounts, two overlapping requests of one session, one change of an account.
CONSTANTS
    Roster <- MCPair
    r1 = r1
    r2 = r2
    Main = "main"
    Requests = {r1, r2}
    Hosts = {"opencode", "pi"}
    Modes = {"main-first", "fallback-first", "sticky-balanced"}
    Starts = {"free", "unknown"}
    Turns = {"credits", "budget", "backoff", "killed"}
    Resets = {1, 3}
    CacheTtl = 1
    MaxWait = 1
    MaxNow = 2
    MaxChanges = 1
SYMMETRY RequestSymmetry
SPECIFICATION Spec
CHECK_DEADLOCK FALSE
INVARIANT SpendsInBounds
PROPERTY FailureIsFinal
PROPERTY PinMovesOnEvidence
PROPERTY OneHoldPerRequest
