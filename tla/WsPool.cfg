\* Two requests of a session that may be removed once.
CONSTANTS
    r1 = r1
    r2 = r2
    Requests = {r1, r2}
    MaxEntries = 2
    MaxSockets = 2
    MaxRemovals = 1
    streamRetries = 1
    rawWebSocket = FALSE
    Reissue = FALSE
SPECIFICATION FairSpec
CHECK_DEADLOCK FALSE
INVARIANT SocketsAreOwned
INVARIANT NoSecondResponse
PROPERTY Answered
