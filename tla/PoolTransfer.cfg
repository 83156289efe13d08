\* Two logins, of one account or of two, in a slot shared with another store.
CONSTANTS
    a = a
    b = b
    x = x
    Logins = {1, 2}
    MaxGen = 1
    Owners <- MCOwners
    RowIds = {Main, x}
    Main = Main
    Self = Self
    Foreign = Foreign
    Untagged = Untagged
    Nothing = Nothing
    MaxAttempts = 2
    MaxFaults = 1
    SharedSlot = TRUE
    WriteBack = TRUE
SPECIFICATION FairSpec
CHECK_DEADLOCK FALSE
INVARIANT NoCopyDuringRefresh
INVARIANT SharedTokenShielded
INVARIANT SentOnce
INVARIANT RowsAreOwn
PROPERTY LoginKept
PROPERTY TransferEnds
