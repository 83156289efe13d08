\* One row that two accounts may sign in to, one of them the vault's.
CONSTANTS
    Sources = {"opencode", "pi"}
    Identities = {"a", "b"}
    Vaulted = {"b"}
    PendingCap = 1
    MaxOut = 1
    MaxEpoch = 2
    MaxStamp = 2
    MaxReads = 1
    MaxFaults = 1
    MaxObs = 2
    MaxEvents <- MCEvents
SPECIFICATION SourceSpec
CHECK_DEADLOCK FALSE
INVARIANT ReadingsStay
INVARIANT DrainedBeforeClose
PROPERTY SendsHeldLogin
