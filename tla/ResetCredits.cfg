\* Three attempts on a row that may be signed in as two accounts.
CONSTANTS
    a1 = a1
    a2 = a2
    a3 = a3
    x = x
    y = y
    NoAccount = NoAccount
    Attempts = {a1, a2, a3}
    Accounts = {x, y}
    Refusals = {"unauthorized"}
    Credits = {1, 2}
    InFlightTtl = 1
    Cooldown = 1
    MaxTime = 1
    MaxMinted = 3
SPECIFICATION Spec
SYMMETRY Symmetry
CHECK_DEADLOCK FALSE
INVARIANT OnePairPerWindow
INVARIANT SpendIsRemembered
