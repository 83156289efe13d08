CONSTANTS
    a = a
    b = b
    t1 = t1
    t2 = t2
    t3 = t3
    p1 = p1
    p2 = p2
    Rows = {a, b}
    Tasks = {t1, t2, t3}
    Procs = {p1, p2}
    Home <- MCHome
    Scenes <- MCScenes
    OldRow = a
    MaxGen = 3
    MaxMishaps = 1
    MaxPolls = 1
SPECIFICATION Spec
INVARIANT NoSpentTokenSent
PROPERTY CredentialKept
PROPERTY RowsStay
PROPERTY NoOrphanSecrets
