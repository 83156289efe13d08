\* Three process ids, started three times in all.
CONSTANTS
    p1 = p1
    p2 = p2
    p3 = p3
    NoOne = NoOne
    Absent = Absent
    Procs = {p1, p2, p3}
    Kinds = {"new", "override", "older"}
    MaxStarts = 3
    MaxWrites = 1
    MaxFaults = 1
SPECIFICATION Spec
SYMMETRY Symmetry
CHECK_DEADLOCK FALSE
INVARIANT NoSplit
INVARIANT FilesAreSafe
