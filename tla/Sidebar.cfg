\* Two processes, two sessions and room for one pin.
CONSTANTS
    p1 = p1
    p2 = p2
    Processes = {p1, p2}
    s1 = s1
    s2 = s2
    Sessions = {s1, s2}
    Locals = {"main", "f"}
    Vaults = {"v"}
    Versions <- MCVersions
    MaxPins = 1
    PinAge = 2
    Touch = 1
    RouteAge = 1
    Scenes <- MCScenes
SYMMETRY MCSymmetry
SPECIFICATION SidebarSpec
CHECK_DEADLOCK FALSE
INVARIANT PinsAreAsAsked
INVARIANT FileIsOfOneMode
PROPERTY SessionKeepsPin
PROPERTY MergeKeepsReadings
