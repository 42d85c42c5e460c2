SPECIFICATION FairSpec
CONSTANTS
    f1 = f1
    f2 = f2
    p1 = p1
    p2 = p2
    android = android
    ios = ios
    NoFile = NoFile
    Nobody = Nobody
    r1 = r1
    r2 = r2
    NumSlots = 2
    Files = {f1, f2}
    FileOrder <- TwoFiles
    Projects = {p1, p2}
    Buckets = {android, ios}
    Suites <- Sessions
    Requests = {r1, r2}
INVARIANTS
    Accounted
    BusyMeansOwed
    PageShowsTheRun
PROPERTIES
    GivenRightly
    StopEnds
CHECK_DEADLOCK FALSE
