SPECIFICATION RunnerSpec
CONSTANTS
    NumRuns = 2
    Timeout = 3
    WallCap = 6
    Poll = 2
    Late = 1
    MaxActions = 1
    Retries = 1
    Shapes <- MCShapes
    NoPolicy = NoPolicy
    NoScope = NoScope
    NoTest = NoTest
    root = root
    x = x
    y = y
    t1 = t1
    t2 = t2
    t3 = t3
    t4 = t4
    RouteIds = {anyUrl, oneUrl}
    Requests = {q1, q2}
    Scenes <- MCScenes
    MaxStreams = 2
    NoRoute = NoRoute
    anyUrl = anyUrl
    oneUrl = oneUrl
    q1 = q1
    q2 = q2
INVARIANTS
    CleanStart
    EverySetupTornDown
    Reported
    CutWhenDue
    RoutesRestored
    RequestsServed
PROPERTY GivenUpIsFenced
