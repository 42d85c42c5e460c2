SPECIFICATION PlanSpec
CONSTANTS
    NumProjects = 3
    Total = 2
    MaxFiles = 2
    NumBuckets = 3
    MaxBucketFiles = 3
    MaxWorkers = 5
    Files <- ThreeFiles
    Projects <- ThreeProjects
    ProjectOf <- ThreeProjectOf
    BucketOf <- ThreeBucketOf
    ProjectWaves <- ThreeProjectWaves
    Dependencies <- ThreeDependencies
    f1 = f1
    f2 = f2
    f3 = f3
    f4 = f4
    setup = setup
    app = app
    admin = admin
    ios = ios
    web = web
    cli = cli
    worker = worker
    server = server
    runSession = runSession
    mcpSession = mcpSession
    d1 = d1
    NoClaim = NoClaim
    NoProcess = NoProcess
    Processes = {cli, worker, server}
    Sessions = {runSession, mcpSession}
    Devices = {d1}
    MaxWanted = 1
    SessionOf <- TwoSessionOf
    Root <- TwoRoots
INVARIANTS
    PlannedSoundly
    FilesSharedOut
    OneSessionPerDevice
    DriverIsHolder
    BucketsAccounted
    OwnDependenciesFirst
PROPERTIES
    CoordinatorEnds
    NotTakenFromTheLiving
    CallsReturn
