SPECIFICATION ModeSpec
CONSTANTS
    f1 = f1
    f2 = f2
    setup = setup
    app = app
    w1 = w1
    w2 = w2
    Main = Main
    NoProject = NoProject
    NoRun = NoRun
    Files = {f1, f2}
    Initial = {f1, f2}
    Projects = {setup, app}
    Waves <- SharedWaves
    DependsOn <- SharedDepends
    TestFiles <- SharedFiles
    Workers = {w1, w2}
    Serves <- AnyServes
    MultiTarget = FALSE
    Keys = {"a", "f", "enter"}
INVARIANTS
    StickyFailures
    ChangesScheduled
PROPERTIES
    FailedUntilRerunOrLost
    PoolQueueDrains
