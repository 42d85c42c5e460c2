SPECIFICATION Spec
CONSTANTS
    f1 = f1
    f2 = f2
    f3 = f3
    setup = setup
    app = app
    NoFile = NoFile
    N = 2
    Files <- TwoWaveFiles
    Projects <- TwoWaveProjects
    ProjectOf <- TwoWaveProjectOf
    ProjectWaves <- TwoWaveProjectWaves
    WaveFiles <- TwoWaveWaveFiles
    Dependencies <- TwoWaveDependencies
    NumTests <- TwoWaveNumTests
    TestRetries = 1
    GroupMembers = 1
INVARIANTS
    TypeOK
    ExactlyOnce
    CompleteResults
    NothingLeftRunning
    LedgerExact
