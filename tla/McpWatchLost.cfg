SPECIFICATION PartSpec
CONSTANTS
    f1 = f1
    f2 = f2
    f3 = f3
    setup = setup
    app = app
    NoFile = NoFile
    N = 2
    Files <- TwoWaveFiles
    Projects <- TwoWaveProjects
    ProjectOf <- TwoWaveProjectOf
    ProjectWaves <- TwoWaveProjectWaves
    WaveFiles <- TwoWaveWaveFiles
    Dependencies <- TwoWaveDependencies
    NumTests <- TwoWaveNumTests
    TestRetries = 0
    GroupMembers = 1
    d1 = d1
    d2 = d2
    TestFiles = {f1, f2}
    Watched = f1
    NumCalls = 3
    NumKids = 2
    Devices = {d1, d2}
    Scenes <- Sessions
    NoTestFile = NoTestFile
    NoDevice = NoDevice
INVARIANT SavedIsRun
