SPECIFICATION HostSpec
CONSTANTS
    Daemons = {a, b}
    Serials = {s1, t1}
    Avds = {v1, w1}
    Keys = {1, 2}
    Services = {wifi, lan}
    UserLists = {u1, u2}
    OwnLists = {u1}
    MaxLeases <- Captures
    Rough = {}
    MaxFails = 1
    MaxChanges = 1
    MaxRelaunches = 2
    NoDaemon = NoDaemon
    NoService = NoService
    NoRecord = NoRecord
    NoLease = NoLease
    NoWork = NoWork
    a = a
    b = b
    s1 = s1
    t1 = t1
    v1 = v1
    w1 = w1
    wifi = wifi
    lan = lan
    u1 = u1
    u2 = u2
INVARIANTS
    OwnValuesKept
    ProxyLent
    FreshIsFirstLaunch
PROPERTY LiveSessionKept
