SPECIFICATION Spec
CONSTANTS
    Retries = 1
    Shapes <- MCPerTest
    NoPolicy = NoPolicy
    NoScope = NoScope
    NoTest = NoTest
    root = root
    x = x
    y = y
    t1 = t1
    t2 = t2
    t3 = t3
    t4 = t4
INVARIANT OwnResetRuns
