CONSTANTS
    k1 = 1  k2 = 2  f1 = f1  f2 = f2  f3 = f3  v1 = v1
    t1 = t1  t2 = t2  t3 = t3
    Keys = {1, 2}
    Fields = {f1, f2, f3}
    Vals = {v1}
    Absent = Absent
    NoThread = NoThread
    NoKey = NoKey
    Threads = {t1, t2}
    BatchSize = 1
    MaxCrashes = 0
    Unstorable <- MCUnstorable
    Deployments <- PlainSites
SPECIFICATION Spec
INVARIANT SomeConnectionCanWrite
