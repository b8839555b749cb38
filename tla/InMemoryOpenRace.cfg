CONSTANTS
    k1 = k1  k2 = k2  f1 = f1  f2 = f2  v1 = v1
    t1 = t1  t2 = t2  t3 = t3
    Keys = {k1, k2}
    Fields = {f1, f2}
    Vals = {v1}
    Absent = Absent
    NoThread = NoThread
    Threads = {t1, t2}
    Scopes = {FALSE}
    Requests <- OpenCalls
SPECIFICATION Spec
PROPERTY OpenKeepsOpenStore
