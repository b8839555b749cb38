CONSTANTS
    k1 = k1  k2 = k2  v1 = v1  v2 = v2
    t1 = t1  t2 = t2
    Keys = {k1, k2}
    Vals = {v1, v2}
    Threads = {t1, t2}
    Absent = Absent
    Never = Never
    Unset = Unset
    DefaultTtl = 1
    Shared = {k1}
    MaxNow = 3
    Requests <- MCRequests
SPECIFICATION Spec
INVARIANT TypeOK
PROPERTY Contract
