CONSTANTS
    Threads = {t1, t2}
    Urls = {u1}
    NoHeader = NoHeader
    Inf = Inf
    NaN = NaN
    Requests <- MCRequests
    Outcomes <- MCOutcomes
SPECIFICATION FairSpec
PROPERTY DelaysEnd
CHECK_DEADLOCK FALSE
