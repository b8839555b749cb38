CONSTANTS
    Threads = {t1, t2}
    Urls = {u1}
    NoHeader = NoHeader
    Inf = Inf
    NaN = NaN
    Requests <- MCRequests
    Outcomes <- MCOutcomes
SPECIFICATION FairSpec
INVARIANTS TypeOK BackoffDoubles RetryBudget ClientsClosed
PROPERTY CallsEnd
CHECK_DEADLOCK FALSE
