CONSTANTS
    u1 = u1  u2 = u2  u3 = u3
    Users = {u1, u2, u3}
    Nobody = Nobody
    MaxConns = 3
    Sites <- MCSites
SPECIFICATION FairSpec
INVARIANTS TypeOK NothingOrphaned
PROPERTIES CloseReleases UsesFindTheTable LockFreed
