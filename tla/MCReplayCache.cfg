\* Two KDC threads and the application server over one table.  The clock runs
\* from before the window of the authenticator (ctime 2, skew 2) to past the last
\* moment a request with it is fresh.
SPECIFICATION ReplaySpec
CONSTANTS
    t1 = t1
    t2 = t2
    a1 = a1
    ApServer = ap
    KdcThread <- TwoThreads
    Authenticator <- OneAuth
    ctime <- OneCtime
    MAX_CLOCK_SKEW = 2
    MaxTime = 5
SYMMETRY ThreadSymmetry
INVARIANTS
    OncePerWindow
    RepeatsExplained
    Remembered
    RefusedOnlyRepeats
CHECK_DEADLOCK FALSE
