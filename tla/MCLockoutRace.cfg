\* Two KDC threads whose requests overlap.
SPECIFICATION Spec
CONSTANTS
    t1 = t1
    t2 = t2
    alice = alice
    krbtgt = krbtgt
    NoThread = none
    Thread <- TwoThreads
    Principal <- Principals
    Tgs = krbtgt
    AUTH_FAILURE_THRESHOLD = 2
    AUTH_LOCKOUT_SECONDS = 2
    MaxRequests = 4
    MaxTime = 3
PROPERTIES
    LockHolds
CHECK_DEADLOCK FALSE
