\* Two KDC threads, one client, and the administrator: three requests are enough
\* for two failures that lock and a third that raced them, or for a failure that a
\* reset overtook.
SPECIFICATION Spec
CONSTANTS
    t1 = t1
    t2 = t2
    alice = alice
    krbtgt = krbtgt
    NoThread = none
    Thread <- TwoThreads
    Principal <- Principals
    Tgs = krbtgt
    AUTH_FAILURE_THRESHOLD = 2
    AUTH_LOCKOUT_SECONDS = 1
    MaxRequests = 3
    MaxTime = 2
INVARIANTS
    CounterMatchesLock
    LockIsEarned
    LockIsTemporary
PROPERTIES
    LockEndsExplained
CHECK_DEADLOCK FALSE
