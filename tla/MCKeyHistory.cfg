\* One principal, two administration processes.  A second password is enough
\* to replace a key by a different or by an earlier one, a third version to
\* overtake a session twice.  The ticket is any one of those the KDC issues:
\* tickets do not influence each other.
SPECIFICATION Spec
CONSTANTS
    krbtgt = krbtgt
    boot = boot
    k1 = k1
    s1 = s1
    s2 = s2
    Principal = {krbtgt}
    DefaultPrincipal = {krbtgt}
    Password = {boot, k1}
    Bootstrap = boot
    Session = {s1, s2}
    MaxKvno = 3
    MaxTickets = 1
SYMMETRY SessionsAreAlike
INVARIANTS TypeOK HistoryHoldsCurrent KeyLossExplained
