\* One process at a time: no race is needed.
SPECIFICATION Spec
CONSTANTS
    krbtgt = krbtgt
    boot = boot
    k1 = k1
    s1 = s1
    Principal = {krbtgt}
    DefaultPrincipal = {krbtgt}
    Password = {boot, k1}
    Bootstrap = boot
    Session = {s1}
    MaxKvno = 3
    MaxTickets = 1
PROPERTY StartKeepsKeys
