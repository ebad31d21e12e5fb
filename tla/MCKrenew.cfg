\* One command at a time: no race is needed.
SPECIFICATION Spec
CONSTANTS
    alice = alice
    bob = bob
    fs = fs
    p1 = p1
    tgs = tgs
    nobody = nobody
    Client = {alice, bob}
    Service = {fs}
    Process = {p1}
    Tgs = tgs
    Nobody = nobody
    TicketLife = 1
    RenewLife = 2
    MaxTime = 2
SYMMETRY NamesAreAlike
PROPERTY RenewKeepsRenewable
