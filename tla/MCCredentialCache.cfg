\* Two clients whose commands run in two processes at a time.  A ticket lasts
\* one second, its renewal two: at the third it is renewable and expired.
SPECIFICATION Spec
CONSTANTS
    alice = alice
    bob = bob
    fs = fs
    p1 = p1
    p2 = p2
    tgs = tgs
    nobody = nobody
    Client = {alice, bob}
    Service = {fs}
    Process = {p1, p2}
    Tgs = tgs
    Nobody = nobody
    TicketLife = 1
    RenewLife = 2
    MaxTime = 3
SYMMETRY NamesAreAlike
INVARIANTS TypeOK CoherentCache AuthenticatorMatches
PROPERTY LiveTgtKept
