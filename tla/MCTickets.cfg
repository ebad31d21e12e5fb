\* One KDC thread; an initial ticket, its renewal and a derived ticket.  Two
\* ticks make a second; the clock runs past the renewal of a proof at time 0, and
\* the application server's is a tick behind.
SPECIFICATION Spec
CONSTANTS
    Thread = {t1}
    Client = {alice}
    Second = 2
    TICKET_LIFETIME = 2
    RENEWABLE_LIFETIME = 4
    MAX_CLOCK_SKEW = 1
    ApSkew <- ApBehind
    MaxTickets = 3
    MaxTime = 6
INVARIANTS
    TypeOK
    WithinRenewal
    ServiceWithinTgt
PROPERTIES
    AccessEnds
    RefinesAccess
CHECK_DEADLOCK FALSE
