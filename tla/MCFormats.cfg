SPECIFICATION Spec
CONSTANTS
    None = None
    Nothing = Nothing
    InvalidToken = InvalidToken
    Home <- HomeRealm
    Fine = 4
    Micro = 2
    Client <- Clients
    Service <- Services
    Stranger <- Strangers
    TICKET_LIFETIME = 1
    RENEWABLE_LIFETIME = 2
    MaxTime = 9
    MaxKvno = 2
    Rotating <- HomeKeys
    MaxIssued = 3
    Size = 2
    MaxData = 4
    Keys <- Permutation
    FoldInput <- Bytes
    FoldLength <- Lengths
INVARIANTS
    TypeOK
    LabelsKept
    TimesKept
    StampKept
    RefusalsExplained
    OpensWhole
    FoldIsSum
CHECK_DEADLOCK FALSE
