\* Two connections: a silent one and one that waits behind it, or two that write.
\* A length and a payload of one byte each are cut between them.  Connections end
\* and are not used again.
SPECIFICATION Spec
CONSTANTS
    Connection = {c1, c2}
    Length = 1
    Payload = 1
    Backlog = 1
    Nobody = nobody
    MaxStops = 1
INVARIANTS  Audited
PROPERTIES KdcAnswers HttpAnswers ThreadsEnd
CHECK_DEADLOCK FALSE
