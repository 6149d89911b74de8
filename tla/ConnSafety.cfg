\* The table and a send: setups of two peers, a send, cleanups and the heartbeat
\* compete for one place.
SPECIFICATION Spec
CONSTANTS
    Peers = {p1, p2}
    Sessions = {s1, s2}
    Messages = {m1}
    MaxConnections = 1
    MissedLimit = 1
    IdleTicks = 1
    OutCap = 1
    EventCap = 1
    MaxDue = 1
    Incoming = {"Ping", "Message"}
    Nobody = Nobody
    Ticker = Ticker
SYMMETRY Symmetry
\* A full channel can stop the program for good (ConnFreeze.cfg).
CHECK_DEADLOCK FALSE
INVARIANTS
    TypeOK
    CapacityBound
    EntryIsLive
    TickSeesTable
    OverdueIsDoomed
    LockDiscipline
    OneSetupPerSend
    CarriedOnceToRecipient
PROPERTY
    ImplementsLifecycle
