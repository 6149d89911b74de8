\* Refuted: a dropped connection is closed.
SPECIFICATION FairSpec
CONSTANTS
    Peers = {p1}
    Sessions = {s1}
    Messages = {}
    MaxConnections = 1
    MissedLimit = 1
    IdleTicks = 2
    OutCap = 2
    EventCap = 1
    MaxDue = 1
    Incoming = {}
    Nobody = Nobody
    Ticker = Ticker
\* A full channel can stop the program for good (ConnFreeze.cfg), and a run
\* without incoming packets and with every message sent may have nothing left to do.
CHECK_DEADLOCK FALSE
PROPERTY
    UnlistedStreamCloses
