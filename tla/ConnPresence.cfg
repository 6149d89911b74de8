\* Refuted: the UI agrees with the table when all is at rest.
SPECIFICATION Spec
CONSTANTS
    Peers = {p1, p2}
    Sessions = {s1, s2}
    Messages = {}
    MaxConnections = 1
    MissedLimit = 1
    IdleTicks = 1
    OutCap = 2
    EventCap = 3
    MaxDue = 1
    Incoming = {}
    Nobody = Nobody
    Ticker = Ticker
\* A full channel can stop the program for good (ConnFreeze.cfg), and a run
\* without incoming packets and with every message sent may have nothing left to do.
CHECK_DEADLOCK FALSE
INVARIANT
    PresenceAgrees
