\* Refuted: a message shown SENT is not lost.
SPECIFICATION Spec
CONSTANTS
    Peers = {p1}
    Sessions = {s1}
    Messages = {m1}
    MaxConnections = 1
    MissedLimit = 1
    IdleTicks = 1
    OutCap = 2
    EventCap = 2
    MaxDue = 1
    Incoming = {}
    Nobody = Nobody
    Ticker = Ticker
\* A full channel can stop the program for good (ConnFreeze.cfg), and a run
\* without incoming packets and with every message sent may have nothing left to do.
CHECK_DEADLOCK FALSE
INVARIANT
    SentIsNotLost
