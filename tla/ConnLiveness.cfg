\* Progress of a send and of the heartbeat while two sessions evict and replace each other.
SPECIFICATION CodeSpec
CONSTANTS
    Peers = {p1}
    Sessions = {s1, s2}
    Messages = {m1}
    MaxConnections = 1
    MissedLimit = 1
    IdleTicks = 1
    OutCap = 1
    EventCap = 1
    MaxDue = 1
    Incoming = {}
    Nobody = Nobody
    Ticker = Ticker
\* A full channel can stop the program for good (ConnFreeze.cfg), and a run
\* without incoming packets and with every message sent may have nothing left to do.
CHECK_DEADLOCK FALSE
PROPERTIES
    EverySendResolves
    SilentPeerDropped
