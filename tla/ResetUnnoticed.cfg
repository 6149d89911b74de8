\* A running program resets its identity: the peers are not told.
SPECIFICATION FairDiscovery
CONSTANTS
    Messages = {}
    Nicknames = {}
    MaxResets = 1
    MaxFaults = 1
    None = None
    Host = h
    PeerCap = 1
    MaxTracked = 3
PROPERTY ResetReachesPeers
