\* A machine that resets its identity and fails, and a peer that restarts.
SPECIFICATION FairDiscovery
CONSTANTS
    Messages = {}
    Nicknames = {}
    MaxResets = 1
    MaxFaults = 1
    None = None
    Host = h
    PeerCap = 1
    MaxTracked = 2
INVARIANTS
    ChangesHaveCause
    
PROPERTIES
    AnnouncedIsFound
