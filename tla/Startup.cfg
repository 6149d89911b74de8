\* Two resets, a nickname and a message, three faults anywhere.
SPECIFICATION FairSpec
CONSTANTS
    Messages = {m1}
    Nicknames = {n1}
    MaxResets = 2
    MaxFaults = 3
    None = None
INVARIANTS
    TypeOK
    HistoryKept
    GeneratedOnce
PROPERTIES
    StableIdentity
    NeverGoesBack
    ComesUp
