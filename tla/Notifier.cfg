\* Two peers, windows of three ticks, up to seven messages.
SPECIFICATION Spec
CONSTANTS
    Peers = {p1, p2}
    Window = 3
    MaxMessages = 7
SYMMETRY Symmetry
INVARIANTS
    TypeOK
    CountedOnce
    OnlyTriggerMissed
PROPERTIES
    OnePerWindow
