\* The screen, the table and the sends in flight, with failing reads and writes.
SPECIFICATION FairSpec
CONSTANTS
    Peers = {p1, p2}
    Outbound = {m1}
    Inbound = {1}
    ReadOutcomes = {TRUE, FALSE}
    WriteOutcomes = {TRUE, FALSE}
    EventCap = 2
    MaxFlight = 2
    None = None
INVARIANTS
    TypeOK
    ViewIsConversation
    StatusesAgree
    PendingIsUnderWay
PROPERTIES
    RightRecipient
    PendingEnds
