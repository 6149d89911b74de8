\* Three frames, every split into chunks, reads dropped at every byte.
SPECIFICATION FairSpec
CONSTANTS
    HeaderLen = 2
    MaxLen = 2
    MaxFrames = 3
    None = None
INVARIANTS
    TypeOK
    FailsOnlyTorn
PROPERTIES
    ImplementsPipe
    TornIsDeaf
    FramesDelivered
\* The loop ends.
CHECK_DEADLOCK FALSE
