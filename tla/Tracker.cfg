SPECIFICATION Spec
CONSTANTS
    Fingerprints = {f1, f2}
    Hostnames = {h1, h2}
    MaxTracked = 1
    WriteOutcomes = {TRUE, FALSE}
    None = None
SYMMETRY Symmetry
INVARIANTS
    TypeOK
    TrackedHasRow
    WarningNamesOldPeer
PROPERTIES
    WarningPersists
    DiscoveryWithinLimit
