CONSTANTS
    Writers = {w1, w2}
    Rows <- MCRows
    Digests <- MCDigests
    TableOf <- MCTableOf
    Payloads <- MCPayloads
    NoDigest = NoDigest
    Nobody = Nobody
    Leftover = {"text"}
    MaxWrites = 3
    MaxFaults = 1
    MaxCollections = 1
SPECIFICATION Spec
SYMMETRY Symmetry
INVARIANTS ReferencedExists InstalledStays OrphansExplained
CHECK_DEADLOCK FALSE
