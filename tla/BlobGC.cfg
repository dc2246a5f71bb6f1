CONSTANTS
    Writers = {w1, w2}
    Rows <- MCRows
    Digests <- MCDigests
    TableOf <- MCTableOf
    Payloads <- MCPayloads
    NoDigest = NoDigest
    Nobody = Nobody
    Leftover = {}
    MaxWrites = 2
    MaxFaults = 0
    MaxCollections = 1
SPECIFICATION Spec
SYMMETRY Symmetry
INVARIANT CollectionPreservesReferenced
CHECK_DEADLOCK FALSE
