\* See MCVector.tla for what vectors are made of.
CONSTANTS
    fresh = fresh
    bad = bad
    MaxLength = 7
    Item <- Items
    Contents <- Numbers
    Replacement <- Settable
    Unhashable = {bad}
    Packings = {1, 2, 3}
    MaxSets = 2
    NoProof = NoProof
SPECIFICATION Spec
INVARIANTS LayersFit ProofsShow StaleRefused
CHECK_DEADLOCK FALSE
