SPECIFICATION Spec
CONSTANTS
    Calls = {"c1", "c2", "c3"}
    Sessions = {"s1", "s2"}
    SessionOf <- MCSessionOf
    Texts = {v1, v2}
    v1 = v1
    v2 = v2
    MaxUserWrites = 1
SYMMETRY TextSymmetry
PROPERTIES
    OverwritesOnlySeen
    TornOnlyByStrangers
CHECK_DEADLOCK FALSE
