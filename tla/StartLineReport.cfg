SPECIFICATION Spec
CONSTANTS
    Boat = {b1}
    NumSlots = 1
    LastAddr = 1
    MaxMissed = 1
    GrantNonce = {n1, n2}
    RegNonce = {r1, r2}
    Epoch = {e1}
    None = None
PROPERTY ReportIsNotCutOff
CHECK_DEADLOCK FALSE
