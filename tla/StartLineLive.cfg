SPECIFICATION LiveSpec
CONSTANTS
    Boat = {b1, b2}
    NumSlots = 2
    LastAddr = 2
    MaxMissed = 1
    GrantNonce = {n1, n2}
    RegNonce = {r1}
    Epoch = {e1}
    None = None
PROPERTIES EveryBoatServed 
CHECK_DEADLOCK FALSE
