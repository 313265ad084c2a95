SPECIFICATION Spec
CONSTANTS
    Boat = {b1, b2}
    NumSlots = 2
    LastAddr = 2
    MaxMissed = 1
    GrantNonce = {n1, n2}
    RegNonce = {r1, r2}
    Epoch = {e1, e2}
    None = None
SYMMETRY Symmetry
INVARIANTS SlotEntry AddressAgreement CreditIsGrantee
CHECK_DEADLOCK FALSE
