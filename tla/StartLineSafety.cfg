SPECIFICATION Spec
CONSTANTS
    Boat = {b1, b2}
    NumSlots = 2
    LastAddr = 2
    MaxMissed = 1
    GrantNonce = {n1, n2, n3}
    RegNonce = {r1, r2}
    Epoch = {e1}
    None = None
SYMMETRY Symmetry
INVARIANTS TypeOK TableUnique SlotEntry AddressAgreement CreditIsGrantee  OneAdmitted
PROPERTY QueueAdvances
CHECK_DEADLOCK FALSE
