SPECIFICATION Spec
CONSTANTS
    Node = {a, b}
    LastId = 3
    Slots = 2
    CtrlMax = 1
    SeqMod = 65536
    Msg = {m1, m2}
    Switch = {a, b}
    None = None
SYMMETRY Symmetry
CONSTRAINT Steady
INVARIANTS TypeOK AckedIsDelivered DeliveredOnce
CHECK_DEADLOCK FALSE
