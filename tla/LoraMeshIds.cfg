SPECIFICATION LiveSpec
CONSTANTS
    Node = {a, b}
    LastId = 4
    Slots = 2
    CtrlMax = 1
    SeqMod = 65536
    Msg = {}
    Switch = {}
    None = None
PROPERTY IdsConverge
CHECK_DEADLOCK FALSE
