SPECIFICATION LiveSpec
CONSTANTS
    Msg = {m1, m2}
    MaxAttempts = 2
    Limit = 1
    Nacking = {}
    None = None
PROPERTIES EnqueuedIsSent 
CHECK_DEADLOCK FALSE
