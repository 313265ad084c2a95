SPECIFICATION Spec
CONSTANTS
    Msg = {m1, m2}
    MaxAttempts = 2
    Limit = 1
    Nacking = {m1}
    None = None
INVARIANTS TypeOK PendingIsRetryable AckedWasAnswered
CHECK_DEADLOCK FALSE
