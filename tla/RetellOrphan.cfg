CONSTANTS
    Call = {c1,c2}
    Attempt = {a1}
    Recording = {m1}
    Operation <- ValidOperation
    AtOnce = 2
    MaxFaults = 0
    None = None
SPECIFICATION Spec
INVARIANT NoRecordingOutlivesTheAccount
CHECK_DEADLOCK FALSE
