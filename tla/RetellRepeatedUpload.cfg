CONSTANTS
    Call = {c1,c2}
    Attempt = {a1}
    Recording = {m1}
    Operation <- ValidUpload
    AtOnce = 1
    MaxFaults = 1
    None = None
SPECIFICATION Spec
INVARIANT RepeatedUploadKeepsTheRecording
CHECK_DEADLOCK FALSE
