CONSTANTS
    Call = {c1, c2, c3}
    Attempt = {a1, a2}
    Recording = {m1, m2}
    Operation <- AnyOperation
    AtOnce = 2
    MaxFaults = 2
    None = None
SPECIFICATION FairSpec
INVARIANTS StoresAgree
PROPERTIES AcknowledgedUploadIsStored RowsGoAfterObjects AccountDeletionCompletes
CHECK_DEADLOCK FALSE
