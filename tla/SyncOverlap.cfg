CONSTANTS
    Request = {r1, r2}
    AdminOp = {}
    Key = {k1, k2}
    Item = {i1, i2}
    Digest = {d1}
    None = None
    Document <- IntactDocument
    Client = {c1}
    PageSize = 2
SPECIFICATION SyncSpec
INVARIANT PassedChangesAreKnown
CHECK_DEADLOCK FALSE
