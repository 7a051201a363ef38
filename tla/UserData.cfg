CONSTANTS
    c1 = c1
    w1 = w1
    w2 = w2
    i1 = i1
    i2 = i2
    Request = {r1, r2}
    Earlier = Earlier
    Content = {c1}
    Word = {w1, w2}
    Attempt = {g1}
    Recording = {v1}
    Id = {i1, i2}
    Credential = {k1}
    Batch <- Collected
    Clock = {1, 2}
    None = None
SPECIFICATION FairSpec
INVARIANTS TypeOK NothingOutlivesTheAccount AcknowledgedProgressHolds UpsertsTellTheState
    MigrationIsWhole SnapshotIsCurrent
PROPERTIES ImplementsRegisters EveryRequestIsAnswered
CHECK_DEADLOCK FALSE
