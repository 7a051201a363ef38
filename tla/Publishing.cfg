CONSTANTS
    Request = {r1, r2, r3}
    AdminOp = {a1}
    Key = {k1, k2}
    Item = {i1, i2}
    Digest = {d1, d2}
    None = None
    Document <- AnyDocument
SPECIFICATION Spec
SYMMETRY Symmetry
INVARIANTS TypeOK IdempotentAnswers ReservationNeverLost EveryRevisionHasItsEvent
    EventsFollowRevisions LastEventTellsStatus AudioIsStored
PROPERTIES ImplementsLedger ReceiptsAreFinal
CHECK_DEADLOCK FALSE
