\* Three callers, one document: documents are independent of each other.
\* The system stops when the document is removed and nobody holds it.
SPECIFICATION Spec
CONSTANTS
    plain = plain
    Callers = {c1, c2, plain}
    Ids = {d1}
    NoDoc = NoDoc
    IsSupportSoftDeleted <- MCIsSupportSoftDeleted
CHECK_DEADLOCK FALSE
SYMMETRY SoftDeleteSymmetry
INVARIANT SoftDeleteTakesEffect
INVARIANT DeletedStaysHidden
