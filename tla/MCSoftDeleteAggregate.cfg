\* One caller, two documents: an aggregation after a soft deletion.
SPECIFICATION Spec
CONSTANTS
    plain = plain
    Callers = {c1}
    Ids = {d1, d2}
    NoDoc = NoDoc
    IsSupportSoftDeleted <- MCIsSupportSoftDeleted
CHECK_DEADLOCK FALSE
INVARIANT AggregateExcludesDeleted
