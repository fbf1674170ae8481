\* One FREQ code, two pairs: the fan-out of a round, stragglers, alignment, and
\* what every broadcast carries over failed rounds and restarts.
SPECIFICATION Spec
CONSTANTS
    Pairs = {p1, p2}
    IntervalLoops = {}
    CodeLoops = {freq}
    FreqCodes = {freq}
    Period <- MCPeriod
    Starts = {1, 2, 4}
    Ingested <- NweOnly
    NoDoc = NoDoc
    Unread = Unread
    MaxDocs = 2
    MaxWire = 2
SYMMETRY PairSymmetry
INVARIANT TypeOK
INVARIANT SlotsAwaitReads
INVARIANT WireWellFormed
PROPERTY BroadcastFresh
PROPERTY SubscriberMonotone
