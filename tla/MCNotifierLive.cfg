\* One DEMA code and one candle interval, one pair: what every loop eventually does,
\* and the refinement of LatestFeed.
SPECIFICATION FairSpec
CONSTANTS
    Pairs = {p1}
    IntervalLoops = {min5}
    CodeLoops = {dema}
    FreqCodes = {}
    Period <- MCPeriod
    Starts = {1, 2}
    Ingested <- PlainOrMissing
    NoDoc = NoDoc
    Unread = Unread
    MaxDocs = 2
    MaxWire = 1
PROPERTY RoundsEnd
PROPERTY CatchUp
PROPERTY ImplementsFeed
