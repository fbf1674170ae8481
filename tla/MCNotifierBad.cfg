\* One DEMA code and two pairs: the newest document of one pair has no calcDetail while
\* that of the other is good, or not.
SPECIFICATION FairSpec
CONSTANTS
    Pairs = {p1, p2}
    IntervalLoops = {}
    CodeLoops = {dema}
    FreqCodes = {}
    Period <- MCPeriod
    Starts = {1, 2}
    Ingested <- MissingIsNewest
    NoDoc = NoDoc
    Unread = Unread
    MaxDocs = 2
    MaxWire = 1
PROPERTY OneBadDocumentSilencesLoop
