\* One thing at a time: up to four items and pages of one or two of them, nine months
\* and four time zones, four ids within four milliseconds, two calls of withTransaction.
SPECIFICATION HelpersSpec
CONSTANTS
    MaxItems = 4
    PageQuery = {0, 1, 2, 3}
    SizeQuery = {0, 1}
    DefaultPerPage = 2
    MaxPage = 8
    Zones <- MCZones
    StartDates <- MCStartDates
    EndDates <- MCEndDates
    LastMonth = 8
    MonthStart <- MCMonthStart
    Suffixes <- MCSuffixes
    MaxClock = 3
    MaxIds = 4
    Calls = {a, b}
    MaxAttempts = 3
CHECK_DEADLOCK FALSE
INVARIANT NothingLost
INVARIANT NothingTwice
INVARIANT DatesListed
INVARIANT MonthsListed
INVARIANT IdsFollowClock
INVARIANT DuplicatesExact
INVARIANT ReturnMatchesWrites
INVARIANT AppliedOnce
INVARIANT ErrorMeansNothing
PROPERTY WalkEnds
PROPERTY ImplementsAtomicCall
PROPERTY SessionEnds
