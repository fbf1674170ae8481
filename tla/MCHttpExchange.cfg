\* Two requests, two writes, ends and statuses between them, both filters.
SPECIFICATION FairSpec
CONSTANTS
    Requests = {r1, r2}
    Buffers = {buffer}
    Texts = {text}
    Value = Value
    Items = Items
    Error = Error
    Codes = {204}
    Statuses = {404}
    Unset = Unset
    Filters <- MCFilters
    MaxCalls = 2
CHECK_DEADLOCK FALSE
INVARIANT TypeOK
 
INVARIANT LogPairs
INVARIANT CrashHasCulprit
INVARIANT StatusOfException
INVARIANT PageHeadersMatchBody
PROPERTY RepliesAreLogged
