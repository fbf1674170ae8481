\* Two DEMA codes, some documents without calcDetail.
SPECIFICATION Spec
CONSTANTS
    Clients = {c1}
    min5 = min5
    min15 = min15
    DEMA = DEMA
    FREQ = FREQ
    Candle = Candle
    demaA = demaA
    demaB = demaB
    freqA = freqA
    freqB = freqB
    NoInterval = NoInterval
    NoRequest = NoRequest
    Intervals = {min5, min15}
    Types = {DEMA, FREQ}
    Codes = {demaA, demaB, freqA, freqB}
    Starts = {1, 2, 3}
    Minutes <- MCMinutes
    Limit = 3
    Ingested <- DemaDocs
    Requests <- DemaRequests
    MaxDocs = 4
SYMMETRY DemaSymmetry
INVARIANT AnswerHasNoGaps
INVARIANT PredictionIsCurrent
INVARIANT BlankNeedsSuccessor
PROPERTY ImplementsWindowQuery
