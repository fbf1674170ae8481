\* Two FREQ codes of different intervals, and candles.
SPECIFICATION FairSpec
CONSTANTS
    Clients = {c1}
    min5 = min5
    min15 = min15
    DEMA = DEMA
    FREQ = FREQ
    Candle = Candle
    demaA = demaA
    demaB = demaB
    freqA = freqA
    freqB = freqB
    NoInterval = NoInterval
    NoRequest = NoRequest
    Intervals = {min5, min15}
    Types = {DEMA, FREQ}
    Codes = {demaA, demaB, freqA, freqB}
    Starts = {1, 2, 3}
    Minutes <- MCMinutes
    Limit = 2
    Ingested <- FreqDocs
    Requests <- FreqRequests
    MaxDocs = 4
INVARIANT PredictionOnNewest
PROPERTY EveryRequestReplied
