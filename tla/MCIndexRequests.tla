--------------------------- MODULE MCIndexRequests ---------------------------
(***************************************************************************)
(* Small instances of IndexRequests: one client, since requests share      *)
(* nothing but documents they do not write, and windows that cover all or  *)
(* part of the start times.                                                *)
(***************************************************************************)
EXTENDS IndexRequests, TLC

CONSTANTS min5, min15, DEMA, demaA, demaB, freqA, freqB

MCMinutes == [i \in Intervals |-> IF i = min15 THEN 2 ELSE 1]

\* Documents of two DEMA codes and one interval, some without calcDetail.
DemaDocs ==
    {d \in Doc : d.type = DEMA /\ d.code \in {demaA, demaB}
                 /\ d.interval = min15 /\ d.detail \in {"nwe", "missing"}}

\* Documents of two FREQ codes of different intervals, and candles.
FreqDocs ==
    {d \in Doc : /\ d.detail = "plain"
                 /\ <<d.type, d.code, d.interval>> \in
                        {<<FREQ, freqA, min5>>, <<FREQ, freqB, min15>>,
                         <<Candle, Candle, min5>>, <<Candle, Candle, min15>>}}

Windows == {<<1, 3>>, <<2, 3>>}

Asks(ops, types, intervals) ==
    {r \in Request : /\ r.op \in ops /\ r.type \in types /\ r.interval \in intervals
                     /\ <<r.from, r.to>> \in Windows}

DemaRequests == Asks({"indicator"}, {DEMA}, {min15})
FreqRequests == Asks({"freq"}, {FREQ}, {NoInterval, min15}) \cup Asks({"candle"}, {FREQ}, {min15})

DemaSymmetry == Permutations({demaA, demaB})

=============================================================================
