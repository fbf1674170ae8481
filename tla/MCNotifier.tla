----------------------------- MODULE MCNotifier -----------------------------
(***************************************************************************)
(* Small instances of Notifier: which loops and pairs exist is given by    *)
(* each cfg, the tables that depend on them here.                          *)
(***************************************************************************)
EXTENDS Notifier, TLC

MCPeriod == [l \in CodeLoops |-> 2]

\* Documents of every loop and start with details D, or candles.
DocsWith(D) == {d \in Doc : d.detail \in D \cup {"candle"}}

PlainOrMissing == DocsWith({"plain", "missing"})
NweOnly == DocsWith({"nwe"})

\* The later of two documents has no calcDetail; a pair may have the earlier one only.
MissingIsNewest == {d \in Doc : d.detail # "nwe" /\ (d.start = 2 <=> d.detail = "missing")}

PairSymmetry == Permutations(Pairs)

=============================================================================
