------------------------- MODULE MCTradingSession -------------------------
(* Call slots are alike, and so are strategies.                             *)
EXTENDS TradingSession, TLC

Interchangeable == Permutations(Call) \cup Permutations(Strategy)
=============================================================================
