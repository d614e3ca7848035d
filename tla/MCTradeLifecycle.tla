-------------------------- MODULE MCTradeLifecycle --------------------------
(* Call slots are alike: a slot keeps nothing from one call to the next.    *)
(* Two states are the same if they differ only in what no step and no       *)
(* property reads: counted, and what a call that has ended had read.        *)
EXTENDS TradeLifecycle, TLC

Interchangeable == Permutations(Call)

UnderWay(c) ==
  IF stage[c] = "idle" THEN <<>>
  ELSE <<stage[c], seen[c], IF stage[c] = "answering" THEN answer[c] ELSE None>>

WhatCounts == <<row, jobs, broker, [c \in Call |-> UnderWay(c)], retries, overlapped, unsure>>
=============================================================================
