----------------------------- MODULE PriceTicks -----------------------------
(***************************************************************************)
(* The live prices of one symbol.  RealTimeEventHandlerService handles     *)
(* each tick in a handler of its own: it replaces the cached price at      *)
(* once, then waits for the write of Stock.currentPrice, compares the tick *)
(* with the price it replaced, and hands it on as 'realtime.price'.        *)
(* SignalProcessorService keeps the prices handed on in the last minutes   *)
(* and compares each with an earlier one.  Nothing orders the handlers.    *)
(* The last client that unsubscribes the symbol empties its cache; so does *)
(* a restart of the process, which ends the handlers as well.              *)
(***************************************************************************)
EXTENDS Integers, Sequences

CONSTANTS
  Price,
  SPIKE_THRESHOLD,   \* percent
  MINUTE, WINDOW,    \* one minute; the five minutes of the price history
  MaxTicks, MaxTime  \* bounds

NoPrice == -1

VARIABLES
  ticks,     \* the prices that arrived
  cached,    \* priceCache
  current,   \* Stock.currentPrice
  stage,     \* tick -> where its handler is
  previous,  \* tick -> the price it replaced in the cache
  announced, \* 'alert.price-spike' events: <<tick, price compared with>>
  history,   \* priceHistory: <<price, time>>
  compared,  \* history: the last <<entry compared with, newest entry a minute old>>
  dropped,   \* history: numbers of the ticks after which the cache was emptied
  clock

vars == <<ticks, cached, current, stage, previous, announced, history, compared, dropped, clock>>

TypeOK ==
  /\ ticks \in Seq(Price) /\ Len(ticks) <= MaxTicks
  /\ cached \in Price \cup {NoPrice} /\ current \in Price \cup {NoPrice}
  /\ DOMAIN stage = DOMAIN ticks /\ DOMAIN previous = DOMAIN ticks
  /\ \A i \in DOMAIN ticks : /\ stage[i] \in {"storing", "announcing", "notifying", "done", "failed"}
                             /\ previous[i] \in Price \cup {NoPrice}
  /\ announced \subseteq (1..MaxTicks) \X Price
  /\ history \in Seq(Price \X (0..MaxTime))
  /\ dropped \subseteq 0..MaxTicks
  /\ clock \in 0..MaxTime

Init ==
  /\ ticks = <<>> /\ stage = <<>> /\ previous = <<>>
  /\ cached = NoPrice /\ current = NoPrice
  /\ announced = {} /\ history = <<>> /\ compared = <<>> /\ dropped = {}
  /\ clock = 0

-----------------------------------------------------------------------------
Abs(n) == IF n < 0 THEN -n ELSE n

\* |changePercent| >= threshold
Jump(from, to) == from > 0 /\ 100 * Abs(to - from) >= SPIKE_THRESHOLD * from

\* A tick arrives: the handler runs up to its first await.
Arrive(p) ==
  /\ Len(ticks) < MaxTicks
  /\ ticks' = Append(ticks, p)
  /\ previous' = Append(previous, cached)
  /\ cached' = p
  /\ stage' = Append(stage, "storing")
  /\ UNCHANGED <<current, announced, history, compared, dropped, clock>>

\* Mutated form: the cache is read and replaced after the write of the row.
StoredThenCached(i) ==
  /\ stage[i] = "storing"
  /\ current' = ticks[i] /\ cached' = ticks[i]
  /\ previous' = [previous EXCEPT ![i] = cached]
  /\ stage' = [stage EXCEPT ![i] = IF Jump(cached, ticks[i]) THEN "announcing" ELSE "notifying"]
  /\ UNCHANGED <<ticks, announced, history, compared, dropped, clock>>

\* updateStockPrice is done; the rows are written in any order.
Stored(i) ==
  /\ stage[i] = "storing"
  /\ current' = ticks[i]
  /\ stage' = [stage EXCEPT ![i] = IF Jump(previous[i], ticks[i]) THEN "announcing" ELSE "notifying"]
  /\ UNCHANGED <<ticks, cached, previous, announced, history, compared, dropped, clock>>

\* detectPriceSpike has found the stock and emits; its notifications follow.
Announce(i) ==
  /\ stage[i] = "announcing"
  /\ announced' = announced \cup {<<i, previous[i]>>}
  /\ stage' = [stage EXCEPT ![i] = "notifying"]
  /\ UNCHANGED <<ticks, cached, current, previous, history, compared, dropped, clock>>

\* The first entry of the history that is at least one minute old.
AMinuteOld(h) == {n \in DOMAIN h : h[n][2] <= clock - MINUTE}
Oldest(S) == CHOOSE n \in S : \A k \in S : n <= k
Newest(S) == CHOOSE n \in S : \A k \in S : k <= n

\* 'realtime.price': SignalProcessorService.handlePriceEvent.
HandOn(i) ==
  /\ stage[i] = "notifying"
  /\ LET recent == SelectSeq(Append(history, <<ticks[i], clock>>), LAMBDA e : e[2] > clock - WINDOW)
         old    == AMinuteOld(recent)
     IN  /\ history' = recent
         /\ compared' = IF Len(recent) < 2 \/ old = {} THEN <<>>
                        ELSE <<recent[Oldest(old)], recent[Newest(old)]>>
  /\ stage' = [stage EXCEPT ![i] = "done"]
  /\ UNCHANGED <<ticks, cached, current, previous, announced, dropped, clock>>

\* A query fails: the tick is logged and goes no further.
Fail(i) ==
  /\ stage[i] \in {"storing", "announcing", "notifying"}
  /\ stage[i] = "notifying" => Jump(previous[i], ticks[i])
  /\ stage' = [stage EXCEPT ![i] = "failed"]
  /\ UNCHANGED <<ticks, cached, current, previous, announced, history, compared, dropped, clock>>

\* unsubscribeSymbol, once the broker has been told.
UnsubscribeSymbol ==
  /\ cached # NoPrice
  /\ cached' = NoPrice
  /\ dropped' = dropped \cup {Len(ticks)}
  /\ UNCHANGED <<ticks, current, stage, previous, announced, history, compared, clock>>

\* The process ends: what it kept in memory is gone, the row stays.
Restart ==
  /\ ticks # <<>>
  /\ cached' = NoPrice /\ history' = <<>> /\ compared' = <<>>
  /\ dropped' = dropped \cup {Len(ticks)}
  /\ stage' = [i \in DOMAIN stage |-> IF stage[i] = "done" THEN "done" ELSE "failed"]
  /\ UNCHANGED <<ticks, current, previous, announced, clock>>

Tick == clock < MaxTime /\ clock' = clock + 1
        /\ UNCHANGED <<ticks, cached, current, stage, previous, announced, history, compared, dropped>>

Next ==
  \/ \E p \in Price : Arrive(p)
  \/ \E i \in DOMAIN ticks : Stored(i) \/ Announce(i) \/ HandOn(i) \/ Fail(i)
  \/ UnsubscribeSymbol \/ Restart \/ Tick

Spec == Init /\ [][Next]_vars

-----------------------------------------------------------------------------
\* The tick before the i-th one, if the cache was not emptied in between.
Before(i) == IF i > 1 /\ i - 1 \notin dropped THEN ticks[i - 1] ELSE NoPrice

\* However the writes of the ticks overtake each other, each tick is compared
\* with the one that arrived before it: a jump between the two is announced when
\* the handler is done, and nothing else is.  The first tick after the symbol was
\* unsubscribed (realtime-event-handler.service.ts:493), or after a restart, is
\* compared with nothing: a jump across these is not announced.
EveryJumpIsAnnounced ==
  \A i \in DOMAIN ticks :
    /\ stage[i] = "done" /\ Jump(Before(i), ticks[i]) => <<i, Before(i)>> \in announced
    /\ \A p \in Price : <<i, p>> \in announced => p = Before(i) /\ Jump(p, ticks[i])

\* "Compare with the price of one minute ago" (signal-processor.service.ts:224):
\* of the prices that are a minute old the newest is compared with.
ComparedWithAMinuteAgo == compared # <<>> => compared[1] = compared[2]

\* When every handler has ended and none has failed, the row holds the last price.
RowHoldsLastPrice ==
  ticks # <<>> /\ (\A i \in DOMAIN ticks : stage[i] = "done") => current = ticks[Len(ticks)]
=============================================================================
