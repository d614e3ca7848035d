---------------------------- MODULE PositionBook ----------------------------
(***************************************************************************)
(* The Position rows of one portfolio and the calls that copy the broker's *)
(* holdings into them: KisSyncService.syncBrokerAccount ("kis", of the     *)
(* cron, or of triggerSync, which does not look at isSyncing),             *)
(* PositionManagerService.syncPositions ("manager", of the dashboard) and  *)
(* PortfoliosService.syncFromBroker ("broker"); addPosition ("add") adds   *)
(* by hand.  Each reads before it writes, one row after the other, with    *)
(* awaits between.                                                         *)
(*                                                                         *)
(* Rows are read with their ids: a row that was read is "stale" once it is *)
(* deleted, and to write it throws, even if there is a new one.  Prices,   *)
(* Stock rows and the sums of the portfolio are left out, and the broker   *)
(* is assumed to list no stock of which nothing is held.                   *)
(***************************************************************************)
EXTENDS Integers

CONSTANTS
  Writer,      \* calls that may be under way
  Cron,        \* the one of KisSyncService's cron (isSyncing)
  Stock,
  MaxShares,   \* bound: shares of a stock
  MaxTrades,   \* bound: changes of the account
  MaxCalls,    \* bound: calls of users
  MaxFaults    \* bound: requests that are refused, writes that throw

Limits == MaxShares \in Nat

VARIABLES
  holding,     \* stock -> shares in the account
  position,    \* stock -> quantity of its row, or NoRow
  stage, kind, \* call -> what it does
  listed,      \* call -> the holdings it was given
  seen, read,  \* call -> stock -> its row as it was read; quantity read
  todo,        \* call -> stocks to do in this stage
  trades, started, faults,
  disturbed    \* history: calls under which account or rows changed, or that saw no list

calls == <<stage, kind, listed, seen, read, todo>>
vars  == <<holding, position, calls, trades, started, faults, disturbed>>

NoRow   == -1
Nowhere == [s \in Stock |-> 0]
Unread  == [s \in Stock |-> "unread"]

TypeOK ==
  /\ holding \in [Stock -> 0..MaxShares]
  /\ position \in [Stock -> {NoRow} \cup Nat]
  /\ stage \in [Writer -> {"idle", "fetched", "writing", "pruning"}]
  /\ kind \in [Writer -> {"kis", "manager", "broker", "add"}]
  /\ listed \in [Writer -> [Stock -> 0..MaxShares]]
  /\ seen \in [Writer -> [Stock -> {"unread", "none", "live", "stale"}]]
  /\ read \in [Writer -> Nat]
  /\ todo \in [Writer -> SUBSET Stock]
  /\ trades \in 0..MaxTrades /\ started \in 0..MaxCalls /\ faults \in 0..MaxFaults
  /\ disturbed \subseteq Writer

Init ==
  /\ holding \in [Stock -> {0, MaxShares}]
  /\ position = [s \in Stock |-> NoRow]
  /\ stage = [w \in Writer |-> "idle"] /\ kind = [w \in Writer |-> "kis"]
  /\ listed = [w \in Writer |-> Nowhere]
  /\ seen = [w \in Writer |-> Unread] /\ read = [w \in Writer |-> 0]
  /\ todo = [w \in Writer |-> {}]
  /\ trades = 0 /\ started = 0 /\ faults = 0
  /\ disturbed = {}

-----------------------------------------------------------------------------
Row(s)    == position[s] # NoRow
Busy      == {w \in Writer : stage[w] # "idle"}
Listed(w) == {s \in Stock : listed[w][s] > 0}

Fault == faults < MaxFaults /\ faults' = faults + 1

Goes(w, st, what) ==
  /\ stage' = [stage EXCEPT ![w] = st]
  /\ todo' = [todo EXCEPT ![w] = what]

\* The call returns or throws; what it knows is forgotten.
Ends(w) ==
  /\ Goes(w, "idle", {})
  /\ listed' = [listed EXCEPT ![w] = Nowhere]
  /\ seen' = [seen EXCEPT ![w] = Unread] /\ read' = [read EXCEPT ![w] = 0]
  /\ kind' = [kind EXCEPT ![w] = "kis"]
  /\ UNCHANGED <<holding, position, trades, started>>

Trade(s, q) ==
  /\ trades < MaxTrades /\ trades' = trades + 1
  /\ q # holding[s]
  /\ holding' = [holding EXCEPT ![s] = q]
  /\ disturbed' = disturbed \cup Busy
  /\ UNCHANGED <<position, calls, started, faults>>

\* The holdings arrive; of a refused request as an empty list (getHoldings).
Start(w, k) ==
  /\ stage[w] = "idle"
  /\ IF w = Cron THEN k = "kis" /\ UNCHANGED started
                 ELSE started < MaxCalls /\ started' = started + 1
  /\ kind' = [kind EXCEPT ![w] = k]
  /\ \/ /\ listed' = [listed EXCEPT ![w] = holding]
        /\ disturbed' = disturbed \ {w}
        /\ UNCHANGED faults
     \/ Fault /\ disturbed' = disturbed \cup {w} /\ UNCHANGED listed
  /\ Goes(w, IF k = "kis" THEN "fetched" ELSE "writing", Listed(w)')
  /\ UNCHANGED <<holding, position, seen, read, trades>>

StartAdd(w, s) ==
  /\ stage[w] = "idle" /\ w # Cron
  /\ started < MaxCalls /\ started' = started + 1
  /\ kind' = [kind EXCEPT ![w] = "add"]
  /\ Goes(w, "writing", {s})
  /\ UNCHANGED <<holding, position, listed, seen, read, trades, faults, disturbed>>

\* Mutated form: nothing is deleted.
FindNoRows(w) ==
  /\ \/ kind[w] = "kis" /\ stage[w] = "fetched"
     \/ kind[w] = "manager" /\ stage[w] = "writing" /\ todo[w] = {}
     \/ kind[w] = "broker" /\ stage[w] = "writing" /\ todo[w] = {} /\ Listed(w) # {}
  /\ seen' = [seen EXCEPT ![w] = [s \in Stock |-> IF Row(s) THEN "live" ELSE "none"]]
  /\ Goes(w, "pruning", {})
  /\ UNCHANGED <<holding, position, kind, listed, read, trades, started, faults, disturbed>>

\* findMany: by "kis" before it writes, by the others after it; syncFromBroker
\* deletes nothing when the list is empty.
FindRows(w) ==
  /\ \/ kind[w] = "kis" /\ stage[w] = "fetched"
     \/ kind[w] = "manager" /\ stage[w] = "writing" /\ todo[w] = {}
     \/ kind[w] = "broker" /\ stage[w] = "writing" /\ todo[w] = {} /\ Listed(w) # {}
  /\ seen' = [seen EXCEPT ![w] = [s \in Stock |-> IF Row(s) THEN "live" ELSE "none"]]
  /\ Goes(w, "pruning", {s \in Stock : Row(s)} \ Listed(w))
  /\ UNCHANGED <<holding, position, kind, listed, read, trades, started, faults, disturbed>>

\* findUnique, before each write.
Look(w, s) ==
  /\ kind[w] \in {"broker", "add"} /\ stage[w] = "writing"
  /\ s \in todo[w] /\ seen[w] = Unread
  /\ seen' = [seen EXCEPT ![w][s] = IF Row(s) THEN "live" ELSE "none"]
  /\ read' = [read EXCEPT ![w] = IF Row(s) THEN position[s] ELSE 0]
  /\ UNCHANGED <<holding, position, stage, kind, listed, todo, trades, started, faults, disturbed>>

\* update of a row that is there, create of one that is not, or upsert.
CanWrite(w, s) ==
  kind[w] = "manager" \/ seen[w][s] = "live" \/ (seen[w][s] = "none" /\ ~Row(s))

Quantity(w, s) == IF kind[w] = "add" THEN read[w] + 1 ELSE listed[w][s]

Write(w, s) ==
  /\ stage[w] = "writing" /\ s \in todo[w] /\ CanWrite(w, s)
  /\ position' = [position EXCEPT ![s] = Quantity(w, s)]
  /\ todo' = [todo EXCEPT ![w] = @ \ {s}]
  /\ seen' = [seen EXCEPT ![w] = IF kind[w] = "kis" THEN @ ELSE Unread]
  /\ disturbed' = disturbed \cup (Busy \ {w})
  /\ UNCHANGED <<holding, stage, kind, listed, read, trades, started, faults>>

Delete(w, s) ==
  /\ stage[w] = "pruning" /\ s \in todo[w] /\ seen[w][s] = "live"
  /\ position' = [position EXCEPT ![s] = NoRow]
  /\ todo' = [todo EXCEPT ![w] = @ \ {s}]
  /\ seen' = [v \in Writer |-> IF seen[v][s] = "live" THEN [seen[v] EXCEPT ![s] = "stale"] ELSE seen[v]]
  /\ disturbed' = disturbed \cup (Busy \ {w})
  /\ UNCHANGED <<holding, stage, kind, listed, read, trades, started, faults>>

\* Mutated form: isSyncing is not reset when the cron's call throws.
ThrowsSyncing(w) ==
  /\ w # Cron
  /\ \/ \E s \in todo[w] : stage[w] = "pruning" /\ seen[w][s] = "stale" /\ UNCHANGED faults
     \/ stage[w] # "idle" /\ Fault
  /\ Ends(w)
  /\ UNCHANGED disturbed

\* A write of a row that is gone, or a create of one that has come, throws.
Throws(w) ==
  /\ \/ /\ \E s \in todo[w] :
             \/ stage[w] = "pruning" /\ seen[w][s] = "stale"
             \/ stage[w] = "writing" /\ seen[w][s] # "unread" /\ ~CanWrite(w, s)
        /\ UNCHANGED faults
     \/ stage[w] # "idle" /\ Fault
  /\ Ends(w)
  /\ UNCHANGED disturbed

\* "kis" has deleted, and writes.
Pruned(w) ==
  /\ kind[w] = "kis" /\ stage[w] = "pruning" /\ todo[w] = {}
  /\ Goes(w, "writing", Listed(w))
  /\ UNCHANGED <<holding, position, kind, listed, seen, read, trades, started, faults, disturbed>>

Done(w) ==
  /\ todo[w] = {}
  /\ \/ stage[w] = "pruning" /\ kind[w] # "kis"
     \/ stage[w] = "writing" /\ (kind[w] \in {"kis", "add"} \/ (kind[w] = "broker" /\ Listed(w) = {}))
  /\ Ends(w)
  /\ UNCHANGED <<faults, disturbed>>

GoesOn(w) ==
  \/ FindRows(w) \/ Throws(w) \/ Pruned(w) \/ Done(w)
  \/ \E s \in Stock : Look(w, s) \/ Write(w, s) \/ Delete(w, s)

Next ==
  \/ \E s \in Stock, q \in 0..MaxShares : Trade(s, q)
  \/ \E w \in Writer, k \in {"kis", "manager", "broker"} : Start(w, k)
  \/ \E w \in Writer, s \in Stock : StartAdd(w, s)
  \/ \E w \in Writer : GoesOn(w)

Spec == Init /\ [][Next]_vars

\* Requests end, and the cron comes again.
Fairness ==
  /\ \A w \in Writer : WF_vars(GoesOn(w))
  /\ WF_vars(Start(Cron, "kis"))

FairSpec == Spec /\ Fairness

-----------------------------------------------------------------------------
Exact == \A s \in Stock : position[s] = IF holding[s] = 0 THEN NoRow ELSE holding[s]

\* A synchronisation that nobody disturbs leaves the rows as the account is, and
\* throws only if a write failed, whatever other calls have left behind; of
\* syncFromBroker this holds but for an account that has become empty, whose
\* rows it leaves alone.
SyncIsExact ==
  [][\A w \in Writer :
       /\ stage[w] # "idle" /\ stage'[w] = "idle"
       /\ w \notin disturbed /\ faults' = faults
       /\ kind[w] # "add" /\ (kind[w] = "broker" => Listed(w) # {})
       => Exact']_vars

\* When the account rests and the users' calls are over, the cron brings the
\* rows back to the account, whatever calls crossed, threw or deleted before.
Converges == <>[]Exact

=============================================================================
