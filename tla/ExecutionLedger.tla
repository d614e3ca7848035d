-------------------------- MODULE ExecutionLedger --------------------------
(***************************************************************************)
(* How fills at the broker reach the books: the execution notices of the   *)
(* KIS web socket, RealTimeEventHandlerService, which writes the Trade row *)
(* and then the Position from each of them, and KisSyncService, which      *)
(* overwrites the Position with the broker's holdings.  One stock, one     *)
(* portfolio.  The socket delivers in order; the handlers of two notices   *)
(* interleave at every await, and any of them may throw (a restart of the  *)
(* process is that they all do).                                           *)
(*                                                                         *)
(* The field filledQuantity of a notice is read as the order's total in    *)
(* one place and as the amount of this fill in another.  Which of them the *)
(* broker means is not known: cumulative is either, and stays as it is.    *)
(*                                                                         *)
(* Of the broker it is assumed that a notice carries the order number that *)
(* placing the order returned.                                             *)
(***************************************************************************)
EXTENDS Integers, Sequences, FiniteSets

CONSTANTS
  Buys, Sells,     \* orders
  Size,            \* order -> its quantity
  SaidComplete,    \* orders that the broker calls complete with nothing filled
  MaxRowId,        \* bound: identities of Position rows
  MaxTroubles      \* bound: what disturbs the books, one thing or another

Order == Buys \cup Sells

ASSUME LedgerAssumption ==
  /\ Buys \cap Sells = {}
  /\ SaidComplete \subseteq Order
  /\ Size \in [Order -> Nat \ {0}]
  /\ MaxRowId \in Nat
  /\ MaxTroubles \in Nat

VARIABLES
  cumulative,  \* a notice tells the total filled so far, not the fill's amount
  filled,      \* order -> quantity filled at the broker, or NotPlaced
  holding,     \* what the broker's account holds
  inbox,       \* notices on their way, in order
  trade,       \* order -> its Trade row: status (or "ABSENT"), filledQuantity
  position,    \* the Position row: identity (or None) and quantity
  handler,     \* notice -> what its handler does next
  seen,        \* notice -> the Position as its handler read it
  sync,        \* the synchronisation: what is next, holdings, Position read
  troubles,    \* history: notices lost, handlers and synchronisations that threw,
               \* requests refused, handlers that began beside another
  course       \* history: "calm"; "early" if only that a notice was handled before
               \* its Trade row was there; "disturbed" by a trouble, or by orders,
               \* fills or handlers beside a synchronisation

broker  == <<cumulative, filled, holding, inbox>>
history == <<troubles, course>>
vars    == <<broker, trade, position, handler, seen, sync, history>>

NotPlaced == -1
None      == 0
NotListed == -1        \* the holdings do not have the stock

\* The notice <<o, q, k>> is sent when a fill of q shares has brought the order o
\* to k; with k = 0 it tells of nothing filled.
Notice ==
  UNION {{<<o, 0, 0>>} \cup {n \in {o} \X (1..Size[o]) \X (1..Size[o]) : n[2] <= n[3]} : o \in Order}

NoPosition == [id |-> None, quantity |-> 0]

Position   == [id : 0..MaxRowId, quantity : Nat]

TradeStatus  == {"ABSENT", "SUBMITTED", "PARTIALLY_FILLED", "FILLED"}
HandlerStage == {"none", "updating", "looking", "writing"}

TypeOK ==
  /\ cumulative \in BOOLEAN
  /\ filled \in [Order -> {NotPlaced} \cup Nat]
  /\ \A o \in Order : filled[o] <= Size[o]
  /\ holding \in Nat
  /\ inbox \in Seq(Notice)
  /\ trade \in [Order -> [status : TradeStatus, filledQuantity : Nat]]
  /\ position \in Position
  /\ position.id = None => position.quantity = 0
  /\ handler \in [Notice -> HandlerStage]
  /\ seen \in [Notice -> Position]
  /\ sync \in [stage : {"idle", "fetched", "writing"}, holding : {NotListed} \cup Nat, seen : Position]
  /\ troubles \in 0..MaxTroubles
  /\ course \in {"calm", "early", "disturbed"}

Init ==
  /\ cumulative \in BOOLEAN
  /\ filled = [o \in Order |-> NotPlaced]
  /\ holding = 0
  /\ inbox = <<>>
  /\ trade = [o \in Order |-> [status |-> "ABSENT", filledQuantity |-> 0]]
  /\ position = NoPosition
  /\ handler = [n \in Notice |-> "none"]
  /\ seen = [n \in Notice |-> NoPosition]
  /\ sync = [stage |-> "idle", holding |-> NotListed, seen |-> NoPosition]
  /\ troubles = 0
  /\ course = "calm"

-----------------------------------------------------------------------------
Handling(n) == handler[n] \in {"updating", "looking", "writing"}
Syncing     == sync.stage # "idle"
AtRest      == inbox = <<>> /\ \A n \in Notice : ~Handling(n)

OrderOf(n)  == n[1]
Amount(n)   == n[2]
Total(n)    == n[3]
Complete(n) == Total(n) = 0 /\ OrderOf(n) \in SaidComplete
Recorded(o) == trade[o].status # "ABSENT"

\* filledQuantity of the notice.
Report(n) == IF cumulative THEN Total(n) ELSE Amount(n)

GoTo(n, s) == handler' = [handler EXCEPT ![n] = s]

\* What disturbs the books, up to the bound.
Trouble == troubles < MaxTroubles /\ troubles' = troubles + 1 /\ course' = "disturbed"

\* What does so without a bound, if it happens at all.
Beside(p) == course' = IF p THEN "disturbed" ELSE course
Early(p)  == course' = IF p /\ course = "calm" THEN "early" ELSE course

-----------------------------------------------------------------------------
\* The broker accepts an order, and fills it in parts.
Place(o) ==
  /\ filled[o] = NotPlaced
  /\ filled' = [filled EXCEPT ![o] = 0]
  /\ inbox' = Append(inbox, <<o, 0, 0>>)
  /\ Beside(Syncing)
  /\ UNCHANGED <<cumulative, holding, trade, position, handler, seen, sync, troubles>>

Fill(o, q) ==
  /\ filled[o] # NotPlaced
  /\ filled[o] + q <= Size[o]
  /\ o \in Sells => q <= holding
  /\ filled' = [filled EXCEPT ![o] = @ + q]
  /\ holding' = IF o \in Buys THEN holding + q ELSE holding - q
  /\ inbox' = Append(inbox, <<o, q, filled[o] + q>>)
  /\ Beside(Syncing)
  /\ UNCHANGED <<cumulative, trade, position, handler, seen, sync, troubles>>

\* executeOrder creates the row when the broker's answer is there.
SaveTrade(o) ==
  /\ filled[o] # NotPlaced
  /\ ~Recorded(o)
  /\ trade' = [trade EXCEPT ![o].status = "SUBMITTED"]
  /\ UNCHANGED <<broker, position, handler, seen, sync, history>>

-----------------------------------------------------------------------------
\* handleRealTimeExecution; updateTradeStatus looks for the Trade row, and
\* without one does nothing.
Receive ==
  /\ inbox # <<>>
  /\ inbox' = Tail(inbox)
  /\ LET n == Head(inbox) IN
       /\ GoTo(n, IF Recorded(OrderOf(n)) THEN "updating" ELSE "looking")
       /\ IF \E m \in Notice : Handling(m)
          THEN Trouble
          ELSE /\ IF Syncing THEN Beside(TRUE) ELSE Early(~Recorded(OrderOf(n)))
               /\ UNCHANGED troubles
  /\ UNCHANGED <<cumulative, filled, holding, trade, position, seen, sync>>

\* The socket is down, and nobody asks for the notices missed.
LoseNotice ==
  /\ inbox # <<>>
  /\ inbox' = Tail(inbox)
  /\ Trouble
  /\ UNCHANGED <<cumulative, filled, holding, trade, position, handler, seen, sync>>

\* Mutated form: any fill completes the order.
StatusForAny(q, size, complete) == IF q > 0 \/ complete THEN "FILLED" ELSE "SUBMITTED"

StatusFor(q, size, complete) ==
  CASE q >= size -> "FILLED"
    [] q > 0 /\ q < size -> "PARTIALLY_FILLED"
    [] OTHER -> IF complete THEN "FILLED" ELSE "SUBMITTED"

UpdateTrade(n) ==
  /\ handler[n] = "updating"
  /\ trade' = [trade EXCEPT ![OrderOf(n)] =
                 [status |-> StatusFor(Report(n), Size[OrderOf(n)], Complete(n)),
                  filledQuantity |-> Report(n)]]
  /\ GoTo(n, "looking")
  /\ UNCHANGED <<broker, position, seen, sync, history>>

\* updatePositionFromExecution looks for the Trade row again.
ReadPosition(n) ==
  /\ handler[n] = "looking"
  /\ IF Recorded(OrderOf(n))
     THEN GoTo(n, "writing") /\ seen' = [seen EXCEPT ![n] = position]
     ELSE GoTo(n, "none") /\ UNCHANGED seen
  /\ Early(~Recorded(OrderOf(n)))
  /\ UNCHANGED <<broker, trade, position, sync, troubles>>

InUse    == {position.id, sync.seen.id} \cup {seen[n].id : n \in Notice}
FreshRow(q) ==
  \E i \in 1..MaxRowId :
    /\ i \notin InUse /\ 1..(i - 1) \subseteq InUse     \* the least: identities are alike
    /\ position' = [id |-> i, quantity |-> q]

\* An update, deletion or creation that rests on the row p; if the row is
\* no longer there, or already there, the statement throws.
UpdateRow(p, q) == IF p.id = position.id THEN position' = [p EXCEPT !.quantity = q] ELSE UNCHANGED position
DeleteRow(p)    == IF p.id = position.id THEN position' = NoPosition ELSE UNCHANGED position
CreateRow(q)    == IF position.id = None THEN FreshRow(q) ELSE UNCHANGED position

Bought(p, q) == IF p.id # None THEN UpdateRow(p, p.quantity + q) ELSE CreateRow(q)

\* Mutated form: a position sold out stays as it was.
SoldKeepingLast(p, q) ==
  IF p.id # None /\ p.quantity > q THEN UpdateRow(p, p.quantity - q) ELSE UNCHANGED position

\* A sale of more than there is changes nothing.
Sold(p, q) ==
  CASE p.id # None /\ p.quantity > q -> UpdateRow(p, p.quantity - q)
    [] p.id # None /\ p.quantity = q -> DeleteRow(p)
    [] OTHER -> UNCHANGED position

WritePosition(n) ==
  /\ handler[n] = "writing"
  /\ IF OrderOf(n) \in Buys THEN Bought(seen[n], Report(n)) ELSE Sold(seen[n], Report(n))
  /\ GoTo(n, "none")
  /\ seen' = [seen EXCEPT ![n] = NoPosition]
  /\ UNCHANGED <<broker, trade, sync, history>>

HandlerThrows(n) ==
  /\ Handling(n)
  /\ GoTo(n, "none")
  /\ seen' = [seen EXCEPT ![n] = NoPosition]
  /\ Trouble
  /\ UNCHANGED <<broker, trade, position, sync>>

-----------------------------------------------------------------------------
\* syncBrokerAccount, one at a time.  The list of holdings may still have a
\* stock that is sold out, with quantity 0.
SyncFetch ==
  /\ ~Syncing
  /\ \E h \in {holding} \cup (IF holding = 0 THEN {NotListed} ELSE {}) :
       sync' = [sync EXCEPT !.stage = "fetched", !.holding = h]
  /\ Beside(~AtRest)
  /\ UNCHANGED <<broker, trade, position, handler, seen, troubles>>

\* The broker answers without a list: getHoldings returns an empty one.
SyncRefused ==
  /\ ~Syncing
  /\ Trouble
  /\ sync' = [sync EXCEPT !.stage = "fetched", !.holding = NotListed]
  /\ UNCHANGED <<broker, trade, position, handler, seen>>

SyncRead ==
  /\ sync.stage = "fetched"
  /\ sync' = [sync EXCEPT !.stage = "writing", !.seen = position]
  /\ UNCHANGED <<broker, trade, position, handler, seen, history>>

\* Mutated form: a position that is no longer held is not deleted.
SyncPositionKeeping(p, h) ==
  IF h = NotListed THEN UNCHANGED position
  ELSE IF p.id # None THEN UpdateRow(p, h) ELSE CreateRow(h)

SyncPosition(p, h) ==
  CASE h = NotListed /\ p.id # None -> DeleteRow(p)
    [] h = NotListed /\ p.id = None -> UNCHANGED position
    [] h # NotListed /\ p.id # None -> UpdateRow(p, h)
    [] OTHER -> CreateRow(h)

SyncEnds == sync' = [stage |-> "idle", holding |-> NotListed, seen |-> NoPosition]

SyncWrite ==
  /\ sync.stage = "writing"
  /\ SyncPosition(sync.seen, sync.holding)
  /\ SyncEnds
  /\ UNCHANGED <<broker, trade, handler, seen, history>>

SyncThrows ==
  /\ Syncing
  /\ SyncEnds
  /\ Trouble
  /\ UNCHANGED <<broker, trade, position, handler, seen>>

-----------------------------------------------------------------------------
Trading(o) == Place(o) \/ (\E q \in 1..Size[o] : Fill(o, q)) \/ SaveTrade(o)
Handle(n)  == UpdateTrade(n) \/ ReadPosition(n) \/ WritePosition(n)
Synchronise == SyncFetch \/ SyncRefused \/ SyncRead \/ SyncWrite \/ SyncThrows

Next ==
  \/ \E o \in Order : Trading(o)
  \/ Receive \/ LoseNotice
  \/ \E n \in Notice : Handle(n) \/ HandlerThrows(n)
  \/ Synchronise

Spec == Init /\ [][Next]_vars

\* A notice is delivered, the handlers go on, and the timer starts one
\* synchronisation after the other; troubles are finitely many.
FairSpec ==
  /\ Spec
  /\ WF_vars(Receive)
  /\ WF_vars(\E n \in Notice : Handle(n))
  /\ WF_vars(SyncFetch \/ SyncRead \/ SyncWrite)

-----------------------------------------------------------------------------
Calm == course = "calm"

NotAhead(o) ==
  /\ trade[o].filledQuantity > 0 => trade[o].filledQuantity <= filled[o]
  /\ trade[o].status = "FILLED" =>
       filled[o] = Size[o] \/ (trade[o].filledQuantity = 0 /\ o \in SaidComplete)

RowExact(o) ==
  /\ trade[o].filledQuantity = filled[o]
  /\ filled[o] = Size[o] => trade[o].status = "FILLED"

\* A Trade row tells what the broker has done (realtime-event-handler.service.ts:212,
\* "determine the status").  However the handlers of its notices overtake each
\* other, whether notices tell totals or amounts, and whatever is lost, it never
\* claims more shares than were filled, and FILLED means all of them, or none, of
\* an order that the broker calls complete with nothing filled.  With totals that are handled one after
\* the other, none lost and none ahead of its row, it has what was filled when all
\* are handled, and an order filled in any number of parts is FILLED.
TradeFollowsBroker ==
  /\ \A o \in Order : NotAhead(o)
  /\ cumulative /\ Calm /\ AtRest => \A o \in Order : Recorded(o) => RowExact(o)

\* With notices that tell the amount of each fill, handled one after the
\* other, nothing lost and no notice ahead of its row, the position is what the
\* broker holds whenever all is handled (realtime-event-handler.service.ts:238,
\* "update the position according to the execution").
PositionExact ==
  ~cumulative /\ Calm /\ AtRest => position.quantity = holding

\* With notices that tell the total as well.
PositionExactOfTotals ==
  Calm /\ AtRest => position.quantity = holding

\* An order filled at the broker is FILLED in the books, also with notices that
\* tell amounts (realtime-event-handler.service.ts:212, "determine the status").
FilledOrderIsFilled ==
  Calm /\ AtRest =>
    \A o \in Order : filled[o] = Size[o] /\ Recorded(o) => trade[o].status = "FILLED"

\* FILLED means that the order's shares were filled.
FilledMeansFilled ==
  \A o \in Order : trade[o].status = "FILLED" => filled[o] = Size[o]

\* The synchronisation repairs the position for good once the fills are over,
\* whatever handlers and earlier synchronisations have made of it.
SyncRepairs == <>[](position.quantity = holding)

\* An order's notices count from its acceptance on: also those handled
\* before executeOrder has created the row.
EarlyNoticeCounts ==
  ~cumulative /\ course # "disturbed" /\ AtRest => position.quantity = holding
=============================================================================
