----------------------------- MODULE SmartOrder -----------------------------
(***************************************************************************)
(* SmartOrderService: orders that are worked in parts.  A sliced order     *)
(* (VWAP, TWAP) has one timer per slice; an iceberg places one slice after *)
(* the other, a timer in between; a best-limit order is placed whole and   *)
(* then watched; an aggressive one eats the order book level by level and  *)
(* sends the rest at market.  All requests are for one symbol.  Every call *)
(* of the broker is an await: the order is accepted at the broker first,   *)
(* and the answer is handled later, or lost.                               *)
(*                                                                         *)
(* A worker is a chain of callbacks.  Slices count for one share each; the *)
(* sizes of slices are the subject of SlicePlan.                           *)
(***************************************************************************)
EXTENDS Naturals, FiniteSets

CONSTANTS
  Sliced, Icebergs, BestLimits, Aggressives,  \* requests, by orderType
  Slices,        \* slices of an order, also its quantity and the depth of the book
  MayCoincide,   \* two requests may come in the same millisecond
  SameNumbers,   \* the order numbers of the history are those placing returned
  MaxRequests,   \* bound: requests that come in
  MaxTroubles    \* bound: price spikes, refusals and lost answers

Request == Sliced \cup Icebergs \cup BestLimits \cup Aggressives
Instant == 1..Cardinality(Request)
Index   == 1..(Slices + 1)          \* of child orders; the last is the one at market
Worker  == (Sliced \X (1..Slices)) \cup ((Request \ Sliced) \X {0})

ASSUME SmartAssumption ==
  /\ IsFiniteSet(Request)
  /\ Sliced \cap (Icebergs \cup BestLimits \cup Aggressives) = {}
  /\ Icebergs \cap (BestLimits \cup Aggressives) = {}
  /\ BestLimits \cap Aggressives = {}
  /\ Slices \in Nat \ {0}
  /\ {MayCoincide, SameNumbers} \subseteq BOOLEAN
  /\ {MaxRequests, MaxTroubles} \subseteq Nat

VARIABLES
  now,        \* the last millisecond a request came in
  id,         \* request -> its orderId, which is the millisecond; 0 before
  active,     \* the requests found in activeOrders, under their id
  status,     \* request -> result.status, "new" before
  executed,   \* request -> slices with executed = true
  children,   \* request -> child orders in result.childOrders
  reported,   \* request -> result.filledQuantity
  stage,      \* worker -> what it does next
  target,     \* worker -> the child order it is placing: request, index, quantity
  cancel,     \* request -> the call of cancelSmartOrder, and the children it has tried
  open,       \* broker: request -> child order -> quantity not filled
  accepted,   \* broker: request -> quantity accepted so far
  troubles,   \* how often something went wrong
  troubled    \* history: the requests it went wrong for

memory  == <<now, id, active, status>>
result  == <<executed, children, reported>>
broker  == <<open, accepted>>
history == <<troubles, troubled>>
vars    == <<memory, result, stage, target, cancel, broker, history>>

Target == [of : Request, index : Index, quantity : 0..Slices]

TypeOK ==
  /\ now \in {0} \cup Instant
  /\ id \in [Request -> {0} \cup Instant]
  /\ active \subseteq Request
  /\ \A r, x \in active : id[r] = id[x] => r = x
  /\ status \in [Request -> {"new", "ACTIVE", "COMPLETED", "CANCELLED", "FAILED"}]
  /\ executed \in [Request -> SUBSET (1..Slices)]
  /\ children \in [Request -> SUBSET Index]
  /\ reported \in [Request -> Nat]
  /\ stage \in [Worker -> {"none", "timer", "asking", "placed", "closing", "watching",
                           "checking", "skipped", "ended"}]
  /\ target \in [Worker -> Target]
  /\ cancel \in [Request -> [stage : {"none", "running", "ended"}, tried : SUBSET Index]]
  /\ open \in [Request -> [Index -> Nat]]
  /\ accepted \in [Request -> Nat]
  /\ troubles \in 0..MaxTroubles
  /\ troubled \subseteq Request

Init ==
  /\ now = 0
  /\ id = [r \in Request |-> 0]
  /\ active = {}
  /\ status = [r \in Request |-> "new"]
  /\ executed = [r \in Request |-> {}]
  /\ children = [r \in Request |-> {}]
  /\ reported = [r \in Request |-> 0]
  /\ stage = [w \in Worker |-> "none"]
  /\ target = [w \in Worker |-> [of |-> w[1], index |-> 1, quantity |-> 0]]
  /\ cancel = [r \in Request |-> [stage |-> "none", tried |-> {}]]
  /\ open = [r \in Request |-> [i \in Index |-> 0]]
  /\ accepted = [r \in Request |-> 0]
  /\ troubles = 0
  /\ troubled = {}

-----------------------------------------------------------------------------
RequestOf(w) == w[1]
Lead(r)      == <<r, 0>>
Market       == Slices + 1

\* activeOrders, a map from orderId: get, set and delete.
Found(i)       == {x \in active : id[x] = i}
Register(r, i) == active' = (active \ Found(i)) \cup {r}
Forget(i)      == active' = active \ Found(i)

GoTo(w, s)       == stage' = [stage EXCEPT ![w] = s]
Place(w, x, i, q) ==
  /\ GoTo(w, "asking")
  /\ target' = [target EXCEPT ![w] = [of |-> x, index |-> i, quantity |-> q]]
SetStatus(r, s)  == status' = [status EXCEPT ![r] = s]

\* What goes wrong for r, up to the bound.
Trouble(r) ==
  /\ troubles < MaxTroubles
  /\ troubles' = troubles + 1
  /\ troubled' = troubled \cup {r}

Unexecuted(x) == (1..Slices) \ executed[x]

\* Mutated form: an iceberg with no slice left just stops.
IcebergNextSilent(w, i) ==
  \/ Found(i) = {} /\ GoTo(w, "ended") /\ UNCHANGED <<target, status, active>>
  \/ \E x \in Found(i) :
       \/ Unexecuted(x) = {} /\ GoTo(w, "ended") /\ UNCHANGED <<target, status, active>>
       \/ \E k \in Unexecuted(x) :
            /\ \A l \in Unexecuted(x) : k <= l
            /\ Place(w, x, k, 1)
            /\ UNCHANGED <<status, active>>

\* executeNextIcebergSlice up to its first await: it works on whatever the
\* map holds for the id.
IcebergNext(w, i) ==
  \/ Found(i) = {} /\ GoTo(w, "ended") /\ UNCHANGED <<target, status, active>>
  \/ \E x \in Found(i) :
       \/ /\ Unexecuted(x) = {}
          /\ SetStatus(x, "COMPLETED")
          /\ Forget(i)
          /\ GoTo(w, "ended")
          /\ UNCHANGED target
       \/ \E k \in Unexecuted(x) :
            /\ \A l \in Unexecuted(x) : k <= l
            /\ Place(w, x, k, 1)
            /\ UNCHANGED <<status, active>>

\* The loop over the levels of the book with left still to place: the next
\* level within the tolerance, or the rest at market.
NextLevel(w, i, left) ==
  \/ i \in 1..Slices /\ \E q \in 1..left : Place(w, RequestOf(w), i, q)
  \/ Place(w, RequestOf(w), Market, left)

AggressiveEnds(w, s) ==
  /\ GoTo(w, "ended")
  /\ SetStatus(RequestOf(w), s)
  /\ Register(RequestOf(w), id[RequestOf(w)])
  /\ UNCHANGED target

AggressiveGoesOn(w, i, left) ==
  CASE left = 0   -> AggressiveEnds(w, "COMPLETED")
    [] left > 0 /\ i = Market -> AggressiveEnds(w, "ACTIVE")
    [] OTHER      -> NextLevel(w, i + 1, left) /\ UNCHANGED <<status, active>>

-----------------------------------------------------------------------------
\* executeSmartOrder.  The id is the millisecond of the request.
Identify(r) ==
  /\ status[r] = "new"
  /\ Cardinality({x \in Request : id[x] # 0}) < MaxRequests
  /\ now' \in {now + 1} \cup (IF MayCoincide /\ now > 0 THEN {now} ELSE {})
  /\ id' = [id EXCEPT ![r] = now']
  /\ SetStatus(r, "ACTIVE")
  /\ UNCHANGED <<result, cancel, broker, history>>

\* executeVWAP and executeTWAP register the order and set a timer per slice.
StartSliced(r) ==
  /\ Identify(r)
  /\ Register(r, now')
  /\ stage' = [w \in Worker |-> IF RequestOf(w) = r THEN "timer" ELSE stage[w]]
  /\ UNCHANGED target

\* executeIceberg registers the order and asks for its first slice at once.
StartIceberg(r) ==
  /\ Identify(r)
  /\ Register(r, now')
  /\ Place(Lead(r), r, 1, 1)

\* executeBestLimit and executeAggressive register it when they are done.
StartBestLimit(r) ==
  /\ Identify(r)
  /\ Place(Lead(r), r, 1, Slices)
  /\ UNCHANGED active

StartAggressive(r) ==
  /\ Identify(r)
  /\ NextLevel(Lead(r), 1, Slices)
  /\ UNCHANGED active

-----------------------------------------------------------------------------
\* placeOrder: the broker accepts the order; the answer is still out.
Accept(w) ==
  /\ stage[w] = "asking"
  /\ GoTo(w, "placed")
  /\ LET t == target[w] IN
       /\ open' = [open EXCEPT ![t.of][t.index] = @ + t.quantity]
       /\ accepted' = [accepted EXCEPT ![t.of] = @ + t.quantity]
  /\ UNCHANGED <<memory, result, target, cancel, history>>

\* The answer was SUCCESS: the child order is entered in the result.
Enter(w) ==
  LET t == target[w] IN
    /\ stage[w] = "placed"
    /\ children' = [children EXCEPT ![t.of] = @ \cup {t.index}]

\* Mutated form: the slice is not marked as executed.
EnterSliceUnmarked(w) ==
  LET t == target[w] IN
    /\ Enter(w)
    /\ reported' = [reported EXCEPT ![t.of] = @ + 1]
    /\ UNCHANGED executed

EnterSlice(w) ==
  LET t == target[w] IN
    /\ Enter(w)
    /\ executed' = [executed EXCEPT ![t.of] = @ \cup {t.index}]
    /\ reported' = [reported EXCEPT ![t.of] = @ + 1]

\* The timer of a slice.
SliceTimer(w) ==
  LET r == RequestOf(w) IN
    /\ r \in Sliced
    /\ stage[w] = "timer"
    /\ IF Found(id[r]) = {} \/ w[2] \in executed[r]
       THEN GoTo(w, "ended") /\ UNCHANGED target
       ELSE Place(w, r, w[2], 1)
    /\ UNCHANGED <<memory, result, cancel, broker, history>>

\* Mutated form: a skipped slice counts as executed.
SpikeExecuted(w) ==
  /\ RequestOf(w) \in Sliced
  /\ stage[w] = "asking"
  /\ GoTo(w, "skipped")
  /\ executed' = [executed EXCEPT ![RequestOf(w)] = @ \cup {w[2]}]
  /\ Trouble(RequestOf(w))
  /\ UNCHANGED <<memory, children, reported, target, cancel, broker>>

\* With pauseOnSpike a price spike makes the callback return.
Spike(w) ==
  /\ RequestOf(w) \in Sliced
  /\ stage[w] = "asking"
  /\ GoTo(w, "skipped")
  /\ Trouble(RequestOf(w))
  /\ UNCHANGED <<memory, result, target, cancel, broker>>

AnswerSlice(w) ==
  LET r == RequestOf(w) IN
    /\ r \in Sliced
    /\ EnterSlice(w)
    /\ IF Unexecuted(r)' = {}
       THEN GoTo(w, "closing") /\ SetStatus(r, "COMPLETED")
       ELSE GoTo(w, "ended") /\ UNCHANGED status
    /\ UNCHANGED <<now, id, active, target, cancel, broker, history>>

\* calculateVWAP is awaited between the status and the deletion.
Close(w) ==
  /\ stage[w] = "closing"
  /\ Forget(id[RequestOf(w)])
  /\ GoTo(w, "ended")
  /\ UNCHANGED <<now, id, status, result, target, cancel, broker, history>>

AnswerIceberg(w) ==
  /\ RequestOf(w) \in Icebergs
  /\ EnterSlice(w)
  /\ GoTo(w, "timer")
  /\ UNCHANGED <<memory, target, cancel, broker, history>>

\* Five seconds later.
IcebergTimer(w) ==
  /\ RequestOf(w) \in Icebergs
  /\ stage[w] = "timer"
  /\ IcebergNext(w, id[RequestOf(w)])
  /\ UNCHANGED <<now, id, result, cancel, broker, history>>

AnswerBestLimit(w) ==
  LET r == RequestOf(w) IN
    /\ r \in BestLimits
    /\ Enter(w)
    /\ GoTo(w, "watching")
    /\ Register(r, id[r])
    /\ UNCHANGED <<now, id, status, executed, reported, target, cancel, broker, history>>

\* monitorAndAdjustOrder, every ten seconds: the order it finds under the id
\* is marked later.  (That one tick is over before the next is a bound.)
Watch(w) ==
  /\ stage[w] = "watching"
  /\ \/ /\ \A x \in Found(id[RequestOf(w)]) : status[x] # "ACTIVE"
        /\ GoTo(w, "ended")
        /\ UNCHANGED target
     \/ \E x \in Found(id[RequestOf(w)]) :
          /\ status[x] = "ACTIVE"
          /\ GoTo(w, "checking")
          /\ target' = [target EXCEPT ![w].of = x]
  /\ UNCHANGED <<memory, result, cancel, broker, history>>

\* An order that is not in the list of unfilled ones counts as filled; for
\* one that is, at most the price is changed.
Check(w) ==
  /\ stage[w] = "checking"
  /\ IF SameNumbers /\ open[RequestOf(w)][1] > 0
     THEN GoTo(w, "watching") /\ UNCHANGED <<status, active>>
     ELSE /\ GoTo(w, "ended")
          /\ SetStatus(target[w].of, "COMPLETED")
          /\ Forget(id[RequestOf(w)])
  /\ UNCHANGED <<now, id, result, target, cancel, broker, history>>

AnswerLevel(w) ==
  LET r    == RequestOf(w)
      t    == target[w]
      done == IF t.index = Market THEN reported[r] ELSE reported[r] + t.quantity
  IN /\ r \in Aggressives
     /\ Enter(w)
     /\ reported' = [reported EXCEPT ![r] = done]
     /\ AggressiveGoesOn(w, t.index, Slices - done)
     /\ UNCHANGED <<now, id, executed, cancel, broker, history>>

\* The broker's answer is a refusal.
Refuse(w) ==
  LET r == RequestOf(w) IN
    /\ stage[w] = "asking"
    /\ Trouble(r)
    /\ \/ r \in Sliced \cup Icebergs /\ GoTo(w, "ended") /\ UNCHANGED <<target, status, active>>
       \/ r \in BestLimits /\ GoTo(w, "ended") /\ Register(r, id[r]) /\ UNCHANGED <<target, status>>
       \/ r \in Aggressives /\ AggressiveGoesOn(w, target[w].index, Slices - reported[r])
    /\ UNCHANGED <<now, id, result, cancel, broker>>

\* The call throws, before the order was accepted or after.
Throw(w) ==
  LET r == RequestOf(w) IN
    /\ stage[w] \in {"asking", "placed", "checking"}
    /\ Trouble(r)
    /\ GoTo(w, IF stage[w] = "checking" THEN "watching" ELSE "ended")
    /\ IF r \in BestLimits \cup Aggressives /\ stage[w] # "checking"
       THEN SetStatus(r, "FAILED")
       ELSE UNCHANGED status
    /\ UNCHANGED <<now, id, active, result, target, cancel, broker>>

-----------------------------------------------------------------------------
\* cancelSmartOrder, at most once for each request.
BeginCancel(r) ==
  /\ r \in active
  /\ cancel[r].stage = "none"
  /\ cancel' = [cancel EXCEPT ![r].stage = "running"]
  /\ UNCHANGED <<memory, result, stage, target, broker, history>>

\* The loop follows the list while it grows.
CancelChild(r) ==
  /\ cancel[r].stage = "running"
  /\ \E i \in children[r] \ cancel[r].tried :
       /\ cancel' = [cancel EXCEPT ![r].tried = @ \cup {i}]
       /\ \/ open' = [open EXCEPT ![r][i] = 0] /\ UNCHANGED history
          \/ Trouble(r) /\ UNCHANGED open
  /\ UNCHANGED <<memory, result, stage, target, accepted>>

EndCancel(r) ==
  /\ cancel[r].stage = "running"
  /\ children[r] \subseteq cancel[r].tried
  /\ cancel' = [cancel EXCEPT ![r].stage = "ended"]
  /\ SetStatus(r, "CANCELLED")
  /\ Forget(id[r])
  /\ UNCHANGED <<now, id, result, stage, target, broker, history>>

\* The market fills a child order.
Fill(r, i) ==
  /\ open[r][i] > 0
  /\ open' = [open EXCEPT ![r][i] = 0]
  /\ UNCHANGED <<memory, result, stage, target, cancel, accepted, history>>

-----------------------------------------------------------------------------
Start(r) ==
  \/ r \in Sliced /\ StartSliced(r)
  \/ r \in Icebergs /\ StartIceberg(r)
  \/ r \in BestLimits /\ StartBestLimit(r)
  \/ r \in Aggressives /\ StartAggressive(r)

\* What a worker does when the broker and the clock go on.
Work(w) ==
  \/ SliceTimer(w) \/ Accept(w) \/ AnswerSlice(w) \/ Close(w)
  \/ AnswerIceberg(w) \/ IcebergTimer(w)
  \/ AnswerBestLimit(w) \/ Watch(w) \/ Check(w)
  \/ AnswerLevel(w)

Cancel(r) == BeginCancel(r) \/ CancelChild(r) \/ EndCancel(r)

Next ==
  \/ \E r \in Request : Start(r) \/ Cancel(r)
  \/ \E w \in Worker : Work(w) \/ Spike(w) \/ Refuse(w) \/ Throw(w)
  \/ \E r \in Request, i \in Index : Fill(r, i)

Spec == Init /\ [][Next]_vars

\* Timers fire and calls are answered; an order that is open is filled.
FairSpec ==
  /\ Spec
  /\ \A w \in Worker : WF_vars(Work(w))
  /\ \A r \in Request, i \in Index : WF_vars(Fill(r, i))

-----------------------------------------------------------------------------
Alone(r)   == \A x \in Request \ {r} : id[x] # id[r]
Waiting(r) == \E w \in Worker : RequestOf(w) = r /\ stage[w] \in {"asking", "placed"}

\* However timers, refusals, lost answers and a cancellation fall together, an
\* order whose id is its own never has more accepted at the broker than was
\* asked for, and never reports more than was accepted.
NeverOverOrders ==
  \A r \in Request : Alone(r) =>
    /\ accepted[r] <= Slices
    /\ reported[r] <= accepted[r]

\* An order whose id is its own is COMPLETED only when all of it has been
\* placed: no slice is skipped, refused or lost on the way to that status.
CompletedIsPlaced ==
  \A r \in Request : Alone(r) /\ status[r] = "COMPLETED" => accepted[r] = Slices

\* A sliced, iceberg or best-limit order for which nothing goes wrong does not
\* stay ACTIVE.
SmartOrdersEnd ==
  \A r \in Request \ Aggressives :
    status[r] = "ACTIVE" ~> status[r] # "ACTIVE" \/ r \in troubled \/ ~Alone(r)

\* Of an iceberg one slice is shown at a time: "the next slice after its fill
\* is confirmed" (smart-order.service.ts:523).
OneSliceShown ==
  \A r \in Icebergs : Cardinality({i \in Index : open[r][i] > 0}) <= 1

\* "Retry at the next slice" (smart-order.service.ts:410): a slice skipped in
\* a price spike is placed later, unless the order is cancelled.
SkippedSliceRetried ==
  \A w \in Worker :
    stage[w] = "skipped" ~> stage[w] # "skipped" \/ cancel[RequestOf(w)].stage # "none"

\* "Cancel the unfilled child orders" (smart-order.service.ts:653): once the
\* order is CANCELLED and no answer is out, none of it is open.
CancelledLeavesNothingOpen ==
  \A r \in Request : status[r] = "CANCELLED" /\ r \notin troubled /\ ~Waiting(r) =>
    \A i \in Index : open[r][i] = 0

\* "The fill is complete" (smart-order.service.ts:555): a best-limit order is
\* COMPLETED when its child order is filled.
CompletedIsFilled ==
  \A r \in BestLimits : status[r] = "COMPLETED" => open[r][1] = 0

\* "The rest is done at market" (smart-order.service.ts:365): an aggressive
\* order that has all been accepted, and has ended, is COMPLETED.
AggressiveIsCompleted ==
  \A r \in Aggressives :
    stage[Lead(r)] = "ended" /\ accepted[r] = Slices /\ r \notin troubled => status[r] # "ACTIVE"

\* "Iceberg orders (a large order split up)" (smart-order.service.ts:8): the
\* parts of an order never add up to more than the order.
PartsOfTheWhole == \A r \in Icebergs : accepted[r] <= Slices
=============================================================================
