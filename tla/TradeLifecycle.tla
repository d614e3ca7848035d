--------------------------- MODULE TradeLifecycle ---------------------------
(***************************************************************************)
(* One Trade row and everything that writes its status: TradesService      *)
(* (create, executeTrade, cancelTrade, retryFailedTrade), the cancel loop  *)
(* of RiskManagerService.emergencyLiquidation, and the fill notices that   *)
(* RealTimeEventHandlerService.updateTradeStatus records.  Each of them    *)
(* reads the row, awaits, and then updates it by its id alone, so what a   *)
(* call writes rests on what it has seen and not on what is there.         *)
(*                                                                         *)
(* Call is a set of slots: a slot runs one call after the other.  Fields   *)
(* of the row that decide nothing here are left out; so is the filled      *)
(* quantity, a notice may report none, some or all of the order.           *)
(***************************************************************************)
EXTENDS Integers, FiniteSets

CONSTANTS
  Call,
  MAX_RETRIES,
  MaxOrders,     \* bound: orders the broker accepts for this trade
  MaxJobs        \* bound: jobs waiting in the queue 'trading'

ASSUME LifecycleAssumption ==
  /\ IsFiniteSet(Call)
  /\ MAX_RETRIES \in Nat /\ MaxOrders \in Nat /\ MaxJobs \in Nat

VARIABLES
  row,           \* status, retryCount and brokerOrderId of the Trade
  jobs,          \* jobs of the queue 'trading' for this trade
  placed,        \* orders the broker has accepted; they are 1..placed
  live,          \* those still open at the broker
  stage,         \* call -> what it does next
  seen,          \* call -> the row as it read it
  answer,        \* call -> the order the broker gave it
  retries,       \* history: retries granted
  counted,       \* history: k -> how often retryCount was set to at most k
  overlapped,    \* history: two calls were under way together
  unsure         \* history: a call ended without recording its outcome

broker  == <<placed, live>>
calls   == <<stage, seen, answer>>
budget  == <<retries, counted>>
history == <<budget, overlapped, unsure>>
vars    == <<row, jobs, broker, calls, history>>

NoRow == "ABSENT"
None  == 0

Status == {"PENDING", "SUBMITTED", "PARTIALLY_FILLED", "FILLED", "CANCELLED", "REJECTED"}
OrderId == 0..MaxOrders

\* retryCount: executeTrade may add one to the MAX_RETRIES of retryFailedTrade.
Row == [status : Status \cup {NoRow}, retryCount : 0..(MAX_RETRIES + 1), brokerOrderId : OrderId]

Placing   == {"placing", "answering", "refused", "threw"}
Executing == {"submitting"} \cup Placing
Stage     == {"idle", "enqueue", "cancelling", "cancelled", "retrying", "noticing"} \cup Executing

TypeOK ==
  /\ row \in Row
  /\ jobs \in 0..MaxJobs
  /\ placed \in OrderId
  /\ live \subseteq 1..placed
  /\ stage \in [Call -> Stage]
  /\ seen \in [Call -> Row]
  /\ answer \in [Call -> OrderId]
  /\ retries \in Nat
  /\ counted \in [0..MAX_RETRIES -> Nat]
  /\ overlapped \in BOOLEAN
  /\ unsure \in BOOLEAN

Init ==
  /\ row = [status |-> NoRow, retryCount |-> 0, brokerOrderId |-> None]
  /\ jobs = 0
  /\ placed = 0
  /\ live = {}
  /\ stage = [c \in Call |-> "idle"]
  /\ seen = [c \in Call |-> row]
  /\ answer = [c \in Call |-> None]
  /\ retries = 0
  /\ counted = [k \in 0..MAX_RETRIES |-> 0]
  /\ overlapped = FALSE
  /\ unsure = FALSE

-----------------------------------------------------------------------------
InStage(c, s) == stage[c] = s
GoTo(c, s)    == stage' = [stage EXCEPT ![c] = s]
SetStatus(s)  == row' = [row EXCEPT !.status = s]

\* The call reads the row and goes on to s.
Read(c, s) ==
  /\ InStage(c, "idle")
  /\ GoTo(c, s)
  /\ seen' = [seen EXCEPT ![c] = row]
  /\ overlapped' = (overlapped \/ \E d \in Call : ~InStage(d, "idle"))

\* retryCount is set to n.
Counts(n) == counted' = [k \in 0..MAX_RETRIES |-> counted[k] + IF n <= k THEN 1 ELSE 0]

\* create: the row, then the job.
Create(c) ==
  /\ row.status = NoRow
  /\ Read(c, "enqueue")
  /\ SetStatus("PENDING")
  /\ UNCHANGED <<jobs, broker, answer, budget, unsure>>

Enqueue(c) ==
  /\ InStage(c, "enqueue")
  /\ jobs < MaxJobs
  /\ jobs' = jobs + 1
  /\ GoTo(c, "idle")
  /\ UNCHANGED <<row, broker, seen, answer, history>>

EnqueueFails(c) ==
  /\ InStage(c, "enqueue")
  /\ GoTo(c, "idle")
  /\ UNCHANGED <<row, jobs, broker, seen, answer, history>>

\* TraderWorker.processJob reports the job done and does nothing else.
WorkerJob ==
  /\ jobs > 0
  /\ jobs' = jobs - 1
  /\ UNCHANGED <<row, broker, calls, history>>

-----------------------------------------------------------------------------
\* Mutated form: the status is not asked for.
ReadForExecutionUnchecked(c) ==
  /\ row.status # NoRow
  /\ Read(c, "submitting")
  /\ UNCHANGED <<row, jobs, broker, answer, budget, unsure>>

\* executeTrade
ReadForExecution(c) ==
  /\ row.status = "PENDING"
  /\ Read(c, "submitting")
  /\ UNCHANGED <<row, jobs, broker, answer, budget, unsure>>

\* The update to SUBMITTED, or its failure.
Submit(c) ==
  /\ InStage(c, "submitting")
  /\ \/ SetStatus("SUBMITTED") /\ GoTo(c, "placing")
     \/ UNCHANGED row /\ GoTo(c, "threw")
  /\ UNCHANGED <<jobs, broker, seen, answer, history>>

BrokerAccepts(c) ==
  /\ InStage(c, "placing")
  /\ placed < MaxOrders
  /\ placed' = placed + 1
  /\ live' = live \cup {placed'}
  /\ answer' = [answer EXCEPT ![c] = placed']
  /\ GoTo(c, "answering")
  /\ UNCHANGED <<row, jobs, seen, history>>

\* The broker refuses, or the request does not get there and throws.
PlacementFails(c) ==
  /\ InStage(c, "placing")
  /\ GoTo(c, "refused") \/ GoTo(c, "threw")
  /\ UNCHANGED <<row, jobs, broker, seen, answer, history>>

\* The broker has the order; the call only sees an error.
AnswerLost(c) ==
  /\ InStage(c, "answering")
  /\ GoTo(c, "threw")
  /\ unsure' = TRUE
  /\ UNCHANGED <<row, jobs, broker, seen, answer, budget, overlapped>>

RecordFilled(c) ==
  /\ InStage(c, "answering")
  /\ row' = [row EXCEPT !.status = "FILLED", !.brokerOrderId = answer[c]]
  /\ GoTo(c, "idle")
  /\ UNCHANGED <<jobs, broker, seen, answer, history>>

\* Mutated form: only failureReason is written.
RecordRejectedReasonOnly(c) ==
  /\ InStage(c, "refused")
  /\ GoTo(c, "idle")
  /\ UNCHANGED <<row, jobs, broker, seen, answer, history>>

RecordRejected(c) ==
  /\ InStage(c, "refused")
  /\ SetStatus("REJECTED")
  /\ GoTo(c, "idle")
  /\ UNCHANGED <<jobs, broker, seen, answer, history>>

\* The catch clause counts a retry as well, on from what was read.
RecordFailed(c) ==
  /\ InStage(c, "threw")
  /\ row' = [row EXCEPT !.status = "REJECTED", !.retryCount = seen[c].retryCount + 1]
  /\ Counts(seen[c].retryCount + 1)
  /\ GoTo(c, "idle")
  /\ UNCHANGED <<jobs, broker, seen, answer, retries, overlapped, unsure>>

\* The last update throws: the row stays as it is and no catch is left
\* (the updates after the answer are returned without an await).
LastWriteFails(c) ==
  /\ stage[c] \in {"answering", "refused", "threw"}
  /\ GoTo(c, "idle")
  /\ unsure' = TRUE
  /\ UNCHANGED <<row, jobs, broker, seen, answer, budget, overlapped>>

-----------------------------------------------------------------------------
\* cancelTrade.  The liquidation loop does the same to PENDING and SUBMITTED
\* rows: it has read all of them before it cancels the first.
ReadForCancel(c) ==
  /\ row.status \in {"PENDING", "SUBMITTED", "PARTIALLY_FILLED"}
  /\ Read(c, "cancelling")
  /\ UNCHANGED <<row, jobs, broker, answer, budget, unsure>>

\* Only an exception stops the call: the broker's refusal is an answer too,
\* and the answer is not looked at.
AskToCancel(c) ==
  /\ InStage(c, "cancelling")
  /\ seen[c].brokerOrderId # None
  /\ live' \in {live, live \ {seen[c].brokerOrderId}}
  /\ GoTo(c, "cancelled") \/ GoTo(c, "idle")
  /\ UNCHANGED <<row, jobs, placed, seen, answer, history>>

RecordCancelled(c) ==
  /\ \/ InStage(c, "cancelled")
     \/ InStage(c, "cancelling") /\ seen[c].brokerOrderId = None
  /\ SetStatus("CANCELLED") \/ UNCHANGED row      \* the update may fail
  /\ GoTo(c, "idle")
  /\ UNCHANGED <<jobs, broker, seen, answer, history>>

-----------------------------------------------------------------------------
\* Mutated form: one retry more than the limit.
ReadForRetryOffByOne(c) ==
  /\ row.status = "REJECTED"
  /\ row.retryCount <= MAX_RETRIES
  /\ Read(c, "retrying")
  /\ UNCHANGED <<row, jobs, broker, answer, budget, unsure>>

\* retryFailedTrade
ReadForRetry(c) ==
  /\ row.status = "REJECTED"
  /\ row.retryCount < MAX_RETRIES
  /\ Read(c, "retrying")
  /\ UNCHANGED <<row, jobs, broker, answer, budget, unsure>>

MarkForRetry(c) ==
  /\ InStage(c, "retrying")
  /\ row' = [row EXCEPT !.status = "PENDING", !.retryCount = seen[c].retryCount + 1]
  /\ Counts(seen[c].retryCount + 1)
  /\ retries' = retries + 1
  /\ GoTo(c, "enqueue")
  /\ UNCHANGED <<jobs, broker, seen, answer, overlapped, unsure>>

-----------------------------------------------------------------------------
\* updateTradeStatus finds the row by its order and writes what the notice
\* says, whatever the status has become.
ReadForFill(c) ==
  /\ row.brokerOrderId # None
  /\ Read(c, "noticing")
  /\ UNCHANGED <<row, jobs, broker, answer, budget, unsure>>

RecordFill(c) ==
  /\ InStage(c, "noticing")
  /\ \E s \in {"SUBMITTED", "PARTIALLY_FILLED", "FILLED"} : SetStatus(s)
  /\ GoTo(c, "idle")
  /\ UNCHANGED <<jobs, broker, seen, answer, history>>

\* An order is done at the broker.
OrderDone ==
  /\ \E o \in live : live' = live \ {o}
  /\ UNCHANGED <<row, jobs, placed, calls, history>>

\* The API process dies with its calls; row, queue and broker stay.
Crash ==
  /\ stage' = [c \in Call |-> "idle"]
  /\ unsure' = (unsure \/ \E c \in Call : stage[c] \in Executing)
  /\ UNCHANGED <<row, jobs, broker, seen, answer, budget, overlapped>>

-----------------------------------------------------------------------------
Creates(c)  == Create(c) \/ Enqueue(c) \/ EnqueueFails(c)
Executes(c) == \/ ReadForExecution(c) \/ Submit(c) \/ BrokerAccepts(c) \/ PlacementFails(c)
               \/ AnswerLost(c) \/ RecordFilled(c) \/ RecordRejected(c) \/ RecordFailed(c)
               \/ LastWriteFails(c)
Cancels(c)  == ReadForCancel(c) \/ AskToCancel(c) \/ RecordCancelled(c)
Retries(c)  == ReadForRetry(c) \/ MarkForRetry(c)
Notices(c)  == ReadForFill(c) \/ RecordFill(c)

Next ==
  \/ \E c \in Call : Creates(c) \/ Executes(c) \/ Cancels(c) \/ Retries(c) \/ Notices(c)
  \/ WorkerJob \/ OrderDone \/ Crash

Spec == Init /\ [][Next]_vars

\* What is wired up: the controller calls create and cancelTrade, and the
\* worker takes the jobs.  Nothing calls executeTrade or the retries.
DeployedNext ==
  \/ \E c \in Call : Creates(c) \/ Cancels(c) \/ Notices(c)
  \/ WorkerJob

DeployedSpec ==
  /\ Init /\ [][DeployedNext]_vars
  /\ WF_vars(WorkerJob) /\ \A c \in Call : WF_vars(Enqueue(c))

-----------------------------------------------------------------------------
\* The retries that as many calls as there are slots can be granted, while the
\* row allows k: each may have read one and the same count before the first
\* of them writes, and each count written may be read by all of them again.
Budget[k \in 0..MAX_RETRIES] ==
  IF k = 0 THEN 0 ELSE Cardinality(Call) * (1 + Budget[k - 1])

\* "Maximum retry attempts exceeded" (trades.service.ts:294), however calls overlap.
\* retryFailedTrade and the catch clause of executeTrade each set retryCount to
\* one more than a row read earlier, so that a late write takes back what others
\* have counted and grants their retries anew.  That comes to an end: with one
\* call at a time no more than MAX_RETRIES are granted, and with n calls at
\* a time no more than n + n^2 + ... + n^MAX_RETRIES.
RetryBudget == retries <= Budget[MAX_RETRIES]

\* A SUBMITTED trade without an order number is one that some call is still
\* placing, or whose call died or could not record its outcome: nothing else
\* leaves a trade in that state, which only cancelTrade ends.
SubmittedIsUnderWay ==
  row.status = "SUBMITTED" /\ row.brokerOrderId = None
    => unsure \/ \E c \in Call : stage[c] \in Placing

\* Calls that come one after the other, with every outcome recorded, place
\* one order at most and retry MAX_RETRIES times at most.
SerialUseIsSafe ==
  ~overlapped => /\ ~unsure => placed <= 1
                 /\ retries <= MAX_RETRIES

\* "Can only retry rejected trades" (trades.service.ts:289): nothing but the
\* creation and a rejected trade becomes PENDING.
OnlyRejectedIsRetried ==
  [][row'.status = "PENDING" => row.status \in {NoRow, "PENDING", "REJECTED"}]_vars

\* "Cannot cancel trade in current status" (trades.service.ts:211): a filled
\* trade is not cancelled.
FilledIsNotCancelled ==
  [][row.status = "FILLED" => row'.status # "CANCELLED"]_vars

\* README.md:29-30, orders are executed automatically through the queue.
QueuedTradeIsExecuted == jobs > 0 ~> row.status # "PENDING"

\* cancelTrade requests the cancellation at KIS (trades.service.ts:214) and
\* reports a failure of it; a CANCELLED trade has no open order.
CancelledIsNotLive ==
  row.status = "CANCELLED" => row.brokerOrderId \notin live

\* A trade is refused a retry when the maximum number is used up
\* (trades.service.ts:293-295).
RefusedAfterAllRetries ==
  row.status = "REJECTED" /\ row.retryCount >= MAX_RETRIES => retries >= MAX_RETRIES

-----------------------------------------------------------------------------
\* The strengthening that the proofs use: what a call under way may rely on.
CallInv(c) ==
  /\ stage[c] \in Executing => seen[c].retryCount <= MAX_RETRIES
  /\ stage[c] = "retrying" => seen[c].retryCount < MAX_RETRIES
  /\ stage[c] = "answering" => answer[c] # None
  /\ stage[c] = "noticing" => row.brokerOrderId # None

\* A PENDING trade has been counted at most MAX_RETRIES times.
CountInRange == row.status = "PENDING" => row.retryCount <= MAX_RETRIES

LifecycleInv ==
  /\ TypeOK
  /\ CountInRange
  /\ SubmittedIsUnderWay
  /\ row.status = NoRow => row.retryCount = 0
  /\ \A c \in Call : CallInv(c)

\* The calls that hold a count of at most k, and will set one more.
Holding(k) == {c \in Call : stage[c] \in Executing \cup {"retrying"} /\ seen[c].retryCount <= k}

\* What RetryBudget rests on.  Each time the row comes down to k or less every
\* call may read it, and each that did so sets it once to k + 1 or less.
BudgetInv ==
  /\ retries <= counted[MAX_RETRIES]
  /\ counted[0] = 0
  /\ \A k \in 0..(MAX_RETRIES - 1) :
       LET most == Cardinality(Call) * (1 + counted[k]) IN
       /\ counted[k + 1] + Cardinality(Holding(k)) <= most
       /\ row.retryCount <= k => counted[k + 1] + Cardinality(Call) <= most

\* The strengthening for calls that come one after the other: the row is as the
\* one call has read it, it counts every retry, and while the trade may still
\* be executed nothing has been placed.
OneCall == \A c, d \in Call : stage[c] # "idle" /\ stage[d] # "idle" => c = d

SerialCall(c) ==
  /\ stage[c] \in Executing \cup {"retrying"} => seen[c].retryCount = row.retryCount
  /\ stage[c] = "retrying" => row.status = "REJECTED"
  /\ stage[c] \in {"placing", "answering"} => row.status = "SUBMITTED"

NothingPlaced ==
  /\ placed <= 1
  /\ row.status \in {NoRow, "PENDING", "REJECTED"} => placed = 0
  /\ \A c \in Call : stage[c] \in Executing \ {"answering"} => placed = 0

SerialInv ==
  ~overlapped => /\ OneCall /\ \A c \in Call : SerialCall(c)
                 /\ retries <= row.retryCount /\ retries <= MAX_RETRIES
                 /\ ~unsure => NothingPlaced
=============================================================================
