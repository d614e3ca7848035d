---------------------------- MODULE TradeProofs ----------------------------
(***************************************************************************)
(* A trade, and the account that trades make.  First TradeLifecycle: the   *)
(* retry budget and the meaning of SUBMITTED, for any number of calls,     *)
(* retries and orders.  Then TradeLock, which creates trades: mutual       *)
(* exclusion and the absence of duplicates, for any number of requests,    *)
(* tokens that may be equal, and any times.  Then EmergencyLiquidation:    *)
(* what a successful call leaves open and unsold, for any calls and        *)
(* orders.  Last PositionBook: what an undisturbed synchronisation leaves. *)
(* The four share no state.                                                *)
(***************************************************************************)
EXTENDS TradeLifecycle, MCTradeLock, MCAccounts, FiniteSetTheorems, TLAPS

LEMMA InitLifecycleInv == Init => LifecycleInv
<1> SUFFICES ASSUME Init PROVE LifecycleInv
  OBVIOUS
<1>1. row \in Row
  BY LifecycleAssumption DEF Init, Row, OrderId, None, NoRow
<1>2. /\ jobs \in 0..MaxJobs /\ placed \in OrderId /\ live \subseteq 1..placed
      /\ retries \in Nat /\ counted \in [0..MAX_RETRIES -> Nat] /\ None \in OrderId
  BY LifecycleAssumption DEF Init, OrderId, None
<1>3. TypeOK
  BY <1>1, <1>2 DEF Init, TypeOK, Stage
<1>4. row.status = NoRow => row.retryCount = 0
  BY DEF Init
<1>5. CountInRange /\ SubmittedIsUnderWay /\ \A c \in Call : CallInv(c)
  BY LifecycleAssumption
  DEF Init, CountInRange, SubmittedIsUnderWay, CallInv, Executing, Placing, NoRow
<1> QED BY <1>3, <1>4, <1>5 DEF LifecycleInv

\* What a step that moves call c to stage s has to keep: the types, the
\* budget, and what the other calls rely on.
LEMMA CallMoves ==
  ASSUME LifecycleInv, NEW c \in Call, NEW s \in Stage, GoTo(c, s),
         TypeOK', CountInRange',
         seen' = [seen EXCEPT ![c] = seen'[c]],
         answer' = [answer EXCEPT ![c] = answer'[c]],
         row.brokerOrderId # None => row'.brokerOrderId # None,
         row' = row \/ row'.status # NoRow,
         SubmittedIsUnderWay', CallInv(c)'
  PROVE  LifecycleInv'
<1>1. ASSUME NEW d \in Call, d # c PROVE CallInv(d)'
  <2>1. /\ stage'[d] = stage[d] /\ seen'[d] = seen[d] /\ answer'[d] = answer[d]
    BY <1>1 DEF GoTo, LifecycleInv, TypeOK
  <2>2. CallInv(d)
    BY DEF LifecycleInv
  <2> QED BY <2>1, <2>2 DEF CallInv
<1> QED BY <1>1 DEF LifecycleInv

\* A row that keeps a status other than SUBMITTED, or another call still
\* placing, keeps SubmittedIsUnderWay.
LEMMA StillUnderWay ==
  ASSUME LifecycleInv, NEW c \in Call, NEW s \in Stage, GoTo(c, s),
         unsure => unsure',
         \/ row' = row
         \/ row'.status # "SUBMITTED"
         \/ row'.brokerOrderId # None,
         (row'.status = "SUBMITTED" /\ row'.brokerOrderId = None /\ stage[c] \in Placing)
           => (s \in Placing \/ unsure')
  PROVE  SubmittedIsUnderWay'
<1>1. stage' = [stage EXCEPT ![c] = s] /\ stage \in [Call -> Stage]
  BY DEF GoTo, LifecycleInv, TypeOK
<1>2. SubmittedIsUnderWay
  BY DEF LifecycleInv
<1> QED BY <1>1, <1>2 DEF SubmittedIsUnderWay

LEMMA ReadKeeps ==
  ASSUME LifecycleInv, NEW c \in Call, NEW s \in Stage, Read(c, s),
         s \notin Placing,
         row' \in Row,
         row'.brokerOrderId = row.brokerOrderId,
         row'.retryCount = row.retryCount,
         row' = row \/ (row'.status = "PENDING" /\ row.retryCount <= MAX_RETRIES),
         UNCHANGED <<jobs, broker, answer, retries, counted, unsure>>,
         s \in Executing => row.retryCount <= MAX_RETRIES,
         s = "retrying" => row.retryCount < MAX_RETRIES,
         s = "noticing" => row.brokerOrderId # None
  PROVE  LifecycleInv'
<1>1. /\ GoTo(c, s) /\ stage[c] = "idle" /\ seen' = [seen EXCEPT ![c] = row]
      /\ overlapped' \in BOOLEAN
  BY DEF Read, InStage
<1>2. row \in Row /\ (row' = row \/ row'.status # NoRow)
  BY DEF LifecycleInv, TypeOK, NoRow
<1>3. /\ stage' \in [Call -> Stage] /\ seen' \in [Call -> Row]
      /\ stage'[c] = s /\ seen'[c] = row /\ seen' = [seen EXCEPT ![c] = seen'[c]]
      /\ answer' = [answer EXCEPT ![c] = answer'[c]]
  BY <1>1, <1>2 DEF LifecycleInv, TypeOK, GoTo
<1>4. TypeOK'
  BY <1>1, <1>2, <1>3 DEF LifecycleInv, TypeOK, broker, budget
<1>5. CountInRange'
  BY <1>2 DEF LifecycleInv, CountInRange
<1>6. CallInv(c)'
  BY <1>2, <1>3 DEF CallInv, Placing, Executing
<1>7. SubmittedIsUnderWay'
  BY <1>1, <1>2, StillUnderWay DEF Placing
<1> QED BY <1>1, <1>2, <1>3, <1>4, <1>5, <1>6, <1>7, CallMoves

\* A step that moves c on with seen as it was, and may write the row.
LEMMA StepKeeps ==
  ASSUME LifecycleInv, NEW c \in Call, NEW s \in Stage, GoTo(c, s),
         seen' = seen, overlapped' = overlapped,
         answer' \in [Call -> OrderId],
         answer' = [answer EXCEPT ![c] = answer'[c]],
         jobs' \in 0..MaxJobs, placed' \in OrderId, live' \subseteq 1..placed',
         retries' \in Nat, counted' \in [0..MAX_RETRIES -> Nat],
         unsure' \in BOOLEAN, unsure => unsure',
         row' \in Row, CountInRange',
         row' = row \/ row'.status # NoRow,
         row.brokerOrderId # None => row'.brokerOrderId # None,
         \/ row' = row
         \/ row'.status # "SUBMITTED"
         \/ row'.brokerOrderId # None
         \/ s \in Placing,
         (row'.status = "SUBMITTED" /\ row'.brokerOrderId = None /\ stage[c] \in Placing)
           => (s \in Placing \/ unsure'),
         s \in Executing => stage[c] \in Executing,
         s # "retrying", s # "noticing",
         s = "answering" => answer'[c] # None
  PROVE  LifecycleInv'
<1>1. /\ stage' \in [Call -> Stage] /\ stage'[c] = s
      /\ seen' = [seen EXCEPT ![c] = seen'[c]]
  BY DEF LifecycleInv, TypeOK, GoTo
<1>2. TypeOK'
  BY <1>1 DEF LifecycleInv, TypeOK
<1>3. CallInv(c)'
  BY <1>1 DEF LifecycleInv, CallInv, Executing, Placing
<1>4. SubmittedIsUnderWay'
  <2>1. CASE s \in Placing
    BY <1>1, <2>1 DEF SubmittedIsUnderWay
  <2>2. CASE s \notin Placing
    BY <2>2, StillUnderWay
  <2> QED BY <2>1, <2>2
<1> QED BY <1>1, <1>2, <1>3, <1>4, CallMoves

LEMMA CountsTyped ==
  ASSUME counted \in [0..MAX_RETRIES -> Nat], NEW n, Counts(n)
  PROVE  counted' \in [0..MAX_RETRIES -> Nat]
  BY DEF Counts

LEMMA NextLifecycleInv == LifecycleInv /\ [Next]_vars => LifecycleInv'
<1> SUFFICES ASSUME LifecycleInv, [Next]_vars PROVE LifecycleInv'
  OBVIOUS
<1> USE DEF InStage, SetStatus
<1>0. /\ row \in Row /\ CountInRange /\ placed \in OrderId /\ live \subseteq 1..placed
      /\ jobs \in 0..MaxJobs /\ retries \in Nat /\ counted \in [0..MAX_RETRIES -> Nat] /\ unsure \in BOOLEAN
      /\ seen \in [Call -> Row]
      /\ answer \in [Call -> OrderId] /\ \A c \in Call : answer = [answer EXCEPT ![c] = answer[c]]
      /\ \A c \in Call : CallInv(c)
  BY DEF LifecycleInv, TypeOK
\* Calls that read and go on.
<1>1. ASSUME NEW c \in Call, Create(c) PROVE LifecycleInv'
  <2>1. row.retryCount = 0 /\ 0 <= MAX_RETRIES
    BY <1>1, LifecycleAssumption DEF Create, LifecycleInv
  <2>2. /\ row' \in Row /\ row'.brokerOrderId = row.brokerOrderId
        /\ row'.retryCount = row.retryCount /\ row'.status = "PENDING"
    BY <1>1 DEF Create, budget, LifecycleInv, TypeOK, Row, Status
  <2> QED BY <1>1, <2>1, <2>2, ReadKeeps DEF Create, budget, Stage, Executing, Placing
<1>2. ASSUME NEW c \in Call, ReadForExecution(c) PROVE LifecycleInv'
  <2>1. row.retryCount <= MAX_RETRIES /\ row' = row /\ row \in Row
    BY <1>2 DEF ReadForExecution, budget, LifecycleInv, CountInRange, TypeOK
  <2> QED BY <1>2, <2>1, ReadKeeps DEF ReadForExecution, budget, Stage, Executing, Placing
<1>3. ASSUME NEW c \in Call, ReadForCancel(c) PROVE LifecycleInv'
  <2>1. /\ Read(c, "cancelling") /\ row' = row
        /\ UNCHANGED <<jobs, broker, answer, retries, counted, unsure>>
        /\ row \in Row
    BY <1>3 DEF ReadForCancel, budget, LifecycleInv, TypeOK
  <2>2. /\ "cancelling" \in Stage /\ "cancelling" \notin Executing /\ "cancelling" \notin Placing
        /\ "cancelling" # "retrying"
        /\ "cancelling" # "noticing"
    BY DEF Stage, Executing, Placing
  <2> QED BY <2>1, <2>2, ReadKeeps
<1>4. ASSUME NEW c \in Call, ReadForRetry(c) PROVE LifecycleInv'
  <2>1. /\ Read(c, "retrying") /\ row' = row /\ row.retryCount < MAX_RETRIES
        /\ UNCHANGED <<jobs, broker, answer, retries, counted, unsure>>
        /\ row \in Row
    BY <1>4 DEF ReadForRetry, budget, LifecycleInv, TypeOK
  <2>2. /\ "retrying" \in Stage /\ "retrying" \notin Executing /\ "retrying" \notin Placing
        /\ "retrying" # "noticing"
    BY DEF Stage, Executing, Placing
  <2> QED BY <2>1, <2>2, ReadKeeps
<1>5. ASSUME NEW c \in Call, ReadForFill(c) PROVE LifecycleInv'
  <2>1. /\ Read(c, "noticing") /\ row' = row /\ row.brokerOrderId # None
        /\ UNCHANGED <<jobs, broker, answer, retries, counted, unsure>>
        /\ row \in Row
    BY <1>5 DEF ReadForFill, budget, LifecycleInv, TypeOK
  <2>2. /\ "noticing" \in Stage /\ "noticing" \notin Executing /\ "noticing" \notin Placing
        /\ "noticing" # "retrying"
    BY DEF Stage, Executing, Placing
  <2> QED BY <2>1, <2>2, ReadKeeps
\* Steps that leave the row alone.
<1>6. ASSUME NEW c \in Call, Enqueue(c) \/ EnqueueFails(c) PROVE LifecycleInv'
  <2>1. /\ GoTo(c, "idle") /\ stage[c] = "enqueue" /\ jobs' \in 0..MaxJobs
        /\ UNCHANGED <<row, placed, live, seen, answer, retries, counted, overlapped, unsure>>
    BY <1>6, <1>0, LifecycleAssumption DEF Enqueue, EnqueueFails, broker, history, budget
  <2>2. "idle" \in Stage /\ "idle" \notin Executing /\ "enqueue" \notin Placing
    BY DEF Stage, Executing, Placing
  <2> QED BY <1>0, <2>1, <2>2, StepKeeps DEF CountInRange
<1>7. ASSUME NEW c \in Call, BrokerAccepts(c) PROVE LifecycleInv'
  <2>1. /\ GoTo(c, "answering") /\ stage[c] = "placing" /\ placed' \in OrderId \ {None}
        /\ live' \subseteq 1..placed' /\ answer' = [answer EXCEPT ![c] = placed']
        /\ UNCHANGED <<row, jobs, seen, retries, counted, overlapped, unsure>>
    BY <1>7, <1>0, LifecycleAssumption DEF BrokerAccepts, OrderId, None, history, budget
  <2>2. answer' \in [Call -> OrderId] /\ answer'[c] = placed'
    BY <2>1, <1>0
  <2>3. "answering" \in Stage /\ "answering" \in Placing /\ "placing" \in Executing
    BY DEF Stage, Executing, Placing
  <2> QED BY <1>0, <2>1, <2>2, <2>3, StepKeeps DEF CountInRange
<1>8. ASSUME NEW c \in Call, PlacementFails(c) \/ AnswerLost(c) PROVE LifecycleInv'
  <2>1. /\ stage[c] \in Executing
        /\ GoTo(c, "refused") \/ GoTo(c, "threw")
        /\ UNCHANGED <<row, jobs, placed, live, seen, answer, retries, counted, overlapped>>
        /\ unsure' \in BOOLEAN
        /\ unsure => unsure'
    BY <1>8, <1>0 DEF PlacementFails, AnswerLost, broker, history, budget, Executing, Placing
  <2>2. ASSUME NEW s \in {"refused", "threw"}, GoTo(c, s) PROVE LifecycleInv'
    <3>1. s \in Stage /\ s \in Placing /\ s \notin {"retrying", "noticing", "answering"}
      BY DEF Stage, Executing, Placing
    <3> QED BY <1>0, <2>1, <2>2, <3>1, StepKeeps DEF CountInRange
  <2> QED BY <2>1, <2>2
<1>9. ASSUME NEW c \in Call, LastWriteFails(c) PROVE LifecycleInv'
  <2>1. GoTo(c, "idle") /\ unsure' = TRUE
        /\ UNCHANGED <<row, jobs, placed, live, seen, answer, retries, counted, overlapped>>
    BY <1>9 DEF LastWriteFails, broker, budget
  <2>2. "idle" \in Stage /\ "idle" \notin Executing
    BY DEF Stage, Executing, Placing
  <2> QED BY <1>0, <2>1, <2>2, StepKeeps DEF CountInRange
<1>10. ASSUME NEW c \in Call, AskToCancel(c) PROVE LifecycleInv'
  <2>1. /\ GoTo(c, "cancelled") \/ GoTo(c, "idle")
        /\ stage[c] = "cancelling" /\ live' \subseteq 1..placed
        /\ UNCHANGED <<row, jobs, placed, seen, answer, retries, counted, overlapped, unsure>>
    BY <1>10, <1>0 DEF AskToCancel, history, budget
  <2>2. ASSUME NEW s \in {"cancelled", "idle"}, GoTo(c, s) PROVE LifecycleInv'
    <3>1. /\ s \in Stage \ Executing /\ "cancelling" \notin Placing
          /\ s \notin {"retrying", "noticing", "answering"}
      BY DEF Stage, Executing, Placing
    <3> QED BY <1>0, <2>1, <2>2, <3>1, StepKeeps DEF CountInRange
  <2> QED BY <2>1, <2>2
\* Steps that write the row.
<1>11. ASSUME NEW c \in Call, Submit(c) PROVE LifecycleInv'
  <2>1. /\ stage[c] = "submitting"
        /\ UNCHANGED <<jobs, placed, live, seen, answer, retries, counted, overlapped, unsure>>
    BY <1>11 DEF Submit, broker, history, budget
  <2>2. {"placing", "threw"} \subseteq Stage \cap Placing /\ "submitting" \in Executing
    BY DEF Stage, Executing, Placing
  <2>3. CASE row' = [row EXCEPT !.status = "SUBMITTED"] /\ GoTo(c, "placing")
    <3>1. /\ row' \in Row /\ row'.status = "SUBMITTED" /\ row'.retryCount = row.retryCount
          /\ row'.brokerOrderId = row.brokerOrderId
      BY <1>0, <2>3 DEF Row, Status
    <3>2. CountInRange' /\ row'.status # NoRow
      BY <1>0, <3>1 DEF CountInRange, NoRow
    <3> QED BY <1>0, <2>1, <2>2, <2>3, <3>1, <3>2, StepKeeps
  <2>4. CASE row' = row /\ GoTo(c, "threw")
    BY <1>0, <2>1, <2>2, <2>4, StepKeeps DEF CountInRange
  <2> QED BY <1>11, <2>3, <2>4 DEF Submit
<1>12. ASSUME NEW c \in Call, RecordFilled(c) PROVE LifecycleInv'
  <2>1. /\ stage[c] = "answering" /\ GoTo(c, "idle")
        /\ row' = [row EXCEPT !.status = "FILLED", !.brokerOrderId = answer[c]]
        /\ UNCHANGED <<jobs, placed, live, seen, answer, retries, counted, overlapped, unsure>>
    BY <1>12 DEF RecordFilled, broker, history, budget
  <2>2. answer[c] \in OrderId /\ answer[c] # None
    BY <1>0, <2>1 DEF CallInv
  <2>3. /\ row' \in Row /\ row'.status = "FILLED" /\ row'.brokerOrderId # None
        /\ row'.retryCount = row.retryCount
    BY <1>0, <2>1, <2>2 DEF Row, Status
  <2>4. CountInRange' /\ row'.status # NoRow
    BY <1>0, <2>3 DEF CountInRange, NoRow
  <2>5. "idle" \in Stage /\ "idle" \notin Executing /\ "idle" \notin Placing
    BY DEF Stage, Executing, Placing
  <2> QED BY <1>0, <2>1, <2>3, <2>4, <2>5, StepKeeps
<1>13. ASSUME NEW c \in Call, RecordRejected(c) \/ RecordCancelled(c) PROVE LifecycleInv'
  <2>1. /\ GoTo(c, "idle") /\ stage[c] \in {"refused", "cancelled", "cancelling"}
        /\ UNCHANGED <<jobs, placed, live, seen, answer, retries, counted, overlapped, unsure>>
    BY <1>13 DEF RecordRejected, RecordCancelled, broker, history, budget
  <2>2. "idle" \in Stage \ Executing /\ "cancelled" \notin Placing /\ "cancelling" \notin Placing
    BY DEF Stage, Executing, Placing
  <2>3. CASE row' = row /\ stage[c] # "refused"
    BY <1>0, <2>1, <2>2, <2>3, StepKeeps DEF CountInRange
  <2>4. ASSUME NEW st \in {"REJECTED", "CANCELLED"}, row' = [row EXCEPT !.status = st]
        PROVE  LifecycleInv'
    <3>1. /\ row' \in Row /\ row'.status = st /\ row'.retryCount = row.retryCount
          /\ row'.brokerOrderId = row.brokerOrderId
      BY <1>0, <2>4 DEF Row, Status
    <3>2. CountInRange' /\ row'.status # NoRow /\ row'.status # "SUBMITTED"
      BY <1>0, <2>4, <3>1 DEF CountInRange, NoRow
    <3> QED BY <1>0, <2>1, <2>2, <3>1, <3>2, StepKeeps
  <2> QED BY <1>13, <2>3, <2>4 DEF RecordRejected, RecordCancelled
<1>14. ASSUME NEW c \in Call, RecordFailed(c) PROVE LifecycleInv'
  <2>1. /\ stage[c] = "threw" /\ GoTo(c, "idle")
        /\ row' = [row EXCEPT !.status = "REJECTED", !.retryCount = seen[c].retryCount + 1]
        /\ counted' \in [0..MAX_RETRIES -> Nat]
        /\ UNCHANGED <<jobs, placed, live, seen, answer, retries, overlapped, unsure>>
    BY <1>0, <1>14, CountsTyped DEF RecordFailed, broker
  <2>2. seen[c].retryCount + 1 \in 0..(MAX_RETRIES + 1)
    <3>1. seen[c].retryCount <= MAX_RETRIES
      BY <1>0, <2>1 DEF CallInv, Executing, Placing
    <3>2. seen[c].retryCount \in 0..(MAX_RETRIES + 1)
      BY <1>0 DEF Row
    <3> QED BY <3>1, <3>2, LifecycleAssumption
  <2>3. /\ row' \in Row /\ row'.status = "REJECTED" /\ row'.brokerOrderId = row.brokerOrderId
        /\ row'.retryCount = seen[c].retryCount + 1
    BY <1>0, <2>1, <2>2 DEF Row, Status
  <2>4. CountInRange' /\ row'.status # NoRow
    BY <2>2, <2>3, LifecycleAssumption DEF CountInRange, NoRow
  <2>5. "idle" \in Stage \ Executing
    BY DEF Stage, Executing, Placing
  <2> QED BY <1>0, <2>1, <2>3, <2>4, <2>5, StepKeeps
<1>15. ASSUME NEW c \in Call, MarkForRetry(c) PROVE LifecycleInv'
  <2>1. /\ stage[c] = "retrying" /\ GoTo(c, "enqueue")
        /\ row' = [row EXCEPT !.status = "PENDING", !.retryCount = seen[c].retryCount + 1]
        /\ retries' \in Nat /\ counted' \in [0..MAX_RETRIES -> Nat]
        /\ UNCHANGED <<jobs, placed, live, seen, answer, overlapped, unsure>>
    BY <1>0, <1>15, CountsTyped DEF MarkForRetry, broker
  <2>2. seen[c].retryCount + 1 \in 0..MAX_RETRIES
    <3>1. seen[c].retryCount < MAX_RETRIES
      BY <1>0, <2>1 DEF CallInv
    <3>2. seen[c].retryCount \in 0..(MAX_RETRIES + 1)
      BY <1>0 DEF Row
    <3> QED BY <3>1, <3>2, LifecycleAssumption
  <2>. DEFINE n == seen[c].retryCount + 1
  <2>3. /\ row' \in Row /\ row'.status = "PENDING" /\ row'.brokerOrderId = row.brokerOrderId
        /\ row'.retryCount = n
    <3>1. n \in 0..(MAX_RETRIES + 1)
      BY <2>2, LifecycleAssumption
    <3> QED BY <1>0, <2>1, <3>1 DEF Row, Status
  <2>4. CountInRange' /\ row'.status # NoRow
    BY <2>2, <2>3, LifecycleAssumption DEF CountInRange, NoRow
  <2>5. "enqueue" \in Stage \ Executing
    BY DEF Stage, Executing, Placing
  <2> QED BY <1>0, <2>1, <2>3, <2>4, <2>5, StepKeeps
<1>16. ASSUME NEW c \in Call, RecordFill(c) PROVE LifecycleInv'
  <2>1. /\ stage[c] = "noticing" /\ GoTo(c, "idle") /\ row.brokerOrderId # None
        /\ UNCHANGED <<jobs, placed, live, seen, answer, retries, counted, overlapped, unsure>>
    BY <1>0, <1>16 DEF RecordFill, CallInv, broker, history, budget
  <2>2. PICK st \in {"SUBMITTED", "PARTIALLY_FILLED", "FILLED"} : row' = [row EXCEPT !.status = st]
    BY <1>16 DEF RecordFill
  <2>3. /\ row' \in Row /\ row'.status = st /\ row'.retryCount = row.retryCount
        /\ row'.brokerOrderId = row.brokerOrderId
    BY <1>0, <2>2 DEF Row, Status
  <2>4. CountInRange' /\ row'.status # NoRow
    BY <1>0, <2>2, <2>3 DEF CountInRange, NoRow
  <2>5. "idle" \in Stage \ Executing
    BY DEF Stage, Executing, Placing
  <2> QED BY <1>0, <2>1, <2>3, <2>4, <2>5, StepKeeps
\* Steps of no call.
<1>17. ASSUME WorkerJob \/ OrderDone PROVE LifecycleInv'
  <2>1. /\ UNCHANGED <<row, placed, stage, seen, answer, retries, counted, overlapped, unsure>>
        /\ jobs' \in 0..MaxJobs /\ live' \subseteq 1..placed
    <3>1. CASE WorkerJob
      BY <1>0, <3>1, LifecycleAssumption DEF WorkerJob, broker, calls, history, budget
    <3>2. CASE OrderDone
      BY <1>0, <3>2 DEF OrderDone, calls, history, budget
    <3> QED BY <1>17, <3>1, <3>2
  <2> QED BY <2>1 DEF LifecycleInv, TypeOK, CountInRange, SubmittedIsUnderWay, CallInv
<1>18. ASSUME Crash PROVE LifecycleInv'
  <2>1. /\ UNCHANGED <<row, jobs, placed, live, seen, answer, retries, counted, overlapped>>
        /\ stage' = [c \in Call |-> "idle"] /\ unsure' \in BOOLEAN
        /\ unsure \/ (\E c \in Call : stage[c] \in Executing) => unsure'
    BY <1>0, <1>18 DEF Crash, broker, budget
  <2>2. "idle" \in Stage \ Executing /\ Placing \subseteq Executing
    BY DEF Stage, Executing, Placing
  <2>3. TypeOK' /\ CountInRange'
    BY <2>1, <2>2 DEF LifecycleInv, TypeOK, CountInRange
  <2>4. SubmittedIsUnderWay'
    BY <2>1, <2>2 DEF LifecycleInv, SubmittedIsUnderWay
  <2>5. \A c \in Call : CallInv(c)'
    BY <2>1, <2>2 DEF CallInv
  <2> QED BY <2>1, <2>3, <2>4, <2>5 DEF LifecycleInv
<1>19. CASE UNCHANGED vars
  BY <1>19 DEF vars, broker, calls, history, budget, LifecycleInv, TypeOK, CountInRange,
               SubmittedIsUnderWay, CallInv
<1> QED
  BY <1>1, <1>2, <1>3, <1>4, <1>5, <1>6, <1>7, <1>8, <1>9, <1>10, <1>11, <1>12, <1>13,
     <1>14, <1>15, <1>16, <1>17, <1>18, <1>19
  DEF Next, Creates, Executes, Cancels, Retries, Notices

THEOREM LifecycleInvariant == Spec => []LifecycleInv
  BY InitLifecycleInv, NextLifecycleInv, PTL DEF Spec

\* A trade SUBMITTED without an order number is under way, or its call ended
\* without recording the outcome.
THEOREM SubmittedMeansUnderWay == Spec => []SubmittedIsUnderWay
  BY LifecycleInvariant, PTL DEF LifecycleInv

-----------------------------------------------------------------------------
\* How many retries there can be.  Induction, for a set that holds zero and
\* with a number the next.
LEMMA Induction ==
  ASSUME NEW G, 0 \in G, \A n \in Nat : n \in G => n + 1 \in G
  PROVE  \A n \in Nat : n \in G
<1> DEFINE Less == {p \in Nat \X Nat : p[1] < p[2]}
           Out  == {n \in Nat : n \notin G}
<1> SUFFICES ASSUME Out # {} PROVE FALSE
  OBVIOUS
<1>1. IsWellFoundedOn(Less, Nat)
  BY NatLessThanWellFounded, Zenon DEF OpToRel
<1>2. PICK x \in Out : \A y \in Out : ~ (<<y, x>> \in Less)
  <2>1. Out \subseteq Nat
    OBVIOUS
  <2> HIDE DEF Less, Out
  <2> QED BY <1>1, <2>1, WFMin
<1>3. \A y \in Out : ~(y < x)
  BY <1>2
<1>4. x \in Nat /\ x # 0 /\ x - 1 \in Nat /\ (x - 1) + 1 = x /\ x - 1 < x
  OBVIOUS
<1>5. x - 1 \in G
  BY <1>3, <1>4
<1> QED BY <1>4, <1>5

\* What the numbers up to m are given by the recursion of Budget.
Budgets(m, f) == f = [k \in 0..m |-> IF k = 0 THEN 0 ELSE Cardinality(Call) * (1 + f[k - 1])]

LEMMA BudgetsExist == \A m \in Nat : \E f : Budgets(m, f)
<1> DEFINE G == {m \in Nat : \E f : Budgets(m, f)}
<1>1. 0 \in G
  <2> DEFINE f == [k \in 0..0 |-> 0]
  <2>1. f = [k \in 0..0 |-> IF k = 0 THEN 0 ELSE Cardinality(Call) * (1 + f[k - 1])]
    OBVIOUS
  <2> QED BY <2>1 DEF Budgets
<1>2. ASSUME NEW m \in Nat, m \in G PROVE m + 1 \in G
  <2>1. PICK f : Budgets(m, f)
    BY <1>2
  <2>2. PICK g : g = [k \in 0..(m + 1) |-> IF k = m + 1 THEN Cardinality(Call) * (1 + f[m]) ELSE f[k]]
    OBVIOUS
  <2>3. ASSUME NEW k \in 0..(m + 1)
        PROVE  g[k] = IF k = 0 THEN 0 ELSE Cardinality(Call) * (1 + g[k - 1])
    <3>1. CASE k = m + 1
      <4>1. k # 0 /\ k - 1 = m /\ m \in 0..(m + 1) /\ m # m + 1
        BY <3>1
      <4>2. g[k] = Cardinality(Call) * (1 + f[m]) /\ g[m] = f[m]
        BY <2>2, <3>1, <4>1
      <4> QED BY <4>1, <4>2
    <3>2. CASE k # m + 1
      <4>1. k \in 0..m /\ g[k] = f[k]
        BY <2>2, <3>2
      <4>2. f[k] = IF k = 0 THEN 0 ELSE Cardinality(Call) * (1 + f[k - 1])
        BY <2>1, <4>1 DEF Budgets
      <4>3. k # 0 => g[k - 1] = f[k - 1]
        <5> SUFFICES ASSUME k # 0 PROVE g[k - 1] = f[k - 1]
          OBVIOUS
        <5>1. k - 1 \in 0..(m + 1) /\ k - 1 # m + 1
          BY <4>1
        <5> QED BY <2>2, <5>1
      <4> QED BY <4>1, <4>2, <4>3
    <3> QED BY <3>1, <3>2
  <2>4. Budgets(m + 1, g)
    BY <2>2, <2>3 DEF Budgets
  <2> QED BY <2>4
<1> HIDE DEF G
<1>3. \A m \in Nat : m \in G
  BY <1>1, <1>2, Induction
<1> QED BY <1>3 DEF G

LEMMA BudgetIs ==
  \A k \in 0..MAX_RETRIES :
    Budget[k] = IF k = 0 THEN 0 ELSE Cardinality(Call) * (1 + Budget[k - 1])
<1>1. \E f : Budgets(MAX_RETRIES, f)
  BY BudgetsExist, LifecycleAssumption
<1>2. Budgets(MAX_RETRIES, Budget)
  BY <1>1 DEF Budget, Budgets
<1> QED BY <1>2 DEF Budgets

\* A number of calls is at most that of all calls.
LEMMA CallsAreFew ==
  ASSUME NEW S \in SUBSET Call
  PROVE  /\ IsFiniteSet(S) /\ Cardinality(S) \in Nat
         /\ Cardinality(Call) \in Nat /\ Cardinality(S) <= Cardinality(Call)
<1>1. IsFiniteSet(Call) /\ IsFiniteSet(S) /\ Cardinality(S) <= Cardinality(Call)
  BY LifecycleAssumption, FS_Subset
<1> QED BY <1>1, FS_CardinalityType

LEMMA FewerCalls ==
  ASSUME NEW S \in SUBSET Call, NEW T \in SUBSET S
  PROVE  Cardinality(T) <= Cardinality(S)
<1>1. IsFiniteSet(S)
  BY CallsAreFew
<1> QED BY <1>1, FS_Subset

\* The products that BudgetInv is about.
LEMMA Times ==
  ASSUME NEW n \in Nat, NEW a \in Nat, NEW b \in Nat
  PROVE  /\ n * (1 + a) \in Nat
         /\ n * (1 + (a + 1)) = n * (1 + a) + n
         /\ a <= b => n * (1 + a) <= n * (1 + b)
<1>1. n * (1 + a) \in Nat /\ n * (1 + (a + 1)) = n * (1 + a) + n
  OBVIOUS
<1>2. ASSUME a <= b PROVE n * (1 + a) <= n * (1 + b)
  <2>1. PICK d \in Nat : b = a + d
    <3>1. b - a \in Nat /\ b = a + (b - a)
      BY <1>2
    <3> QED BY <3>1
  <2>2. n * (1 + b) = n * (1 + a) + n * d /\ n * d \in Nat
    BY <2>1
  <2> QED BY <1>1, <2>2
<1> QED BY <1>1, <1>2

\* The part of BudgetInv about one number.
Within(k) ==
  LET most == Cardinality(Call) * (1 + counted[k]) IN
  /\ counted[k + 1] + Cardinality(Holding(k)) <= most
  /\ row.retryCount <= k => counted[k + 1] + Cardinality(Call) <= most

LEMMA BudgetParts ==
  BudgetInv <=> /\ retries <= counted[MAX_RETRIES] /\ counted[0] = 0
                /\ \A k \in 0..(MAX_RETRIES - 1) : Within(k)
  BY DEF BudgetInv, Within

LEMMA InitBudgetInv == Init => BudgetInv
<1> SUFFICES ASSUME Init PROVE BudgetInv
  OBVIOUS
<1>1. retries <= counted[MAX_RETRIES] /\ counted[0] = 0
  BY LifecycleAssumption DEF Init
<1>2. ASSUME NEW k \in 0..(MAX_RETRIES - 1) PROVE Within(k)
  <2>1. Holding(k) = {}
    BY DEF Init, Holding, Executing, Placing
  <2>2. Cardinality({}) = 0 /\ Cardinality(Call) \in Nat
    BY FS_EmptySet, CallsAreFew
  <2>3. counted[k] = 0 /\ counted[k + 1] = 0
    BY LifecycleAssumption DEF Init
  <2>4. Cardinality(Call) * (1 + 0) = Cardinality(Call)
    BY <2>2
  <2> QED BY <2>1, <2>2, <2>3, <2>4 DEF Within
<1> QED BY <1>1, <1>2, BudgetParts

LEMMA CountedTyped ==
  ASSUME LifecycleInv
  PROVE  /\ retries \in Nat /\ counted \in [0..MAX_RETRIES -> Nat] /\ row.retryCount \in Nat
         /\ \A k \in 0..(MAX_RETRIES - 1) :
              /\ k \in Nat /\ counted[k] \in Nat /\ counted[k + 1] \in Nat
              /\ Holding(k) \in SUBSET Call
              /\ Cardinality(Holding(k)) \in 0..Cardinality(Call) /\ Cardinality(Call) \in Nat
              /\ Cardinality(Call) * (1 + counted[k]) \in Nat
<1>1. retries \in Nat /\ counted \in [0..MAX_RETRIES -> Nat] /\ row.retryCount \in Nat
  BY LifecycleAssumption DEF LifecycleInv, TypeOK, Row
<1>2. ASSUME NEW k \in 0..(MAX_RETRIES - 1)
      PROVE  /\ k \in Nat /\ counted[k] \in Nat /\ counted[k + 1] \in Nat
             /\ Holding(k) \in SUBSET Call
             /\ Cardinality(Holding(k)) \in 0..Cardinality(Call) /\ Cardinality(Call) \in Nat
             /\ Cardinality(Call) * (1 + counted[k]) \in Nat
  <2>1. k \in Nat /\ counted[k] \in Nat /\ counted[k + 1] \in Nat
    BY <1>1, LifecycleAssumption
  <2>2. Holding(k) \in SUBSET Call
    BY DEF Holding
  <2>3. Cardinality(Holding(k)) \in 0..Cardinality(Call) /\ Cardinality(Call) \in Nat
    BY <2>2, CallsAreFew
  <2>4. Cardinality(Call) * (1 + counted[k]) \in Nat
    BY <2>1, <2>3, Times
  <2> QED BY <2>1, <2>2, <2>3, <2>4
<1> QED BY <1>1, <1>2

\* A step that counts nothing and takes up no count.
LEMMA CountsNothing ==
  ASSUME LifecycleInv, BudgetInv, UNCHANGED budget, row'.retryCount = row.retryCount,
         \A k \in 0..(MAX_RETRIES - 1) : Holding(k)' \subseteq Holding(k)
  PROVE  BudgetInv'
<1>1. retries' = retries /\ counted' = counted
  BY DEF budget
<1>2. ASSUME NEW k \in 0..(MAX_RETRIES - 1) PROVE Within(k)'
  <2>1. Within(k)
    BY BudgetParts
  <2>2. Cardinality(Holding(k)') <= Cardinality(Holding(k)) /\ Cardinality(Holding(k)') \in Nat
    <3>1. Holding(k) \in SUBSET Call /\ Holding(k)' \in SUBSET Holding(k) /\ Holding(k)' \in SUBSET Call
      BY DEF Holding
    <3> QED BY <3>1, FewerCalls, CallsAreFew
  <2> QED BY <1>1, <2>1, <2>2, CountedTyped DEF Within
<1> QED BY <1>1, <1>2 DEF BudgetInv, Within

\* A call reads a count.
LEMMA TakesUp ==
  ASSUME LifecycleInv, BudgetInv, UNCHANGED budget, NEW c \in Call, NEW s \in Stage, Read(c, s),
         row'.retryCount = row.retryCount
  PROVE  BudgetInv'
<1>1. /\ retries' = retries /\ counted' = counted
      /\ stage' = [stage EXCEPT ![c] = s] /\ seen' = [seen EXCEPT ![c] = row]
      /\ stage \in [Call -> Stage] /\ seen \in [Call -> Row]
  BY DEF budget, Read, GoTo, LifecycleInv, TypeOK
<1>2. ASSUME NEW k \in 0..(MAX_RETRIES - 1) PROVE Within(k)'
  <2>1. Within(k)
    BY BudgetParts
  <2>2. Holding(k)' \in SUBSET Call /\ Holding(k) \in SUBSET Call
    BY DEF Holding
  <2>3. CASE row.retryCount <= k
    <3>1. Cardinality(Holding(k)') \in Nat /\ Cardinality(Holding(k)') <= Cardinality(Call)
      BY <2>2, CallsAreFew
    <3> QED BY <1>1, <2>1, <2>3, <3>1, CountedTyped DEF Within
  <2>4. CASE ~(row.retryCount <= k)
    <3>1. Holding(k)' \in SUBSET Holding(k)
      BY <1>1, <2>4 DEF Holding
    <3>2. Cardinality(Holding(k)') \in Nat /\ Cardinality(Holding(k)') <= Cardinality(Holding(k))
      BY <2>2, <3>1, FewerCalls, CallsAreFew
    <3> QED BY <1>1, <2>1, <2>4, <3>2, CountedTyped DEF Within
  <2> QED BY <2>3, <2>4
<1> QED BY <1>1, <1>2 DEF BudgetInv, Within

\* A call sets the count one above what it has read.
LEMMA CountsOne ==
  ASSUME LifecycleInv, BudgetInv, NEW c \in Call, NEW s \in Stage, GoTo(c, s),
         s \notin Executing, s # "retrying", stage[c] \in Executing \cup {"retrying"},
         seen' = seen, row'.retryCount = seen[c].retryCount + 1,
         Counts(seen[c].retryCount + 1),
         \/ retries' = retries
         \/ retries' = retries + 1 /\ seen[c].retryCount < MAX_RETRIES
  PROVE  BudgetInv'
<1> DEFINE n == seen[c].retryCount + 1
<1>1. /\ stage' = [stage EXCEPT ![c] = s] /\ stage \in [Call -> Stage] /\ seen \in [Call -> Row]
      /\ seen[c].retryCount \in Nat /\ n \in Nat /\ n > 0
  BY LifecycleAssumption DEF GoTo, LifecycleInv, TypeOK, Row
<1>2. /\ \A k \in 0..MAX_RETRIES : counted'[k] = counted[k] + IF n <= k THEN 1 ELSE 0
      /\ 0 \in 0..MAX_RETRIES /\ MAX_RETRIES \in 0..MAX_RETRIES /\ MAX_RETRIES \in Nat
  BY LifecycleAssumption DEF Counts
<1> HIDE DEF n
<1>3. counted'[0] = 0
  BY <1>1, <1>2, BudgetParts
<1>4. retries' <= counted'[MAX_RETRIES]
  <2>1. retries <= counted[MAX_RETRIES] /\ counted[MAX_RETRIES] \in Nat /\ retries \in Nat
    BY <1>2, BudgetParts, CountedTyped
  <2>2. seen[c].retryCount < MAX_RETRIES => n <= MAX_RETRIES
    BY <1>1, <1>2 DEF n
  <2> QED BY <1>2, <2>1, <2>2
<1>5. ASSUME NEW k \in 0..(MAX_RETRIES - 1) PROVE Within(k)'
  <2> DEFINE most == Cardinality(Call) * (1 + counted[k])
             holders == Cardinality(Holding(k))
  <2>1. counted[k + 1] + holders <= most /\ (row.retryCount <= k => counted[k + 1] + Cardinality(Call) <= most)
    BY BudgetParts DEF Within
  <2>2. /\ k \in Nat /\ counted[k] \in Nat /\ counted[k + 1] \in Nat /\ most \in Nat
        /\ holders \in Nat /\ holders <= Cardinality(Call) /\ Cardinality(Call) \in Nat
        /\ k \in 0..MAX_RETRIES /\ k + 1 \in 0..MAX_RETRIES
    BY CountedTyped, LifecycleAssumption
  <2>3. /\ counted'[k] = counted[k] + IF n <= k THEN 1 ELSE 0
        /\ counted'[k + 1] = counted[k + 1] + IF n <= k + 1 THEN 1 ELSE 0
    BY <1>2, <2>2
  <2>4. Holding(k)' = Holding(k) \ {c} /\ (c \in Holding(k) <=> n <= k + 1)
    BY <1>1, <2>2 DEF Holding, n
  <2>5. Cardinality(Holding(k)') = IF n <= k + 1 THEN holders - 1 ELSE holders
    <3>1. IsFiniteSet(Holding(k))
      BY CountedTyped, CallsAreFew
    <3> QED BY <2>4, <3>1, FS_RemoveElement
  <2>6. Cardinality(Call) * (1 + (counted[k] + 1)) = most + Cardinality(Call)
    BY <2>2, Times
  <2>7. n <= k + 1 => holders >= 1
    <3>1. Cardinality(Holding(k)') \in Nat
      BY CallsAreFew DEF Holding
    <3> QED BY <2>2, <2>5, <3>1
  <2> HIDE DEF most, holders
  <2>8. row'.retryCount = n
    BY DEF n
  <2>9. CASE n <= k
    <3>1. /\ counted'[k + 1] = counted[k + 1] + 1
          /\ Cardinality(Call) * (1 + counted'[k]) = most + Cardinality(Call)
          /\ Cardinality(Holding(k)') = holders - 1 /\ holders >= 1
      BY <1>1, <2>2, <2>3, <2>5, <2>6, <2>7, <2>9
    <3> QED BY <2>1, <2>2, <3>1 DEF Within
  <2>10. CASE n = k + 1
    <3>1. /\ counted'[k + 1] = counted[k + 1] + 1 /\ counted'[k] = counted[k]
          /\ Cardinality(Holding(k)') = holders - 1 /\ holders >= 1 /\ ~(row'.retryCount <= k)
      BY <1>1, <2>2, <2>3, <2>5, <2>7, <2>8, <2>10
    <3> QED BY <2>1, <2>2, <3>1 DEF Within, most
  <2>11. CASE n > k + 1
    <3>1. /\ counted'[k + 1] = counted[k + 1] /\ counted'[k] = counted[k]
          /\ Cardinality(Holding(k)') = holders /\ ~(row'.retryCount <= k)
      BY <1>1, <2>2, <2>3, <2>5, <2>8, <2>11
    <3> QED BY <2>1, <2>2, <3>1 DEF Within, most
  <2> QED BY <1>1, <2>2, <2>9, <2>10, <2>11
<1> QED BY <1>3, <1>4, <1>5 DEF BudgetInv, Within

LEMMA NextBudgetInv == LifecycleInv /\ BudgetInv /\ [Next]_vars => BudgetInv'
<1> SUFFICES ASSUME LifecycleInv, BudgetInv, [Next]_vars PROVE BudgetInv'
  OBVIOUS
<1> USE DEF InStage, SetStatus
<1>0. /\ row \in Row /\ seen \in [Call -> Row] /\ stage \in [Call -> Stage]
      /\ \A c \in Call : CallInv(c)
  BY DEF LifecycleInv, TypeOK
<1>1. ASSUME NEW c \in Call,
             \/ Create(c) \/ ReadForExecution(c) \/ ReadForCancel(c) \/ ReadForRetry(c) \/ ReadForFill(c)
      PROVE  BudgetInv'
  <2>1. PICK s \in {"enqueue", "submitting", "cancelling", "retrying", "noticing"} : Read(c, s)
    BY <1>1 DEF Create, ReadForExecution, ReadForCancel, ReadForRetry, ReadForFill
  <2>2. UNCHANGED budget /\ row'.retryCount = row.retryCount
    BY <1>0, <1>1 DEF Create, ReadForExecution, ReadForCancel, ReadForRetry, ReadForFill, Row
  <2>3. s \in Stage
    BY DEF Stage, Executing, Placing
  <2> QED BY <2>1, <2>2, <2>3, TakesUp
<1>2. ASSUME NEW c \in Call, NEW s \in Stage, GoTo(c, s), UNCHANGED <<seen, budget>>,
             row'.retryCount = row.retryCount,
             s \in Executing \cup {"retrying"} => stage[c] \in Executing \cup {"retrying"}
      PROVE  BudgetInv'
  <2>1. \A k \in 0..(MAX_RETRIES - 1) : Holding(k)' \subseteq Holding(k)
    BY <1>0, <1>2 DEF Holding, GoTo
  <2> QED BY <1>2, <2>1, CountsNothing
<1>3. ASSUME NEW c \in Call,
             \/ Enqueue(c) \/ EnqueueFails(c) \/ RecordFilled(c) \/ RecordRejected(c)
             \/ LastWriteFails(c) \/ AskToCancel(c) \/ RecordCancelled(c) \/ RecordFill(c)
      PROVE  BudgetInv'
  <2>1. PICK s \in {"idle", "cancelled"} : GoTo(c, s)
    BY <1>3 DEF Enqueue, EnqueueFails, RecordFilled, RecordRejected, LastWriteFails, AskToCancel,
                RecordCancelled, RecordFill
  <2>2. UNCHANGED <<seen, budget>> /\ row'.retryCount = row.retryCount
    BY <1>0, <1>3 DEF Enqueue, EnqueueFails, RecordFilled, RecordRejected, LastWriteFails, AskToCancel,
                RecordCancelled, RecordFill, history, Row
  <2>3. s \in Stage /\ s \notin Executing \cup {"retrying"}
    BY DEF Stage, Executing, Placing
  <2> QED BY <1>2, <2>1, <2>2, <2>3
<1>4. ASSUME NEW c \in Call, Submit(c) \/ BrokerAccepts(c) \/ PlacementFails(c) \/ AnswerLost(c)
      PROVE  BudgetInv'
  <2>1. PICK s \in Placing : GoTo(c, s)
    BY <1>4 DEF Submit, BrokerAccepts, PlacementFails, AnswerLost, Placing
  <2>2. /\ UNCHANGED <<seen, budget>> /\ row'.retryCount = row.retryCount
        /\ stage[c] \in {"submitting", "placing", "answering"}
    BY <1>0, <1>4 DEF Submit, BrokerAccepts, PlacementFails, AnswerLost, history, Row
  <2>3. s \in Stage /\ {"submitting", "placing", "answering"} \subseteq Executing
    BY DEF Stage, Executing, Placing
  <2> QED BY <1>2, <2>1, <2>2, <2>3
<1>5. ASSUME NEW c \in Call, RecordFailed(c) PROVE BudgetInv'
  <2>1. /\ stage[c] = "threw" /\ GoTo(c, "idle") /\ seen' = seen /\ retries' = retries
        /\ row'.retryCount = seen[c].retryCount + 1 /\ Counts(seen[c].retryCount + 1)
    BY <1>0, <1>5 DEF RecordFailed, Row
  <2>2. "threw" \in Executing /\ "idle" \in Stage /\ "idle" \notin Executing
    BY DEF Stage, Executing, Placing
  <2> QED BY <2>1, <2>2, CountsOne
<1>6. ASSUME NEW c \in Call, MarkForRetry(c) PROVE BudgetInv'
  <2>1. /\ stage[c] = "retrying" /\ GoTo(c, "enqueue") /\ seen' = seen /\ retries' = retries + 1
        /\ row'.retryCount = seen[c].retryCount + 1 /\ Counts(seen[c].retryCount + 1)
    BY <1>0, <1>6 DEF MarkForRetry, Row
  <2>2. seen[c].retryCount < MAX_RETRIES
    BY <1>0, <2>1 DEF CallInv
  <2>3. "enqueue" \in Stage /\ "enqueue" \notin Executing
    BY DEF Stage, Executing, Placing
  <2> QED BY <2>1, <2>2, <2>3, CountsOne
<1>7. CASE WorkerJob \/ OrderDone \/ UNCHANGED vars
  <2>1. UNCHANGED <<row, stage, seen, budget>>
    BY <1>7 DEF WorkerJob, OrderDone, vars, calls, history
  <2> QED BY <2>1, CountsNothing DEF Holding
<1>8. CASE Crash
  <2>1. UNCHANGED <<row, budget>> /\ \A k : Holding(k)' = {}
    BY <1>8 DEF Crash, Holding, Executing, Placing
  <2> QED BY <2>1, CountsNothing
<1> QED BY <1>1, <1>3, <1>4, <1>5, <1>6, <1>7, <1>8
  DEF Next, Creates, Executes, Cancels, Retries, Notices

\* What is counted up to k stays within Budget[k].
LEMMA CountedWithin ==
  ASSUME LifecycleInv, BudgetInv
  PROVE  \A k \in 0..MAX_RETRIES : Budget[k] \in Nat /\ counted[k] <= Budget[k]
<1> DEFINE G == {k \in Nat : k <= MAX_RETRIES => Budget[k] \in Nat /\ counted[k] <= Budget[k]}
<1>1. 0 \in G
  <2>1. Budget[0] = 0 /\ counted[0] = 0
    BY BudgetIs, BudgetParts, LifecycleAssumption
  <2> QED BY <2>1
<1>2. ASSUME NEW k \in Nat, k \in G PROVE k + 1 \in G
  <2> SUFFICES ASSUME k + 1 <= MAX_RETRIES PROVE Budget[k + 1] \in Nat /\ counted[k + 1] <= Budget[k + 1]
    OBVIOUS
  <2>1. k \in 0..(MAX_RETRIES - 1) /\ k + 1 \in 0..MAX_RETRIES /\ k + 1 # 0 /\ (k + 1) - 1 = k
    BY LifecycleAssumption
  <2>2. Budget[k] \in Nat /\ counted[k] <= Budget[k]
    BY <1>2, <2>1, LifecycleAssumption
  <2>3. Budget[k + 1] = Cardinality(Call) * (1 + Budget[k])
    BY <2>1, BudgetIs
  <2>4. /\ counted[k + 1] + Cardinality(Holding(k)) <= Cardinality(Call) * (1 + counted[k])
        /\ counted[k] \in Nat /\ counted[k + 1] \in Nat /\ Cardinality(Holding(k)) \in Nat
        /\ Cardinality(Call) \in Nat
    BY <2>1, BudgetParts, CountedTyped DEF Within
  <2>5. /\ Cardinality(Call) * (1 + counted[k]) <= Cardinality(Call) * (1 + Budget[k])
        /\ Cardinality(Call) * (1 + counted[k]) \in Nat /\ Cardinality(Call) * (1 + Budget[k]) \in Nat
    BY <2>2, <2>4, Times
  <2> QED BY <2>3, <2>4, <2>5
<1> HIDE DEF G
<1>3. \A k \in Nat : k \in G
  BY <1>1, <1>2, Induction
<1> QED BY <1>3, LifecycleAssumption DEF G

\* However calls overlap, and however their writes of retryCount take back what
\* others have counted, n calls at a time are granted at most
\* n + n^2 + ... + n^MAX_RETRIES retries.
THEOREM RetriesStayInBudget == Spec => []RetryBudget
<1>1. LifecycleInv /\ BudgetInv => RetryBudget
  <2> SUFFICES ASSUME LifecycleInv, BudgetInv PROVE RetryBudget
    OBVIOUS
  <2>1. MAX_RETRIES \in 0..MAX_RETRIES
    BY LifecycleAssumption
  <2>2. /\ retries <= counted[MAX_RETRIES] /\ counted[MAX_RETRIES] <= Budget[MAX_RETRIES]
        /\ retries \in Nat /\ counted[MAX_RETRIES] \in Nat /\ Budget[MAX_RETRIES] \in Nat
    BY <2>1, BudgetParts, CountedWithin, CountedTyped
  <2> QED BY <2>2 DEF RetryBudget
<1> QED
  BY InitLifecycleInv, NextLifecycleInv, InitBudgetInv, NextBudgetInv, <1>1, PTL DEF Spec

-----------------------------------------------------------------------------
\* Calls that come one after the other.
LEMMA InitSerialInv == Init => SerialInv
<1> SUFFICES ASSUME Init PROVE SerialInv
  OBVIOUS
<1>1. OneCall /\ \A c \in Call : SerialCall(c)
  BY DEF Init, OneCall, SerialCall, Executing, Placing
<1>2. retries <= row.retryCount /\ retries <= MAX_RETRIES
  BY LifecycleAssumption DEF Init
<1>3. NothingPlaced
  BY DEF Init, NothingPlaced, Executing, Placing
<1> QED BY <1>1, <1>2, <1>3 DEF SerialInv

\* A step of the one call that is under way, or that begins.
LEMMA SerialStep ==
  ASSUME LifecycleInv, NEW c \in Call, NEW s \in Stage, GoTo(c, s),
         \A d \in Call \ {c} : stage[d] = "idle",
         s \in Executing \cup {"retrying"} => seen'[c].retryCount = row'.retryCount,
         s = "retrying" => row'.status = "REJECTED",
         s \in {"placing", "answering"} => row'.status = "SUBMITTED",
         retries' <= row'.retryCount, retries' <= MAX_RETRIES,
         ~unsure' => /\ placed' <= 1
                     /\ row'.status \in {NoRow, "PENDING", "REJECTED"} => placed' = 0
                     /\ s \in Executing \ {"answering"} => placed' = 0
  PROVE  SerialInv'
<1>1. stage'[c] = s /\ \A d \in Call \ {c} : stage'[d] = "idle"
  BY DEF GoTo, LifecycleInv, TypeOK
<1>2. "idle" \notin Executing /\ "idle" # "retrying"
  BY DEF Executing, Placing
<1>3. OneCall'
  BY <1>1 DEF OneCall
<1>4. \A d \in Call : SerialCall(d)'
  BY <1>1, <1>2 DEF SerialCall
<1>5. ~unsure' => NothingPlaced'
  BY <1>1, <1>2 DEF NothingPlaced
<1> QED BY <1>3, <1>4, <1>5 DEF SerialInv

LEMMA NextSerialInv == LifecycleInv /\ SerialInv /\ [Next]_vars => SerialInv'
<1> SUFFICES ASSUME LifecycleInv, SerialInv, [Next]_vars, ~overlapped' PROVE SerialInv'
  BY DEF SerialInv
<1> USE DEF InStage, SetStatus
<1>1. ~overlapped
  BY DEF Next, Creates, Executes, Cancels, Retries, Notices, Create, Enqueue, EnqueueFails,
         ReadForExecution, Submit, BrokerAccepts, PlacementFails, AnswerLost, RecordFilled,
         RecordRejected, RecordFailed, LastWriteFails, ReadForCancel, AskToCancel,
         RecordCancelled, ReadForRetry, MarkForRetry, ReadForFill, RecordFill, WorkerJob,
         OrderDone, Crash, Read, history, budget, vars
<1>2. /\ OneCall /\ \A c \in Call : SerialCall(c)
      /\ retries <= row.retryCount /\ retries <= MAX_RETRIES
      /\ ~unsure => NothingPlaced
  BY <1>1 DEF SerialInv
<1>3. /\ unsure \in BOOLEAN /\ row \in Row /\ placed \in Nat /\ retries \in Nat /\ row.retryCount \in Nat
      /\ seen \in [Call -> Row] /\ stage \in [Call -> Stage] /\ \A c \in Call : CallInv(c)
  BY LifecycleAssumption DEF LifecycleInv, TypeOK, OrderId, Row
<1>4. ASSUME NEW c \in Call, stage[c] # "idle" PROVE \A d \in Call \ {c} : stage[d] = "idle"
  BY <1>2, <1>4 DEF OneCall
\* A call begins: the others are idle, and it reads the row.
<1>5. ASSUME NEW c \in Call, NEW s \in Stage, Read(c, s)
      PROVE  GoTo(c, s) /\ seen'[c] = row /\ \A d \in Call : stage[d] = "idle"
  BY <1>3, <1>5 DEF Read
<1>6. ASSUME NEW c \in Call, Create(c) PROVE SerialInv'
  <2>1. Read(c, "enqueue") /\ row.status = NoRow /\ UNCHANGED <<placed, retries, unsure>>
        /\ row' = [row EXCEPT !.status = "PENDING"]
    BY <1>6 DEF Create, broker, budget
  <2>2. row'.status = "PENDING" /\ row'.retryCount = row.retryCount
    BY <1>3, <2>1 DEF Row
  <2>3. "enqueue" \in Stage \ Executing /\ "enqueue" # "retrying"
    BY DEF Stage, Executing, Placing
  <2> QED BY <1>2, <1>3, <1>5, <2>1, <2>2, <2>3, SerialStep DEF NothingPlaced
<1>7. ASSUME NEW c \in Call, ReadForExecution(c) PROVE SerialInv'
  <2>1. Read(c, "submitting") /\ row.status = "PENDING" /\ UNCHANGED <<row, placed, retries, unsure>>
    BY <1>7 DEF ReadForExecution, broker, budget
  <2>2. "submitting" \in Stage
    BY DEF Stage, Executing, Placing
  <2> QED BY <1>2, <1>3, <1>5, <2>1, <2>2, SerialStep DEF NothingPlaced
<1>8. ASSUME NEW c \in Call, ReadForCancel(c) \/ ReadForFill(c) PROVE SerialInv'
  <2>1. PICK s \in {"cancelling", "noticing"} : Read(c, s)
    BY <1>8 DEF ReadForCancel, ReadForFill
  <2>2. UNCHANGED <<row, placed, retries, unsure>>
    BY <1>8 DEF ReadForCancel, ReadForFill, broker, budget
  <2>3. s \in Stage \ Executing /\ s # "retrying" /\ s \notin {"placing", "answering"}
    BY DEF Stage, Executing, Placing
  <2> QED BY <1>2, <1>3, <1>5, <2>1, <2>2, <2>3, SerialStep DEF NothingPlaced
<1>9. ASSUME NEW c \in Call, ReadForRetry(c) PROVE SerialInv'
  <2>1. Read(c, "retrying") /\ row.status = "REJECTED" /\ UNCHANGED <<row, placed, retries, unsure>>
    BY <1>9 DEF ReadForRetry, broker, budget
  <2>2. "retrying" \in Stage \ Executing
    BY DEF Stage, Executing, Placing
  <2> QED BY <1>2, <1>3, <1>5, <2>1, <2>2, SerialStep DEF NothingPlaced
\* A call ends without placing anything.
<1>10. ASSUME NEW c \in Call, Enqueue(c) \/ EnqueueFails(c) PROVE SerialInv'
  <2>1. stage[c] # "idle" /\ GoTo(c, "idle") /\ UNCHANGED <<row, placed, retries, unsure>>
    BY <1>10 DEF Enqueue, EnqueueFails, broker, history, budget
  <2>2. "idle" \in Stage \ Executing /\ "idle" \notin {"retrying", "placing", "answering"}
    BY DEF Stage, Executing, Placing
  <2> QED BY <1>2, <1>3, <1>4, <2>1, <2>2, SerialStep DEF NothingPlaced
<1>11. ASSUME NEW c \in Call, Submit(c) PROVE SerialInv'
  <2>1. stage[c] = "submitting" /\ UNCHANGED <<placed, seen, retries, unsure>>
    BY <1>11 DEF Submit, broker, history, budget
  <2>2. "submitting" \in Executing \ {"answering"} /\ {"placing", "threw"} \subseteq Stage
    BY DEF Stage, Executing, Placing
  <2>3. seen[c].retryCount = row.retryCount /\ (~unsure => placed = 0)
    BY <1>2, <2>1, <2>2 DEF SerialCall, NothingPlaced
  <2>4. CASE row' = [row EXCEPT !.status = "SUBMITTED"] /\ GoTo(c, "placing")
    <3>1. row'.status = "SUBMITTED" /\ row'.retryCount = row.retryCount
      BY <1>3, <2>4 DEF Row
    <3> QED BY <1>2, <1>3, <1>4, <2>1, <2>2, <2>3, <2>4, <3>1, SerialStep
  <2>5. CASE row' = row /\ GoTo(c, "threw")
    BY <1>2, <1>3, <1>4, <2>1, <2>2, <2>3, <2>5, SerialStep
  <2> QED BY <1>11, <2>4, <2>5 DEF Submit
<1>12. ASSUME NEW c \in Call, BrokerAccepts(c) PROVE SerialInv'
  <2>1. /\ stage[c] = "placing" /\ GoTo(c, "answering") /\ placed' = placed + 1
        /\ UNCHANGED <<row, seen, retries, unsure>>
    BY <1>12 DEF BrokerAccepts, history, budget
  <2>2. "placing" \in Executing \ {"answering"} /\ "answering" \in Stage
    BY DEF Stage, Executing, Placing
  <2>3. seen[c].retryCount = row.retryCount /\ row.status = "SUBMITTED" /\ (~unsure => placed = 0)
    BY <1>2, <2>1, <2>2 DEF SerialCall, NothingPlaced
  <2> QED BY <1>2, <1>3, <1>4, <2>1, <2>2, <2>3, SerialStep DEF NoRow
<1>13. ASSUME NEW c \in Call, PlacementFails(c) \/ AnswerLost(c) PROVE SerialInv'
  <2>1. /\ \/ stage[c] = "placing" /\ unsure' = unsure
           \/ stage[c] = "answering" /\ unsure' = TRUE
        /\ UNCHANGED <<row, placed, seen, retries>>
    BY <1>13 DEF PlacementFails, AnswerLost, broker, history, budget
  <2>2. PICK s \in {"refused", "threw"} : GoTo(c, s)
    BY <1>13 DEF PlacementFails, AnswerLost
  <2>3. {"placing", "answering"} \subseteq Executing /\ s \in Stage /\ s \notin {"retrying", "placing", "answering"}
    BY DEF Stage, Executing, Placing
  <2>4. seen[c].retryCount = row.retryCount /\ (~unsure' => placed = 0)
    BY <1>2, <2>1, <2>3 DEF SerialCall, NothingPlaced
  <2>5. \A d \in Call \ {c} : stage[d] = "idle"
    BY <1>4, <2>1
  <2> QED BY <1>2, <1>3, <2>1, <2>2, <2>3, <2>4, <2>5, SerialStep
<1>14. ASSUME NEW c \in Call, RecordFilled(c) PROVE SerialInv'
  <2>1. /\ stage[c] = "answering" /\ GoTo(c, "idle") /\ UNCHANGED <<placed, retries, unsure>>
        /\ row' = [row EXCEPT !.status = "FILLED", !.brokerOrderId = answer[c]]
    BY <1>14 DEF RecordFilled, broker, history, budget
  <2>2. row'.status = "FILLED" /\ row'.retryCount = row.retryCount
    BY <1>3, <2>1 DEF Row
  <2>3. "idle" \in Stage \ Executing /\ "idle" \notin {"retrying", "placing", "answering"}
    BY DEF Stage, Executing, Placing
  <2> QED BY <1>2, <1>3, <1>4, <2>1, <2>2, <2>3, SerialStep DEF NothingPlaced, NoRow
<1>15. ASSUME NEW c \in Call, RecordRejected(c) \/ RecordFailed(c) PROVE SerialInv'
  <2>1. /\ stage[c] \in {"refused", "threw"} /\ GoTo(c, "idle") /\ UNCHANGED <<placed, retries, unsure>>
    BY <1>15 DEF RecordRejected, RecordFailed, broker, history, budget
  <2>2. {"refused", "threw"} \subseteq Executing \ {"answering"}
    BY DEF Executing, Placing
  <2>3. seen[c].retryCount = row.retryCount /\ (~unsure => placed = 0)
    BY <1>2, <2>1, <2>2 DEF SerialCall, NothingPlaced
  <2>4. row'.retryCount \in {row.retryCount, row.retryCount + 1}
    BY <1>3, <1>15, <2>3 DEF RecordRejected, RecordFailed, Row
  <2>5. retries' <= row'.retryCount
    BY <1>2, <1>3, <2>1, <2>4
  <2>6. "idle" \in Stage \ Executing /\ "idle" \notin {"retrying", "placing", "answering"}
    BY DEF Stage, Executing, Placing
  <2> QED BY <1>2, <1>3, <1>4, <2>1, <2>3, <2>5, <2>6, SerialStep
<1>16. ASSUME NEW c \in Call, LastWriteFails(c) PROVE SerialInv'
  <2>1. stage[c] # "idle" /\ GoTo(c, "idle") /\ unsure' /\ UNCHANGED <<row, placed, retries>>
    BY <1>16 DEF LastWriteFails, broker, budget
  <2>2. "idle" \in Stage \ Executing /\ "idle" \notin {"retrying", "placing", "answering"}
    BY DEF Stage, Executing, Placing
  <2> QED BY <1>2, <1>3, <1>4, <2>1, <2>2, SerialStep
<1>17. ASSUME NEW c \in Call, AskToCancel(c) PROVE SerialInv'
  <2>1. stage[c] = "cancelling" /\ UNCHANGED <<row, placed, retries, unsure>>
    BY <1>17 DEF AskToCancel, history, budget
  <2>2. PICK s \in {"cancelled", "idle"} : GoTo(c, s)
    BY <1>17 DEF AskToCancel
  <2>3. s \in Stage \ Executing /\ s \notin {"retrying", "placing", "answering"}
    BY DEF Stage, Executing, Placing
  <2>4. \A d \in Call \ {c} : stage[d] = "idle"
    BY <1>4, <2>1
  <2> QED BY <1>2, <1>3, <2>1, <2>2, <2>3, <2>4, SerialStep DEF NothingPlaced
<1>18. ASSUME NEW c \in Call, RecordCancelled(c) \/ RecordFill(c) PROVE SerialInv'
  <2>1. /\ stage[c] # "idle" /\ GoTo(c, "idle") /\ UNCHANGED <<placed, retries, unsure>>
    BY <1>18 DEF RecordCancelled, RecordFill, broker, history, budget
  <2>2. /\ row'.retryCount = row.retryCount
        /\ row'.status = row.status \/ row'.status \in {"CANCELLED", "SUBMITTED", "PARTIALLY_FILLED", "FILLED"}
    BY <1>3, <1>18 DEF RecordCancelled, RecordFill, Row
  <2>3. "idle" \in Stage \ Executing /\ "idle" \notin {"retrying", "placing", "answering"}
    BY DEF Stage, Executing, Placing
  <2> QED BY <1>2, <1>3, <1>4, <2>1, <2>2, <2>3, SerialStep DEF NothingPlaced, NoRow
\* The retry: what it adds to is what it has read, and still below the limit.
<1>19. ASSUME NEW c \in Call, MarkForRetry(c) PROVE SerialInv'
  <2>1. /\ stage[c] = "retrying" /\ GoTo(c, "enqueue") /\ UNCHANGED <<placed, unsure>>
        /\ row' = [row EXCEPT !.status = "PENDING", !.retryCount = seen[c].retryCount + 1]
        /\ retries' = retries + 1
    BY <1>19 DEF MarkForRetry, broker, budget
  <2>2. seen[c].retryCount = row.retryCount /\ row.status = "REJECTED"
    BY <1>2, <2>1 DEF SerialCall
  <2>3. row.retryCount < MAX_RETRIES
    BY <1>3, <2>1, <2>2 DEF CallInv
  <2>4. row'.status = "PENDING" /\ row'.retryCount = row.retryCount + 1
    BY <1>3, <2>1, <2>2 DEF Row
  <2>5. retries' <= row'.retryCount /\ retries' <= MAX_RETRIES
    BY <1>2, <1>3, <2>1, <2>3, <2>4, LifecycleAssumption
  <2>6. "enqueue" \in Stage \ Executing /\ "enqueue" \notin {"retrying", "placing", "answering"}
    BY DEF Stage, Executing, Placing
  <2> QED BY <1>2, <1>3, <1>4, <2>1, <2>2, <2>4, <2>5, <2>6, SerialStep DEF NothingPlaced
\* Steps of no call.
<1>20. CASE WorkerJob \/ OrderDone \/ UNCHANGED vars
  <2>1. UNCHANGED <<row, placed, stage, seen, retries, overlapped, unsure>>
    BY <1>20 DEF WorkerJob, OrderDone, vars, broker, calls, history, budget
  <2> QED BY <2>1 DEF SerialInv, OneCall, SerialCall, NothingPlaced
<1>21. CASE Crash
  <2>1. /\ UNCHANGED <<row, placed, retries>>
        /\ unsure => unsure'
        /\ stage' = [c \in Call |-> "idle"]
    BY <1>21 DEF Crash, broker, budget
  <2>2. "idle" \notin Executing \cup {"retrying", "placing", "answering"}
    BY DEF Executing, Placing
  <2>3. OneCall' /\ \A c \in Call : SerialCall(c)'
    BY <2>1, <2>2 DEF OneCall, SerialCall
  <2>4. ASSUME ~unsure' PROVE NothingPlaced'
    <3>1. NothingPlaced
      BY <1>2, <2>1, <2>4
    <3> QED BY <2>1, <2>2, <3>1 DEF NothingPlaced
  <2>5. retries' <= row'.retryCount /\ retries' <= MAX_RETRIES
    BY <1>2, <2>1
  <2> QED BY <2>3, <2>4, <2>5 DEF SerialInv
<1> QED
  BY <1>6, <1>7, <1>8, <1>9, <1>10, <1>11, <1>12, <1>13, <1>14, <1>15, <1>16, <1>17, <1>18,
     <1>19, <1>20, <1>21
  DEF Next, Creates, Executes, Cancels, Retries, Notices

\* One call after the other, every outcome recorded: one order at most, and no
\* more retries than the limit, whatever fails and however often.
THEOREM SerialCallsAreSafe == Spec => []SerialUseIsSafe
<1>1. SerialInv => SerialUseIsSafe
  BY DEF SerialInv, NothingPlaced, SerialUseIsSafe
<1> QED
  BY InitLifecycleInv, NextLifecycleInv, InitSerialInv, NextSerialInv, <1>1, PTL DEF Spec
-----------------------------------------------------------------------------
\* The lock of TradeTransactionService, with names of its own.
\* At first nobody is inside.
LEMMA InitLockInv == Lock!Init => Lock!LockInv
<1> SUFFICES ASSUME Lock!Init PROVE Lock!LockInv
  OBVIOUS
<1>. USE LockAssumption
<1>1. lock \in [ttl : 0..LOCK_TTL, value : Token, setter : Request]
  BY DEF Lock!Limits, Lock!Init
<1>2. 0 \in 0..LOCK_TTL /\ 0 \in 0..MAX_LOCK_RETRIES
  BY DEF Lock!Limits
<1>3. Lock!TypeOK
  BY <1>1, <1>2 DEF Lock!Init, Lock!TypeOK, Lock!Stage, Lock!NoTrade
<1> QED BY <1>3 DEF Lock!Init, Lock!LockInv, Lock!Inside

\* A step of r that leaves the lock and the rows alone and goes on to s.
LEMMA LockStageStep ==
  ASSUME Lock!LockInv, NEW r \in Request, NEW s \in Lock!Stage, Lock!GoTo(r, s),
         UNCHANGED <<lock, lockValue, held, age, committed, near, overstayed>>,
         attempts' \in [Request -> 0..MAX_LOCK_RETRIES],
         lockStage[r] # "done",
         s \in Lock!Inside => lockStage[r] \in Lock!Inside,
         s = "creating" => (\A x \in committed : ~Lock!IsRecent(x)),
         s \in {"idle", "acquiring", "checking", "creating"} => (~overstayed => age[r] = Lock!NoTrade)
  PROVE  Lock!LockInv'
<1>1. lockStage' = [lockStage EXCEPT ![r] = s] /\ lockStage' \in [Request -> Lock!Stage]
  BY DEF Lock!GoTo, Lock!LockInv, Lock!TypeOK
<1>2. Lock!TypeOK'
  BY <1>1 DEF Lock!LockInv, Lock!TypeOK
<1>3. ASSUME ~overstayed, NEW x \in Request, lockStage'[x] \in Lock!Inside PROVE Lock!HoldsLock(x)'
  BY <1>1, <1>3 DEF Lock!LockInv, Lock!TypeOK, Lock!HoldsLock, Lock!Locked
<1>4. ASSUME ~overstayed, NEW x \in Request, lockStage'[x] = "creating", NEW y \in committed
      PROVE  ~Lock!IsRecent(y)
  BY <1>1, <1>4 DEF Lock!LockInv, Lock!TypeOK
<1>5. ASSUME ~overstayed, NEW x \in Request,
             lockStage'[x] \in {"idle", "acquiring", "checking", "creating"}
      PROVE  age[x] = Lock!NoTrade
  BY <1>1, <1>5 DEF Lock!LockInv, Lock!TypeOK
<1>6. ASSUME ~overstayed, NEW x \in Request, NEW y \in Request, <<x, y>> \in near
      PROVE  y \notin committed /\ lockStage'[y] = "done"
  BY <1>1, <1>6 DEF Lock!LockInv, Lock!TypeOK
<1> QED BY <1>2, <1>3, <1>4, <1>5, <1>6 DEF Lock!LockInv, Lock!IsRecent

\* The row of r is committed and r goes on to s.
LEMMA LockCommitStep ==
  ASSUME Lock!LockInv, NEW r \in Request, NEW s \in {"releasing", "done"}, Lock!GoTo(r, s),
         lockStage[r] = "committing", committed' = committed \cup {r},
         UNCHANGED <<lock, lockValue, attempts, held, age, near, overstayed>>
  PROVE  Lock!LockInv'
<1>1. Lock!TypeOK /\ lockStage' = [lockStage EXCEPT ![r] = s] /\ lockStage' \in [Request -> Lock!Stage]
  BY DEF Lock!GoTo, Lock!LockInv, Lock!TypeOK, Lock!Stage, Lock!Inside
<1>2. Lock!TypeOK'
  BY <1>1 DEF Lock!TypeOK
<1>3. ASSUME ~overstayed, NEW x \in Request, lockStage'[x] \in Lock!Inside PROVE Lock!HoldsLock(x)'
  BY <1>1, <1>3 DEF Lock!LockInv, Lock!TypeOK, Lock!HoldsLock, Lock!Locked, Lock!Inside
<1>4. ASSUME ~overstayed, NEW x \in Request, x # r PROVE lockStage[x] \notin Lock!Inside /\ lockStage'[x] = lockStage[x]
  BY <1>1, <1>4 DEF Lock!LockInv, Lock!TypeOK, Lock!HoldsLock, Lock!Inside
<1>5. ASSUME ~overstayed, NEW x \in Request,
             lockStage'[x] \in {"idle", "acquiring", "checking", "creating"}
      PROVE  age[x] = Lock!NoTrade /\ lockStage'[x] # "creating"
  BY <1>1, <1>4, <1>5 DEF Lock!LockInv, Lock!TypeOK, Lock!Inside
<1>6. ASSUME ~overstayed, NEW x \in Request, NEW y \in Request, <<x, y>> \in near
      PROVE  y \notin committed' /\ lockStage'[y] = "done"
  BY <1>1, <1>6 DEF Lock!LockInv, Lock!TypeOK
<1> QED BY <1>2, <1>3, <1>5, <1>6 DEF Lock!LockInv

\* Every step keeps the lock, the rows and the times together.
LEMMA NextLockInv == Lock!LockInv /\ [Lock!Next]_Lock!vars => Lock!LockInv'
<1> SUFFICES ASSUME Lock!LockInv, [Lock!Next]_Lock!vars PROVE Lock!LockInv'
  OBVIOUS
<1>. USE LockAssumption
<1>0. Lock!TypeOK /\ {"acquiring", "checking", "creating", "committing", "releasing", "done"} \subseteq Lock!Stage
  BY DEF Lock!LockInv, Lock!Stage, Lock!Inside
\* Steps that only move on.
<1>1. ASSUME NEW r \in Request, Lock!Start(r) PROVE Lock!LockInv'
  <2>1. /\ Lock!GoTo(r, "acquiring") /\ lockStage[r] = "idle" /\ attempts' = attempts
        /\ UNCHANGED <<lock, lockValue, held, age, committed, near, overstayed>>
    BY <1>1 DEF Lock!Start
  <2>2. ~overstayed => age[r] = Lock!NoTrade
    BY <2>1 DEF Lock!LockInv
  <2> QED BY <1>0, <2>1, <2>2, LockStageStep DEF Lock!TypeOK, Lock!Inside
<1>2. ASSUME NEW r \in Request, Lock!LockRefused(r) PROVE Lock!LockInv'
  <2>1. lockStage[r] = "acquiring" /\ (~overstayed => age[r] = Lock!NoTrade)
        /\ UNCHANGED <<lock, lockValue, held, age, committed, near, overstayed>>
    BY <1>2 DEF Lock!LockRefused, Lock!LockInv
  <2>2. CASE attempts[r] < MAX_LOCK_RETRIES
    <3>1. attempts[r] + 1 \in 0..MAX_LOCK_RETRIES
      BY <1>0, <2>2 DEF Lock!Limits, Lock!TypeOK
    <3>2. attempts' \in [Request -> 0..MAX_LOCK_RETRIES] /\ Lock!GoTo(r, "acquiring")
      BY <1>0, <1>2, <2>1, <2>2, <3>1 DEF Lock!LockRefused, Lock!TypeOK, Lock!GoTo
    <3> QED BY <1>0, <2>1, <3>2, LockStageStep DEF Lock!Inside
  <2>3. CASE ~(attempts[r] < MAX_LOCK_RETRIES)
    BY <1>0, <1>2, <2>1, <2>3, LockStageStep DEF Lock!LockRefused, Lock!TypeOK, Lock!Inside
  <2> QED BY <2>2, <2>3
<1>3. ASSUME NEW r \in Request, Lock!CheckDuplicate(r) PROVE Lock!LockInv'
  <2>1. /\ lockStage[r] = "checking" /\ (~overstayed => age[r] = Lock!NoTrade) /\ attempts' = attempts
        /\ UNCHANGED <<lock, lockValue, held, age, committed, near, overstayed>>
    BY <1>3 DEF Lock!CheckDuplicate, Lock!LockInv
  <2>2. CASE \E s \in committed : Lock!IsRecent(s)
    <3>1. Lock!GoTo(r, "releasing")
      BY <1>3, <2>2 DEF Lock!CheckDuplicate
    <3> QED BY <1>0, <2>1, <3>1, LockStageStep DEF Lock!Inside, Lock!TypeOK
  <2>3. CASE ~\E s \in committed : Lock!IsRecent(s)
    <3>1. Lock!GoTo(r, "creating") /\ \A s \in committed : ~Lock!IsRecent(s)
      BY <1>3, <2>3 DEF Lock!CheckDuplicate
    <3> QED BY <1>0, <2>1, <3>1, LockStageStep DEF Lock!Inside, Lock!TypeOK
  <2> QED BY <2>2, <2>3
<1>4. ASSUME NEW r \in Request, Lock!Throw(r) PROVE Lock!LockInv'
  <2>1. /\ Lock!GoTo(r, "releasing") /\ lockStage[r] \in Lock!Inside /\ attempts' = attempts
        /\ UNCHANGED <<lock, lockValue, held, age, committed, near, overstayed>>
    BY <1>4 DEF Lock!Throw, Lock!Inside
  <2> QED BY <1>0, <2>1, LockStageStep DEF Lock!Inside, Lock!TypeOK
\* Steps on the lock.
<1>5. ASSUME NEW r \in Request, Lock!AcquireLock(r) PROVE Lock!LockInv'
  <2>1. /\ lockStage[r] = "acquiring" /\ ~Lock!Locked /\ Lock!GoTo(r, "checking") /\ lockStage' \in [Request -> Lock!Stage]
        /\ lock' = [ttl |-> LOCK_TTL, value |-> lockValue[r], setter |-> r]
        /\ held' = [held EXCEPT ![r] = 0] /\ held' \in [Request -> 0..LOCK_TTL]
        /\ UNCHANGED <<lockValue, attempts, age, committed, near, overstayed>>
    BY <1>0, <1>5 DEF Lock!Limits, Lock!AcquireLock, Lock!SetLock, Lock!TypeOK, Lock!GoTo
  <2>2. lock' \in [ttl : 0..LOCK_TTL, value : Token, setter : Request]
    BY <1>0, <2>1 DEF Lock!Limits, Lock!TypeOK
  <2>3. Lock!TypeOK'
    BY <1>0, <2>1, <2>2 DEF Lock!TypeOK
  <2>4. ASSUME ~overstayed, NEW x \in Request, lockStage'[x] \in Lock!Inside PROVE Lock!HoldsLock(x)'
    <3>1. x = r
      BY <1>0, <2>1, <2>4 DEF Lock!LockInv, Lock!HoldsLock, Lock!TypeOK, Lock!GoTo
    <3>2. held'[r] = 0 /\ lock'.ttl = LOCK_TTL /\ lock'.setter = r
      BY <1>0, <2>1 DEF Lock!TypeOK
    <3> QED BY <3>1, <3>2 DEF Lock!Limits, Lock!HoldsLock, Lock!Locked
  <2> QED BY <1>0, <2>1, <2>3, <2>4 DEF Lock!LockInv, Lock!TypeOK, Lock!GoTo, Lock!IsRecent
<1>6. ASSUME NEW r \in Request, Lock!AcquireFails(r) PROVE Lock!LockInv'
  <2>1. /\ lockStage[r] = "acquiring" /\ Lock!GoTo(r, "done") /\ lockStage' \in [Request -> Lock!Stage]
        /\ lock' = lock \/ (~Lock!Locked /\ lock' = [ttl |-> LOCK_TTL, value |-> lockValue[r], setter |-> r])
        /\ UNCHANGED <<lockValue, attempts, held, age, committed, near, overstayed>>
    BY <1>0, <1>6 DEF Lock!AcquireFails, Lock!SetLock, Lock!TypeOK, Lock!GoTo
  <2>2. lock' \in [ttl : 0..LOCK_TTL, value : Token, setter : Request]
    BY <1>0, <2>1 DEF Lock!Limits, Lock!TypeOK
  <2>3. Lock!TypeOK'
    BY <1>0, <2>1, <2>2 DEF Lock!TypeOK
  <2>4. ASSUME ~overstayed, NEW x \in Request, lockStage'[x] \in Lock!Inside PROVE Lock!HoldsLock(x)'
    <3>1. lockStage[x] \in Lock!Inside
      BY <1>0, <2>1, <2>4 DEF Lock!TypeOK, Lock!GoTo, Lock!Inside
    <3>2. Lock!HoldsLock(x) /\ lock' = lock
      BY <2>1, <2>4, <3>1 DEF Lock!LockInv, Lock!HoldsLock
    <3> QED BY <2>1, <3>2 DEF Lock!HoldsLock, Lock!Locked
  <2> QED BY <1>0, <2>1, <2>3, <2>4 DEF Lock!LockInv, Lock!TypeOK, Lock!GoTo, Lock!IsRecent
<1>7. ASSUME NEW r \in Request, Lock!ReleaseLock(r) PROVE Lock!LockInv'
  <2>1. /\ lockStage[r] = "releasing" /\ Lock!GoTo(r, "done") /\ lockStage' \in [Request -> Lock!Stage]
        /\ lock' = lock \/ lock' = [lock EXCEPT !.ttl = 0]
        /\ UNCHANGED <<lockValue, attempts, held, age, committed, near, overstayed>>
    BY <1>0, <1>7 DEF Lock!ReleaseLock, Lock!TypeOK, Lock!GoTo
  <2>2. 0 \in 0..LOCK_TTL
    BY DEF Lock!Limits
  <2>3. Lock!TypeOK'
    BY <1>0, <2>1, <2>2 DEF Lock!TypeOK
  <2>4. ASSUME ~overstayed, NEW x \in Request, lockStage'[x] \in Lock!Inside PROVE Lock!HoldsLock(x)'
    <3>1. lockStage[x] \in Lock!Inside /\ x # r
      BY <1>0, <2>1, <2>4 DEF Lock!TypeOK, Lock!GoTo, Lock!Inside
    <3>2. lock.setter = x /\ lock.setter = r
      BY <2>1, <2>4, <3>1 DEF Lock!LockInv, Lock!HoldsLock, Lock!Inside
    <3> QED BY <3>1, <3>2
  <2> QED BY <1>0, <2>1, <2>3, <2>4 DEF Lock!LockInv, Lock!TypeOK, Lock!GoTo, Lock!IsRecent
\* Steps on the rows.
<1>8. ASSUME NEW r \in Request, Lock!CreateTrade(r) PROVE Lock!LockInv'
  <2>1. /\ lockStage[r] = "creating" /\ Lock!GoTo(r, "committing") /\ lockStage' \in [Request -> Lock!Stage]
        /\ age' = [age EXCEPT ![r] = 0]
        /\ near' = near \cup {<<r, s>> : s \in {x \in Request \ {r} : Lock!IsRecent(x)}}
        /\ UNCHANGED <<lock, lockValue, attempts, held, committed, overstayed>>
    BY <1>0, <1>8 DEF Lock!CreateTrade, Lock!TypeOK, Lock!GoTo
  <2>2. 0 \in 0..(DUPLICATE_WINDOW + 1)
    BY DEF Lock!Limits
  <2>3. Lock!TypeOK'
    BY <1>0, <2>1, <2>2 DEF Lock!TypeOK
  <2>4. ASSUME ~overstayed, NEW x \in Request, lockStage'[x] \in Lock!Inside PROVE Lock!HoldsLock(x)'
    BY <1>0, <2>1, <2>4 DEF Lock!LockInv, Lock!TypeOK, Lock!GoTo, Lock!HoldsLock, Lock!Locked, Lock!Inside
  <2>5. ASSUME ~overstayed, NEW x \in Request, x # r PROVE lockStage[x] \notin Lock!Inside /\ lockStage'[x] = lockStage[x]
    BY <1>0, <2>1, <2>5 DEF Lock!LockInv, Lock!TypeOK, Lock!GoTo, Lock!HoldsLock, Lock!Inside
  <2>6. ASSUME ~overstayed, NEW x \in Request,
               lockStage'[x] \in {"idle", "acquiring", "checking", "creating"}
        PROVE  age'[x] = Lock!NoTrade /\ lockStage'[x] # "creating"
    BY <1>0, <2>1, <2>5, <2>6 DEF Lock!LockInv, Lock!TypeOK, Lock!GoTo, Lock!Inside
  <2>7. ASSUME ~overstayed, NEW y \in Request, y # r, Lock!IsRecent(y)
        PROVE  y \notin committed /\ lockStage'[y] = "done"
    <3>1. lockStage[y] = "done"
      BY <1>0, <2>5, <2>7 DEF Lock!LockInv, Lock!TypeOK, Lock!Stage, Lock!IsRecent, Lock!NoTrade
    <3> QED BY <2>1, <2>5, <2>7, <3>1 DEF Lock!LockInv
  <2>8. ASSUME ~overstayed, NEW x \in Request, NEW y \in Request, <<x, y>> \in near'
        PROVE  y \notin committed /\ lockStage'[y] = "done"
    <3>1. CASE <<x, y>> \in near
      BY <2>1, <2>5, <2>8, <3>1 DEF Lock!LockInv
    <3>2. CASE <<x, y>> \notin near
      BY <2>1, <2>7, <2>8, <3>2
    <3> QED BY <3>1, <3>2
  <2> QED BY <2>1, <2>3, <2>4, <2>6, <2>8 DEF Lock!LockInv
<1>9. ASSUME NEW r \in Request, Lock!Commit(r) PROVE Lock!LockInv'
  <2>1. /\ lockStage[r] = "committing" /\ Lock!GoTo(r, "releasing") /\ committed' = committed \cup {r}
        /\ UNCHANGED <<lock, lockValue, attempts, held, age, near, overstayed>>
    BY <1>9 DEF Lock!Commit
  <2> QED BY <1>0, <2>1, LockCommitStep
<1>10. ASSUME NEW r \in Request, Lock!Die(r) PROVE Lock!LockInv'
  <2>1. /\ lockStage[r] # "done" /\ Lock!GoTo(r, "done")
        /\ UNCHANGED <<lock, lockValue, attempts, held, age, near, overstayed>>
    BY <1>10 DEF Lock!Die, Lock!Inside
  <2>2. CASE committed' = committed
    BY <1>0, <2>1, <2>2, LockStageStep DEF Lock!Inside, Lock!TypeOK
  <2>3. CASE lockStage[r] = "committing" /\ committed' = committed \cup {r}
    BY <1>0, <2>1, <2>3, LockCommitStep
  <2> QED BY <1>10, <2>2, <2>3 DEF Lock!Die
<1>11. CASE Lock!Tick
  <2>1. /\ lock' = [lock EXCEPT !.ttl = IF @ > 0 THEN @ - 1 ELSE 0]
        /\ held' = [r \in Request |-> IF held[r] < LOCK_TTL THEN held[r] + 1 ELSE held[r]]
        /\ age' = [r \in Request |-> IF Lock!IsRecent(r) THEN age[r] + 1 ELSE age[r]]
        /\ overstayed' = (overstayed \/ \E r \in Request : lockStage[r] \in Lock!Inside /\ held'[r] = LOCK_TTL)
        /\ UNCHANGED <<lockStage, lockValue, attempts, committed, near>>
    BY <1>11 DEF Lock!Tick
  <2>2. /\ lock.ttl \in 0..LOCK_TTL
        /\ lock'.ttl = IF lock.ttl > 0 THEN lock.ttl - 1 ELSE 0
        /\ lock'.setter = lock.setter
        /\ lock' = [lock EXCEPT !.ttl = lock'.ttl]
    BY <1>0, <2>1 DEF Lock!TypeOK
  <2>3. lock'.ttl \in 0..LOCK_TTL
    BY <2>2 DEF Lock!Limits
  <2>4. lock' \in [ttl : 0..LOCK_TTL, value : Token, setter : Request]
    BY <1>0, <2>2, <2>3 DEF Lock!TypeOK
  <2>5. held' \in [Request -> 0..LOCK_TTL]
    BY <1>0, <2>1 DEF Lock!Limits, Lock!TypeOK
  <2>6. age' \in [Request -> {Lock!NoTrade} \cup 0..(DUPLICATE_WINDOW + 1)]
    BY <1>0, <2>1 DEF Lock!Limits, Lock!TypeOK, Lock!IsRecent
  <2>7. Lock!TypeOK'
    BY <1>0, <2>1, <2>4, <2>5, <2>6 DEF Lock!TypeOK
  <2>8. ASSUME ~overstayed', NEW x \in Request, lockStage[x] \in Lock!Inside PROVE Lock!HoldsLock(x)'
    <3>1. Lock!HoldsLock(x) /\ held'[x] # LOCK_TTL
      BY <2>1, <2>8 DEF Lock!LockInv
    <3>2. held[x] \in 0..LOCK_TTL /\ held'[x] = IF held[x] < LOCK_TTL THEN held[x] + 1 ELSE held[x]
      BY <1>0, <2>1 DEF Lock!TypeOK
    <3>3. lock'.ttl > 0 /\ lock'.ttl + held'[x] = LOCK_TTL
      BY <2>2, <3>1, <3>2 DEF Lock!Limits, Lock!HoldsLock, Lock!Locked
    <3> QED BY <2>2, <3>1, <3>3 DEF Lock!HoldsLock, Lock!Locked
  <2>9. ASSUME NEW x \in Request PROVE /\ age[x] = Lock!NoTrade => age'[x] = Lock!NoTrade
                                       /\ ~Lock!IsRecent(x) => ~Lock!IsRecent(x)'
    BY <1>0, <2>1, <2>9 DEF Lock!TypeOK, Lock!IsRecent, Lock!NoTrade
  <2> QED BY <1>0, <2>1, <2>7, <2>8, <2>9 DEF Lock!LockInv, Lock!TypeOK
<1>12. CASE UNCHANGED Lock!vars
  BY <1>12 DEF Lock!vars, Lock!LockInv, Lock!TypeOK, Lock!HoldsLock, Lock!Locked, Lock!IsRecent
<1> QED
  BY <1>1, <1>2, <1>3, <1>4, <1>5, <1>6, <1>7, <1>8, <1>9, <1>10, <1>11, <1>12 DEF Lock!Next, Lock!Step

THEOREM LockInvariant == Lock!Spec => []Lock!LockInv
  BY InitLockInv, NextLockInv, PTL DEF Lock!Spec

\* Unless a request stays inside for LOCK_TTL, no two are inside together.
THEOREM LockExcludes == Lock!Spec => []MutualExclusion
<1>1. Lock!LockInv => MutualExclusion
  BY DEF Lock!LockInv, MutualExclusion, Lock!MutualExclusion, Lock!HoldsLock
<1> QED BY <1>1, LockInvariant, PTL

\* Unless a request stays inside for LOCK_TTL, no two committed rows lie
\* within the duplicate window.
THEOREM NoDuplicates == Lock!Spec => []NoDuplicateTrade
<1>1. Lock!LockInv => NoDuplicateTrade
  BY DEF Lock!LockInv, NoDuplicateTrade, Lock!NoDuplicateTrade, Lock!TypeOK
<1> QED BY <1>1, LockInvariant, PTL
-----------------------------------------------------------------------------
\* The account.  A liquidation that reports success has left no order open but
\* those it missed; what is inductive is where an open order is during a call:
\* missed, or still to be cancelled by its number.
AccountTyped ==
  /\ rest \in [Order -> Int]
  /\ phase \in [Run -> Liquidation!Stage]
  /\ todo \in [Run -> SUBSET Order] /\ numbers \in [Run -> SUBSET Order]
  /\ missed \in [Run -> SUBSET Order]

Accounted(r, o) ==
  \/ o \in missed[r]
  \/ phase[r] = "cancelling" /\ o \in todo[r] /\ o \in numbers[r]

OpenInv == \A r \in Run, o \in Order : phase[r] # "idle" /\ rest[o] > 0 => Accounted(r, o)

OpenIInv == AccountTyped /\ OpenInv

\* Before the calls begin there is nothing to account for.
LEMMA InitAccounted == Liquidation!Init => OpenIInv
<1> SUFFICES ASSUME Liquidation!Init PROVE OpenIInv
  OBVIOUS
<1>1. AccountTyped
  BY LiquidationAssumption DEF Liquidation!Limits, Liquidation!Init, AccountTyped, Liquidation!Stage
<1>2. OpenInv
  BY DEF Liquidation!Init, OpenInv
<1>. QED BY <1>1, <1>2 DEF OpenIInv

\* The steps of orders: they open only under the eyes of history, else they only shrink.
LEMMA OrderStepAccounted ==
  ASSUME OpenIInv, NEW o \in Order,
         Liquidation!Execute(o) \/ Liquidation!Accept(o) \/ Liquidation!Record(o) \/ Liquidation!Fill(o) \/ Liquidation!Notice(o)
  PROVE  OpenIInv'
<1>. USE DEF OpenIInv, AccountTyped, OpenInv, Accounted
<1>1. CASE Liquidation!Execute(o) \/ Liquidation!Record(o) \/ Liquidation!Notice(o)
  BY <1>1 DEF Liquidation!Execute, Liquidation!Record, Liquidation!Notice, Liquidation!broker, Liquidation!calls
<1>2. CASE Liquidation!Accept(o)
  <2>1. AccountTyped'
    BY <1>2, LiquidationAssumption DEF Liquidation!Limits, Liquidation!Accept, Liquidation!calls
  <2>2. ASSUME NEW r \in Run, NEW p \in Order, phase'[r] # "idle", rest'[p] > 0
        PROVE  Accounted(r, p)'
    <3>1. CASE p = o
      BY <1>2, <2>2, <3>1 DEF Liquidation!Accept, Liquidation!calls
    <3>2. CASE p # o
      BY <1>2, <2>2, <3>2 DEF Liquidation!Accept, Liquidation!calls
    <3>. QED BY <3>1, <3>2
  <2>. QED BY <2>1, <2>2
<1>3. CASE Liquidation!Fill(o)
  <2>1. AccountTyped'
    BY <1>3 DEF Liquidation!Fill, Liquidation!calls
  <2>2. ASSUME NEW p \in Order, rest'[p] > 0 PROVE rest[p] > 0
    BY <1>3, <2>2 DEF Liquidation!Fill
  <2>. QED BY <1>3, <2>1, <2>2 DEF Liquidation!Fill, Liquidation!calls
<1>. QED BY <1>1, <1>2, <1>3

\* The steps of a call: what leaves its list is cancelled or missed.
LEMMA CallStepAccounted ==
  ASSUME OpenIInv, NEW r \in Run, Liquidation!Liquidate(r)
  PROVE  OpenIInv'
<1>. USE DEF OpenIInv, AccountTyped, OpenInv, Accounted
<1>1. CASE Liquidation!FindPending(r)
  <2>1. AccountTyped'
    BY <1>1 DEF Liquidation!FindPending, Liquidation!Move, Liquidation!broker, Liquidation!Stage
  <2>2. ASSUME NEW q \in Run, NEW p \in Order, phase'[q] # "idle", rest'[p] > 0
        PROVE  Accounted(q, p)'
    <3>1. CASE q = r
      <4>1. CASE status[p] = "SUBMITTED" /\ placing[p] = "placed"
        <5>1. p \in todo'[r] /\ p \in numbers'[r]
          BY <1>1, <4>1 DEF Liquidation!FindPending
        <5>2. phase'[r] = "cancelling"
          BY <1>1 DEF Liquidation!FindPending, Liquidation!Move
        <5>. QED BY <3>1, <5>1, <5>2
      <4>2. CASE ~(status[p] = "SUBMITTED" /\ placing[p] = "placed")
        <5>1. rest[p] > 0
          BY <1>1, <2>2 DEF Liquidation!FindPending, Liquidation!broker
        <5>2. p \in missed'[r]
          BY <1>1, <4>2, <5>1 DEF Liquidation!FindPending
        <5>. QED BY <3>1, <5>2
      <4>. QED BY <4>1, <4>2
    <3>2. CASE q # r
      BY <1>1, <2>2, <3>2 DEF Liquidation!FindPending, Liquidation!Move, Liquidation!broker
    <3>. QED BY <3>1, <3>2
  <2>. QED BY <2>1, <2>2
<1>2. CASE Liquidation!RowCancelled(r)
  BY <1>2 DEF Liquidation!RowCancelled, Liquidation!broker
<1>3. CASE Liquidation!GetHoldings(r)
  <2>1. AccountTyped' /\ rest' = rest /\ missed' = missed /\ todo' = todo /\ numbers' = numbers
    BY <1>3 DEF Liquidation!GetHoldings, Liquidation!Move, Liquidation!broker, Liquidation!Stage
  <2>2. ASSUME NEW q \in Run, NEW p \in Order, phase'[q] # "idle", rest'[p] > 0
        PROVE  Accounted(q, p)'
    <3>1. CASE q = r
      BY <1>3, <2>1, <2>2, <3>1 DEF Liquidation!GetHoldings
    <3>2. CASE q # r
      BY <1>3, <2>1, <2>2, <3>2 DEF Liquidation!GetHoldings, Liquidation!Move
    <3>. QED BY <3>1, <3>2
  <2>. QED BY <2>1, <2>2
<1>4. CASE Liquidation!Finish(r)
  BY <1>4 DEF Liquidation!Finish, Liquidation!Move, Liquidation!broker, Liquidation!Stage
<1>5. CASE \E o \in Order : Liquidation!Cancel(r, o)
  <2>. PICK o \in Order : Liquidation!Cancel(r, o)
    BY <1>5
  <2>. PICK gone \in BOOLEAN :
         /\ rest' = [rest EXCEPT ![o] = IF gone THEN 0 ELSE @]
         /\ missed' = [missed EXCEPT ![r] = IF rest[o] > 0 /\ ~gone THEN @ \cup {o} ELSE @]
    BY DEF Liquidation!Cancel
  <2>1. /\ todo' = [todo EXCEPT ![r] = @ \ {o}]
        /\ phase' = phase /\ numbers' = numbers
    BY DEF Liquidation!Cancel
  <2>2. AccountTyped'
    BY <2>1
  <2>3. ASSUME NEW q \in Run, NEW p \in Order, phase'[q] # "idle", rest'[p] > 0
        PROVE  Accounted(q, p)'
    <3>1. rest[p] > 0 /\ Accounted(q, p) /\ (p = o => ~gone)
      BY <2>1, <2>3
    <3>2. CASE p = o /\ q = r
      BY <3>1, <3>2
    <3>3. CASE p # o \/ q # r
      BY <2>1, <3>1, <3>3
    <3>. QED BY <3>2, <3>3
  <2>. QED BY <2>2, <2>3
<1>6. CASE \E s \in Stock : Liquidation!Sell(r, s)
  BY <1>6 DEF Liquidation!Sell
<1>. QED BY <1>1, <1>2, <1>3, <1>4, <1>5, <1>6 DEF Liquidation!Liquidate

\* Every step keeps every open order accounted for.
LEMMA NextAccounted == OpenIInv /\ [Liquidation!Next]_Liquidation!vars => OpenIInv'
<1> SUFFICES ASSUME OpenIInv, [Liquidation!Next]_Liquidation!vars PROVE OpenIInv'
  OBVIOUS
<1>1. CASE \E o \in Order : Liquidation!Execute(o) \/ Liquidation!Accept(o) \/ Liquidation!Record(o) \/ Liquidation!Fill(o) \/ Liquidation!Notice(o)
  BY <1>1, OrderStepAccounted
<1>2. CASE \E s \in Stock : Liquidation!SaleFills(s)
  BY <1>2 DEF Liquidation!SaleFills, Liquidation!calls, OpenIInv, AccountTyped, OpenInv, Accounted
<1>3. CASE \E r \in Run : Liquidation!Liquidate(r)
  BY <1>3, CallStepAccounted
<1>4. CASE UNCHANGED Liquidation!vars
  BY <1>4 DEF Liquidation!vars, Liquidation!broker, Liquidation!calls, OpenIInv, AccountTyped, OpenInv, Accounted
<1>. QED BY <1>1, <1>2, <1>3, <1>4 DEF Liquidation!Next

\* For any calls and orders: a liquidation that says it succeeded has left open
\* only what it could not see or what it was told and did not read.
THEOREM NoOpenOrderIsLeft == Liquidation!Spec => []NothingLeftOpen
<1>1. OpenIInv => NothingLeftOpen
  BY DEF OpenIInv, OpenInv, Accounted, NothingLeftOpen, Liquidation!NothingLeftOpen, Liquidation!Succeeded
<1>. QED BY <1>1, InitAccounted, NextAccounted, PTL DEF Liquidation!Spec

-----------------------------------------------------------------------------
\* What a call that has looked at the account still has to sell, has in sale or
\* has missed makes up for all that is held.
SaleTyped ==
  /\ order \in [Order -> [side : {"BUY", "SELL"}, stock : Stock]]
  /\ placing \in [Order -> {"new", "sending", "sent", "placed"}]
  /\ rest \in [Order -> 0..MaxShares]
  /\ holding \in [Stock -> Int] /\ selling \in [Stock -> Nat]
  /\ toSell \in [Run -> [Stock -> Int]]
  /\ failed \in [Run -> BOOLEAN] /\ blind \subseteq Run

\* An order that is not yet at the broker is not open, and nobody missed it.
NotYetOpen ==
  \A o \in Order : placing[o] \in {"new", "sending"} =>
    rest[o] = 0 /\ \A r \in Run : o \notin missed[r]

Sees(r) == phase[r] \in {"selling", "done"} /\ ~failed[r] /\ r \notin blind

Sold(r, s) ==
  /\ holding[s] <= selling[s] + toSell[r][s] + Cardinality(Liquidation!Bought(r, s))
  /\ phase[r] = "done" => toSell[r][s] = 0

SoldInv == \A r \in Run, s \in Stock : Sees(r) => Sold(r, s)

SaleIInv == OpenIInv /\ SaleTyped /\ NotYetOpen /\ SoldInv

\* Sets of shares are finite, and a larger one has more of them.
LEMMA SharesAreFinite ==
  ASSUME NEW B \in SUBSET (Order \X (1..MaxShares))
  PROVE  IsFiniteSet(B) /\ Cardinality(B) \in Nat
<1>0. IsFiniteSet(Order) /\ MaxShares \in Nat
  BY LiquidationAssumption DEF Liquidation!Limits, IsFiniteSet, Liquidation!IsFiniteSet
<1>1. IsFiniteSet(1..MaxShares)
  BY <1>0, FS_Interval
<1>2. IsFiniteSet(Order \X (1..MaxShares))
  BY <1>0, <1>1, FS_Product
<1>3. IsFiniteSet(B)
  BY <1>2, FS_Subset
<1> QED BY <1>3, FS_CardinalityType

LEMMA MoreShares ==
  ASSUME NEW B, NEW C \in SUBSET (Order \X (1..MaxShares)), B \subseteq C
  PROVE  /\ Cardinality(B) <= Cardinality(C)
         /\ \A p \in C \ B : Cardinality(B) + 1 <= Cardinality(C)
<1>1. IsFiniteSet(B) /\ IsFiniteSet(C) /\ Cardinality(B) \in Nat /\ Cardinality(C) \in Nat
  BY SharesAreFinite
<1>2. Cardinality(B) <= Cardinality(C)
  BY <1>1, FS_Subset
<1>3. ASSUME NEW p \in C \ B PROVE Cardinality(B) + 1 <= Cardinality(C)
  <2>1. Cardinality(B) # Cardinality(C)
    BY <1>1, <1>3, FS_Subset
  <2> QED BY <1>1, <1>2, <2>1
<1> QED BY <1>2, <1>3

\* Shares bought stay bought as long as nothing missed is opened again.
LEMMA BoughtGrows ==
  ASSUME OpenIInv, SaleTyped, OpenIInv', SaleTyped', NEW r \in Run, NEW s \in Stock,
         order' = order, missed[r] \subseteq missed'[r],
         \A o \in missed[r] : rest'[o] <= rest[o]
  PROVE  /\ Liquidation!Bought(r, s) \subseteq Liquidation!Bought(r, s)'
         /\ Liquidation!Bought(r, s) \in SUBSET (Order \X (1..MaxShares))
         /\ Liquidation!Bought(r, s)' \in SUBSET (Order \X (1..MaxShares))
<1>1. missed[r] \subseteq Order /\ missed'[r] \subseteq Order /\ rest \in [Order -> Int] /\ rest' \in [Order -> Int]
  BY DEF OpenIInv, AccountTyped
<1>2. ASSUME NEW p \in Liquidation!Bought(r, s) PROVE p \in Liquidation!Bought(r, s)'
  <2>1. /\ p \in missed[r] \X (1..MaxShares)
        /\ order[p[1]] = [side |-> "BUY", stock |-> s] /\ p[2] > rest[p[1]]
    BY <1>2 DEF Liquidation!Bought
  <2>2. p[1] \in missed[r] /\ p[2] \in Int /\ p \in missed'[r] \X (1..MaxShares)
    BY <2>1
  <2>3. rest'[p[1]] <= rest[p[1]] /\ rest[p[1]] \in Int /\ rest'[p[1]] \in Int
    BY <1>1, <2>2
  <2>4. p[2] > rest'[p[1]]
    BY <2>1, <2>2, <2>3
  <2> QED BY <2>1, <2>2, <2>4 DEF Liquidation!Bought
<1> QED BY <1>1, <1>2 DEF Liquidation!Bought

\* What a step has to leave alone for a call to stay as good as it was.
LEMMA StillSold ==
  ASSUME SaleIInv, OpenIInv', SaleTyped', NEW r \in Run, NEW s \in Stock, Sees(r),
         toSell'[r][s] = toSell[r][s], phase'[r] = "done" => toSell'[r][s] = 0,
         holding'[s] - selling'[s] <= holding[s] - selling[s],
         order' = order, missed[r] \subseteq missed'[r],
         \A o \in missed[r] : rest'[o] <= rest[o]
  PROVE  Sold(r, s)'
<1>1. Cardinality(Liquidation!Bought(r, s)) <= Cardinality(Liquidation!Bought(r, s)')
  BY BoughtGrows, MoreShares DEF SaleIInv
<1>2. /\ Cardinality(Liquidation!Bought(r, s)) \in Nat
      /\ Cardinality(Liquidation!Bought(r, s)') \in Nat
  BY BoughtGrows, SharesAreFinite DEF SaleIInv
<1>3. /\ holding[s] \in Int /\ holding'[s] \in Int /\ selling[s] \in Int /\ selling'[s] \in Int
      /\ toSell[r][s] \in Int
  BY DEF SaleIInv, SaleTyped
<1>4. holding[s] <= selling[s] + toSell[r][s] + Cardinality(Liquidation!Bought(r, s))
  BY DEF SaleIInv, SoldInv, Sold
<1>5. holding'[s] <= selling'[s] + toSell'[r][s] + Cardinality(Liquidation!Bought(r, s)')
  BY <1>1, <1>2, <1>3, <1>4
<1> QED BY <1>5 DEF Sold

\* Before the calls begin, none has looked.
LEMMA InitSold == Liquidation!Init => SaleIInv
<1> SUFFICES ASSUME Liquidation!Init PROVE SaleIInv
  OBVIOUS
<1>1. SaleTyped
  BY LiquidationAssumption DEF Liquidation!Limits, Liquidation!Init, SaleTyped
<1>2. NotYetOpen /\ SoldInv
  BY DEF Liquidation!Init, NotYetOpen, SoldInv, Sees
<1> QED BY <1>1, <1>2, InitAccounted DEF SaleIInv

\* The steps of orders: a missed order that fills adds a share bought to what is held.
LEMMA OrderStepSold ==
  ASSUME SaleIInv, NEW o \in Order,
         Liquidation!Execute(o) \/ Liquidation!Accept(o) \/ Liquidation!Record(o)
           \/ Liquidation!Fill(o) \/ Liquidation!Notice(o)
  PROVE  SaleIInv'
<1>0. OpenIInv'
  BY OrderStepAccounted DEF SaleIInv
<1>1. /\ order' = order /\ phase' = phase /\ toSell' = toSell /\ failed' = failed /\ blind' = blind
      /\ selling' = selling
  BY DEF Liquidation!Execute, Liquidation!Accept, Liquidation!Record, Liquidation!Fill,
         Liquidation!Notice, Liquidation!broker, Liquidation!calls
<1>2. CASE Liquidation!Execute(o) \/ Liquidation!Record(o) \/ Liquidation!Notice(o)
  <2>1. rest' = rest /\ holding' = holding /\ missed' = missed
    BY <1>2 DEF Liquidation!Execute, Liquidation!Record, Liquidation!Notice, Liquidation!broker
  <2>2. /\ placing' \in [Order -> {"new", "sending", "sent", "placed"}]
        /\ \A p \in Order : placing'[p] \in {"new", "sending"} => placing[p] \in {"new", "sending"}
    BY <1>2 DEF Liquidation!Execute, Liquidation!Record, Liquidation!Notice, SaleIInv, SaleTyped
  <2>3. SaleTyped' /\ NotYetOpen'
    BY <1>1, <2>1, <2>2 DEF SaleIInv, SaleTyped, NotYetOpen
  <2>4. SoldInv'
    BY <1>1, <2>1 DEF SaleIInv, SoldInv, Sold, Sees, Liquidation!Bought
  <2> QED BY <1>0, <2>3, <2>4 DEF SaleIInv
<1>3. CASE Liquidation!Accept(o)
  <2>1. /\ placing[o] = "sending" /\ placing' = [placing EXCEPT ![o] = "sent"]
        /\ rest' = [rest EXCEPT ![o] = MaxShares] /\ holding' = holding
        /\ missed' = [r \in Run |-> IF phase[r] = "idle" THEN missed[r] ELSE missed[r] \cup {o}]
    BY <1>3 DEF Liquidation!Accept
  <2>2. MaxShares \in 0..MaxShares
    BY LiquidationAssumption DEF Liquidation!Limits
  <2>3. SaleTyped' /\ NotYetOpen'
    BY <1>1, <2>1, <2>2 DEF SaleIInv, SaleTyped, NotYetOpen
  <2>4. ASSUME NEW r \in Run, NEW s \in Stock, Sees(r)' PROVE Sold(r, s)'
    <3>1. Sees(r) /\ Sold(r, s)
      BY <1>1, <2>4 DEF Sees, SaleIInv, SoldInv
    <3>2. o \notin missed[r]
      BY <2>1 DEF SaleIInv, NotYetOpen
    <3>3. \A p \in missed[r] : p \in Order /\ rest'[p] <= rest[p]
      BY <2>1, <3>2 DEF SaleIInv, SaleTyped, OpenIInv, AccountTyped
    <3>4. missed[r] \subseteq missed'[r]
      BY <2>1
    <3>5. holding'[s] - selling'[s] <= holding[s] - selling[s]
      BY <1>1, <2>1 DEF SaleIInv, SaleTyped
    <3> QED BY <1>0, <1>1, <2>3, <3>1, <3>3, <3>4, <3>5, StillSold DEF Sold
  <2> QED BY <1>0, <2>3, <2>4 DEF SaleIInv, SoldInv
<1>4. CASE Liquidation!Fill(o)
  <2>1. /\ rest[o] > 0 /\ rest' = [rest EXCEPT ![o] = @ - 1]
        /\ holding' = [holding EXCEPT ![order[o].stock] = IF order[o].side = "BUY" THEN @ + 1 ELSE @ - 1]
        /\ missed' = missed /\ placing' = placing
    BY <1>4 DEF Liquidation!Fill, Liquidation!calls
  <2>2. order[o].stock \in Stock /\ rest[o] \in 0..MaxShares /\ MaxShares \in Nat
    BY LiquidationAssumption DEF SaleIInv, SaleTyped, Liquidation!Limits
  <2>3. rest' \in [Order -> 0..MaxShares] /\ holding' \in [Stock -> Int]
    BY <2>1, <2>2 DEF SaleIInv, SaleTyped
  <2>4. SaleTyped' /\ NotYetOpen'
    BY <1>1, <2>1, <2>2, <2>3 DEF SaleIInv, SaleTyped, NotYetOpen
  <2>5. ASSUME NEW r \in Run, NEW s \in Stock, Sees(r)' PROVE Sold(r, s)'
    <3>1. Sees(r) /\ Sold(r, s)
      BY <1>1, <2>5 DEF Sees, SaleIInv, SoldInv
    <3>2. \A p \in missed[r] : p \in Order /\ rest'[p] <= rest[p]
      BY <2>1, <2>2 DEF SaleIInv, SaleTyped, OpenIInv, AccountTyped
    <3>3. holding[s] \in Int /\ selling[s] \in Int /\ toSell[r][s] \in Int
      BY DEF SaleIInv, SaleTyped
    <3>4. CASE order[o] = [side |-> "BUY", stock |-> s]
      <4>1. o \in missed[r]
        BY <2>1, <3>1 DEF SaleIInv, OpenIInv, OpenInv, Accounted, Sees
      <4> DEFINE B == Liquidation!Bought(r, s)
                 C == Liquidation!Bought(r, s)'
      <4>2. B \subseteq C /\ B \in SUBSET (Order \X (1..MaxShares)) /\ C \in SUBSET (Order \X (1..MaxShares))
        BY <1>0, <1>1, <2>1, <2>4, <3>2, BoughtGrows DEF SaleIInv
      <4>3. <<o, rest[o]>> \notin B
        BY DEF Liquidation!Bought
      <4>4. <<o, rest[o]>> \in C
        <5>1. rest'[o] = rest[o] - 1 /\ rest[o] \in 1..MaxShares
          BY <2>1, <2>2 DEF SaleIInv, SaleTyped
        <5>2. rest[o] > rest'[o] /\ order'[o] = [side |-> "BUY", stock |-> s] /\ o \in missed'[r]
          BY <1>1, <2>1, <3>4, <4>1, <5>1
        <5> QED BY <5>1, <5>2 DEF Liquidation!Bought
      <4> HIDE DEF B, C
      <4>5. Cardinality(B) + 1 <= Cardinality(C) /\ Cardinality(B) \in Nat /\ Cardinality(C) \in Nat
        BY <4>2, <4>3, <4>4, MoreShares, SharesAreFinite
      <4>6. holding'[s] = holding[s] + 1
        BY <2>1, <3>4 DEF SaleIInv, SaleTyped
      <4>7. holding[s] <= selling[s] + toSell[r][s] + Cardinality(B)
        BY <3>1 DEF Sold, B
      <4>8. holding'[s] <= selling'[s] + toSell'[r][s] + Cardinality(C)
        BY <1>1, <3>3, <4>5, <4>6, <4>7
      <4> QED BY <1>1, <3>1, <4>8 DEF Sold, C
    <3>5. CASE order[o] # [side |-> "BUY", stock |-> s]
      <4>1. order[o].side # "BUY" \/ order[o].stock # s
        BY <3>5 DEF SaleIInv, SaleTyped
      <4>2. holding'[s] <= holding[s] /\ holding'[s] \in Int
        BY <2>1, <2>2, <3>3, <4>1 DEF SaleIInv, SaleTyped
      <4>3. holding'[s] - selling'[s] <= holding[s] - selling[s]
        BY <1>1, <3>3, <4>2
      <4> QED BY <1>0, <1>1, <2>1, <2>4, <3>1, <3>2, <4>3, StillSold DEF Sold
    <3> QED BY <3>4, <3>5
  <2> QED BY <1>0, <2>4, <2>5 DEF SaleIInv, SoldInv
<1> QED BY <1>2, <1>3, <1>4

\* The steps of a call: it looks at all that is held, and what it sells is in sale.
LEMMA CallStepSold ==
  ASSUME SaleIInv, NEW r \in Run, Liquidation!Liquidate(r)
  PROVE  SaleIInv'
<1>0. OpenIInv'
  BY CallStepAccounted DEF SaleIInv
<1>1. order' = order /\ placing' = placing /\ holding' = holding
  BY DEF Liquidation!Liquidate, Liquidation!FindPending, Liquidation!RowCancelled, Liquidation!GetHoldings,
         Liquidation!Finish, Liquidation!Cancel, Liquidation!Sell, Liquidation!broker
<1>2. phase \in [Run -> Liquidation!Stage] /\ missed \in [Run -> SUBSET Order]
  BY DEF SaleIInv, OpenIInv, AccountTyped
<1>3. SaleTyped
  BY DEF SaleIInv
<1>4. CASE Liquidation!FindPending(r)
  <2>1. /\ phase[r] = "idle" /\ phase' = [phase EXCEPT ![r] = "cancelling"]
        /\ missed' = [missed EXCEPT ![r] =
             {o \in Order : rest[o] > 0 /\ (status[o] # "SUBMITTED" \/ placing[o] # "placed")}]
        /\ rest' = rest /\ selling' = selling /\ toSell' = toSell /\ failed' = failed /\ blind' = blind
    BY <1>4 DEF Liquidation!FindPending, Liquidation!Move, Liquidation!broker
  <2>2. SaleTyped'
    BY <1>1, <1>3, <2>1 DEF SaleTyped
  <2>3. NotYetOpen'
    <3>1. ASSUME NEW o \in Order, placing[o] \in {"new", "sending"}, NEW q \in Run PROVE o \notin missed'[q]
      <4>1. rest[o] = 0 /\ o \notin missed[q]
        BY <3>1 DEF SaleIInv, NotYetOpen
      <4> QED BY <1>2, <2>1, <4>1
    <3> QED BY <1>1, <2>1, <3>1 DEF SaleIInv, NotYetOpen
  <2>4. ASSUME NEW q \in Run, NEW s \in Stock, Sees(q)' PROVE Sold(q, s)'
    <3>1. q # r /\ missed'[q] = missed[q] /\ Sees(q) /\ phase'[q] = phase[q]
      BY <1>2, <2>1, <2>4 DEF Sees
    <3>2. Sold(q, s)
      BY <3>1 DEF SaleIInv, SoldInv
    <3> QED BY <1>1, <2>1, <3>1, <3>2 DEF Sold, Liquidation!Bought
  <2> QED BY <1>0, <2>2, <2>3, <2>4 DEF SaleIInv, SoldInv
<1>5. CASE Liquidation!RowCancelled(r)
  <2>1. /\ rest' = rest /\ selling' = selling /\ toSell' = toSell /\ blind' = blind
        /\ phase' = phase /\ missed' = missed
        /\ failed' = failed \/ failed' = [failed EXCEPT ![r] = TRUE]
    BY <1>5 DEF Liquidation!RowCancelled, Liquidation!broker
  <2>2. failed' \in [Run -> BOOLEAN] /\ \A q \in Run : failed[q] => failed'[q]
    BY <1>3, <2>1 DEF SaleTyped
  <2>3. SaleTyped' /\ NotYetOpen'
    BY <1>1, <1>3, <2>1, <2>2 DEF SaleIInv, SaleTyped, NotYetOpen
  <2>4. ASSUME NEW q \in Run, NEW s \in Stock, Sees(q)' PROVE Sold(q, s)'
    <3>1. Sees(q)
      BY <2>1, <2>2, <2>4 DEF Sees
    <3> QED BY <1>1, <2>1, <3>1 DEF SaleIInv, SoldInv, Sold, Liquidation!Bought
  <2> QED BY <1>0, <2>3, <2>4 DEF SaleIInv, SoldInv
<1>6. CASE Liquidation!GetHoldings(r)
  <2>1. /\ phase[r] = "cancelling" /\ rest' = rest /\ selling' = selling /\ missed' = missed
        /\ \/ /\ toSell' = [toSell EXCEPT ![r] = holding] /\ phase' = [phase EXCEPT ![r] = "selling"]
              /\ failed' = failed /\ blind' = blind
           \/ /\ blind' = blind \cup {r} /\ phase' = [phase EXCEPT ![r] = "selling"]
              /\ toSell' = toSell /\ failed' = failed
           \/ /\ failed' = [failed EXCEPT ![r] = TRUE] /\ phase' = [phase EXCEPT ![r] = "done"]
              /\ toSell' = toSell /\ blind' = blind
    BY <1>6 DEF Liquidation!GetHoldings, Liquidation!Move, Liquidation!broker
  <2>2. SaleTyped'
    BY <1>1, <1>3, <2>1 DEF SaleTyped
  <2>3. NotYetOpen'
    BY <1>1, <2>1 DEF SaleIInv, NotYetOpen
  <2>4. ASSUME NEW q \in Run, NEW s \in Stock, Sees(q)' PROVE Sold(q, s)'
    <3>1. CASE q = r
      <4>1. toSell' = [toSell EXCEPT ![r] = holding] /\ phase'[r] = "selling"
        BY <1>2, <1>3, <2>1, <2>4, <3>1 DEF Sees, SaleTyped
      <4>2. toSell'[r][s] = holding[s] /\ holding[s] \in Int /\ selling[s] \in Nat
        BY <1>3, <4>1 DEF SaleTyped
      <4>3. Liquidation!Bought(r, s)' \in SUBSET (Order \X (1..MaxShares))
        BY <1>0 DEF Liquidation!Bought, OpenIInv, AccountTyped
      <4>4. Cardinality(Liquidation!Bought(r, s)') \in Nat
        BY <4>3, SharesAreFinite
      <4>5. holding'[s] <= selling'[s] + toSell'[r][s] + Cardinality(Liquidation!Bought(r, s)')
        BY <1>1, <2>1, <4>2, <4>4
      <4> QED BY <3>1, <4>1, <4>5 DEF Sold
    <3>2. CASE q # r
      <4>1. Sees(q) /\ toSell'[q] = toSell[q] /\ phase'[q] = phase[q]
        BY <1>2, <1>3, <2>1, <2>4, <3>2 DEF Sees, SaleTyped
      <4> QED BY <1>1, <2>1, <4>1 DEF SaleIInv, SoldInv, Sold, Liquidation!Bought
    <3> QED BY <3>1, <3>2
  <2> QED BY <1>0, <2>2, <2>3, <2>4 DEF SaleIInv, SoldInv
<1>7. CASE Liquidation!Finish(r)
  <2>1. /\ phase[r] = "selling" /\ \A s \in Stock : toSell[r][s] = 0
        /\ phase' = [phase EXCEPT ![r] = "done"]
        /\ rest' = rest /\ selling' = selling /\ toSell' = toSell /\ blind' = blind /\ failed' = failed
        /\ missed' = missed
    BY <1>7 DEF Liquidation!Finish, Liquidation!Move, Liquidation!broker
  <2>2. SaleTyped' /\ NotYetOpen'
    BY <1>1, <1>3, <2>1 DEF SaleIInv, SaleTyped, NotYetOpen
  <2>3. ASSUME NEW q \in Run, NEW s \in Stock, Sees(q)' PROVE Sold(q, s)'
    <3>1. Sees(q) /\ (phase'[q] = "done" => toSell[q][s] = 0 \/ phase[q] = "done")
      BY <1>2, <2>1, <2>3 DEF Sees
    <3> QED BY <1>1, <2>1, <3>1 DEF SaleIInv, SoldInv, Sold, Liquidation!Bought
  <2> QED BY <1>0, <2>2, <2>3 DEF SaleIInv, SoldInv
<1>8. CASE \E o \in Order : Liquidation!Cancel(r, o)
  <2> PICK o \in Order : Liquidation!Cancel(r, o)
    BY <1>8
  <2> PICK gone \in BOOLEAN, throws \in BOOLEAN :
         /\ rest' = [rest EXCEPT ![o] = IF gone THEN 0 ELSE @]
         /\ missed' = [missed EXCEPT ![r] = IF rest[o] > 0 /\ ~gone THEN @ \cup {o} ELSE @]
         /\ failed' = [failed EXCEPT ![r] = @ \/ throws]
    BY DEF Liquidation!Cancel
  <2>1. /\ phase[r] = "cancelling" /\ phase' = phase /\ selling' = selling /\ toSell' = toSell /\ blind' = blind
    BY DEF Liquidation!Cancel
  <2>2. 0 \in 0..MaxShares
    BY LiquidationAssumption DEF Liquidation!Limits
  <2>3. SaleTyped'
    BY <1>1, <1>3, <2>1, <2>2 DEF SaleTyped
  <2>4. NotYetOpen'
    <3>1. ASSUME NEW p \in Order, placing[p] \in {"new", "sending"}
          PROVE  rest'[p] = 0 /\ \A q \in Run : p \notin missed'[q]
      <4>1. rest[p] = 0 /\ \A q \in Run : p \notin missed[q]
        BY <3>1 DEF SaleIInv, NotYetOpen
      <4> QED BY <1>2, <1>3, <4>1 DEF SaleTyped
    <3> QED BY <1>1, <3>1 DEF NotYetOpen
  <2>5. ASSUME NEW q \in Run, NEW s \in Stock, Sees(q)' PROVE Sold(q, s)'
    <3>1. Sees(q) /\ q # r
      BY <1>3, <2>1, <2>5 DEF Sees, SaleTyped
    <3>2. Sold(q, s) /\ missed'[q] = missed[q]
      BY <1>2, <3>1 DEF SaleIInv, SoldInv
    <3>3. \A p \in missed[q] : p \in Order /\ rest'[p] <= rest[p]
      BY <1>2, <1>3, <2>2 DEF SaleTyped
    <3>4. holding'[s] - selling'[s] <= holding[s] - selling[s]
      BY <1>1, <1>3, <2>1 DEF SaleTyped
    <3> QED BY <1>0, <1>1, <2>1, <2>3, <3>1, <3>2, <3>3, <3>4, StillSold DEF Sold
  <2> QED BY <1>0, <2>3, <2>4, <2>5 DEF SaleIInv, SoldInv
<1>9. CASE \E s \in Stock : Liquidation!Sell(r, s)
  <2> PICK s \in Stock : Liquidation!Sell(r, s)
    BY <1>9
  <2> PICK accepted \in BOOLEAN, throws \in BOOLEAN :
         /\ selling' = [selling EXCEPT ![s] = IF accepted THEN @ + toSell[r][s] ELSE @]
         /\ failed' = [failed EXCEPT ![r] = @ \/ throws \/ ~accepted]
    BY DEF Liquidation!Sell
  <2>1. /\ phase[r] = "selling" /\ toSell[r][s] > 0 /\ toSell' = [toSell EXCEPT ![r][s] = 0]
        /\ phase' = phase /\ rest' = rest /\ missed' = missed /\ blind' = blind
    BY DEF Liquidation!Sell
  <2>2. toSell[r][s] \in Int /\ selling[s] \in Nat
    BY <1>3 DEF SaleTyped
  <2>3. selling' \in [Stock -> Nat] /\ toSell' \in [Run -> [Stock -> Int]] /\ failed' \in [Run -> BOOLEAN]
    BY <1>3, <2>1, <2>2 DEF SaleTyped
  <2>4. SaleTyped' /\ NotYetOpen'
    BY <1>1, <1>3, <2>1, <2>3 DEF SaleIInv, SaleTyped, NotYetOpen
  <2>5. ASSUME NEW q \in Run, NEW t \in Stock, Sees(q)' PROVE Sold(q, t)'
    <3>1. Sees(q) /\ (q = r => accepted)
      BY <1>3, <2>1, <2>5 DEF Sees, SaleTyped
    <3>2. Sold(q, t)
      BY <3>1 DEF SaleIInv, SoldInv
    <3>3. /\ Liquidation!Bought(q, t)' = Liquidation!Bought(q, t)
          /\ Liquidation!Bought(q, t) \in SUBSET (Order \X (1..MaxShares))
      BY <1>1, <1>2, <2>1 DEF Liquidation!Bought
    <3>4. Cardinality(Liquidation!Bought(q, t)) \in Nat
      BY <3>3, SharesAreFinite
    <3>5. /\ holding[t] \in Int /\ selling[t] \in Int /\ toSell[q][t] \in Int
          /\ selling'[t] \in Int /\ toSell'[q][t] \in Int
      BY <1>3, <2>4 DEF SaleTyped
    <3>6. selling'[t] + toSell'[q][t] >= selling[t] + toSell[q][t]
      <4>1. CASE q = r /\ t = s
        BY <1>3, <2>1, <2>2, <3>1, <4>1 DEF SaleTyped
      <4>2. CASE ~(q = r /\ t = s)
        <5>1. toSell'[q][t] = toSell[q][t]
          BY <1>3, <2>1, <4>2 DEF SaleTyped
        <5>2. selling'[t] >= selling[t]
          BY <1>3, <2>1, <2>2 DEF SaleTyped
        <5> QED BY <3>5, <5>1, <5>2
      <4> QED BY <4>1, <4>2
    <3>7. holding[t] <= selling[t] + toSell[q][t] + Cardinality(Liquidation!Bought(q, t))
      BY <3>2 DEF Sold
    <3>8. holding'[t] <= selling'[t] + toSell'[q][t] + Cardinality(Liquidation!Bought(q, t))
      BY <1>1, <3>4, <3>5, <3>6, <3>7
    <3>9. phase'[q] = "done" => toSell'[q][t] = 0
      BY <1>3, <2>1, <3>2 DEF Sold, SaleTyped
    <3> QED BY <3>3, <3>8, <3>9 DEF Sold
  <2> QED BY <1>0, <2>4, <2>5 DEF SaleIInv, SoldInv
<1> QED BY <1>4, <1>5, <1>6, <1>7, <1>8, <1>9 DEF Liquidation!Liquidate

\* Every step keeps what is held made up for.
LEMMA NextSold == SaleIInv /\ [Liquidation!Next]_Liquidation!vars => SaleIInv'
<1> SUFFICES ASSUME SaleIInv, [Liquidation!Next]_Liquidation!vars PROVE SaleIInv'
  OBVIOUS
<1>1. CASE \E o \in Order : \/ Liquidation!Execute(o) \/ Liquidation!Accept(o) \/ Liquidation!Record(o)
                            \/ Liquidation!Fill(o) \/ Liquidation!Notice(o)
  BY <1>1, OrderStepSold
<1>2. CASE \E s \in Stock : Liquidation!SaleFills(s)
  <2> PICK s \in Stock : Liquidation!SaleFills(s)
    BY <1>2
  <2>1. OpenIInv'
    BY NextAccounted DEF SaleIInv, Liquidation!Next
  <2>2. /\ selling[s] > 0 /\ selling' = [selling EXCEPT ![s] = @ - 1] /\ holding' = [holding EXCEPT ![s] = @ - 1]
        /\ order' = order /\ rest' = rest /\ placing' = placing /\ missed' = missed /\ blind' = blind
        /\ phase' = phase /\ toSell' = toSell /\ failed' = failed
    BY DEF Liquidation!SaleFills, Liquidation!calls
  <2>3. selling' \in [Stock -> Nat] /\ holding' \in [Stock -> Int]
    BY <2>2 DEF SaleIInv, SaleTyped
  <2>4. SaleTyped' /\ NotYetOpen'
    BY <2>2, <2>3 DEF SaleIInv, SaleTyped, NotYetOpen
  <2>5. ASSUME NEW q \in Run, NEW t \in Stock, Sees(q)' PROVE Sold(q, t)'
    <3>1. Sees(q) /\ Sold(q, t)
      BY <2>2, <2>5 DEF SaleIInv, SoldInv, Sees
    <3>2. holding'[t] - selling'[t] <= holding[t] - selling[t]
      BY <2>2, <2>3 DEF SaleIInv, SaleTyped
    <3>3. \A p \in missed[q] : rest'[p] <= rest[p]
      BY <2>2 DEF SaleIInv, SaleTyped, OpenIInv, AccountTyped
    <3> QED BY <2>1, <2>2, <2>4, <3>1, <3>2, <3>3, StillSold DEF Sold
  <2> QED BY <2>1, <2>4, <2>5 DEF SaleIInv, SoldInv
<1>3. CASE \E r \in Run : Liquidation!Liquidate(r)
  BY <1>3, CallStepSold
<1>4. CASE UNCHANGED Liquidation!vars
  <2>1. OpenIInv'
    BY <1>4, NextAccounted DEF SaleIInv
  <2>2. /\ order' = order /\ placing' = placing /\ rest' = rest /\ holding' = holding /\ selling' = selling
        /\ phase' = phase /\ toSell' = toSell /\ failed' = failed /\ missed' = missed /\ blind' = blind
    BY <1>4 DEF Liquidation!vars, Liquidation!broker, Liquidation!calls
  <2>3. SaleTyped' /\ NotYetOpen'
    BY <2>2 DEF SaleIInv, SaleTyped, NotYetOpen
  <2>4. SoldInv'
    BY <2>2 DEF SaleIInv, SoldInv, Sees, Sold, Liquidation!Bought
  <2> QED BY <2>1, <2>3, <2>4 DEF SaleIInv
<1> QED BY <1>1, <1>2, <1>3, <1>4 DEF Liquidation!Next

\* For any calls and orders: every share that a liquidation which says it
\* succeeded has left in the account is in a sale, or was bought by an order it missed.
THEOREM NoShareIsLeft == Liquidation!Spec => []NothingLeftUnsold
<1>1. SaleIInv => NothingLeftUnsold
  <2> SUFFICES ASSUME SaleIInv, NEW r \in Run, NEW s \in Stock, Liquidation!Succeeded(r)
               PROVE  holding[s] <= selling[s] + Cardinality(Liquidation!Bought(r, s))
    BY DEF NothingLeftUnsold, Liquidation!NothingLeftUnsold, Cardinality, Liquidation!Cardinality,
           IsFiniteSet, Liquidation!IsFiniteSet
  <2>1. Sold(r, s) /\ phase[r] = "done"
    BY DEF SaleIInv, SoldInv, Sees, Liquidation!Succeeded
  <2>2. selling[s] \in Nat
    BY DEF SaleIInv, SaleTyped
  <2> QED BY <2>1, <2>2 DEF Sold
<1> QED BY <1>1, InitSold, NextSold, PTL DEF Liquidation!Spec

-----------------------------------------------------------------------------
\* The rows of the positions: what a call that nobody disturbs has done so far.
SyncTyped ==
  /\ account \in [BookStock -> Nat] /\ position \in [BookStock -> Int]
  /\ step \in [Writer -> {"idle", "fetched", "writing", "pruning"}]
  /\ kind \in [Writer -> {"kis", "manager", "broker", "add"}]
  /\ listed \in [Writer -> [BookStock -> Nat]]
  /\ known \in [Writer -> [BookStock -> {"unread", "none", "live", "stale"}]]
  /\ read \in [Writer -> Int]
  /\ rows \in [Writer -> SUBSET BookStock]
  /\ disturbed \subseteq Writer
  /\ faults \in Int

Undisturbed(w) == step[w] # "idle" /\ w \notin disturbed /\ kind[w] # "add"

Off(w)         == BookStock \ Book!Listed(w)
Copied(S)      == \A s \in S : position[s] = account[s]
Faithful(w, S) == \A s \in S : known[w][s] # "stale" /\ (known[w][s] = "none" => ~Book!Row(s))

Progress(w) ==
  /\ listed[w] = account
  /\ step[w] = "fetched" => kind[w] = "kis"
  /\ step[w] = "writing" =>
       /\ rows[w] \subseteq Book!Listed(w) /\ Faithful(w, rows[w])
       /\ Copied(Book!Listed(w) \ rows[w])
       /\ kind[w] = "kis" => \A s \in Off(w) : ~Book!Row(s)
  /\ step[w] = "pruning" =>
       /\ rows[w] \subseteq Off(w) /\ \A s \in rows[w] : known[w][s] = "live"
       /\ \A s \in Off(w) \ rows[w] : ~Book!Row(s)
       /\ IF kind[w] = "kis" THEN Faithful(w, Book!Listed(w)) ELSE Copied(Book!Listed(w))

SyncIInv ==
  /\ SyncTyped
  /\ \A w \in Writer : step[w] = "idle" => known[w] = Book!Unread
  /\ \A w \in Writer : Undisturbed(w) => Progress(w)

LEMMA InitSync == Book!Init => SyncIInv
<1> SUFFICES ASSUME Book!Init PROVE SyncIInv
  OBVIOUS
<1>1. SyncTyped
  BY BookAssumption DEF Book!Limits, Book!Init, Book!NoRow, Book!Nowhere, Book!Unread, SyncTyped
<1> QED BY <1>1 DEF Book!Init, SyncIInv, Undisturbed

\* A call is where it was when a step leaves the account, the rows and the call alone.
LEMMA Waits ==
  ASSUME SyncIInv, NEW w \in Writer, Undisturbed(w)', w \notin disturbed,
         account' = account, position' = position,
         step'[w] = step[w], kind'[w] = kind[w], listed'[w] = listed[w],
         known'[w] = known[w], rows'[w] = rows[w]
  PROVE  Progress(w)'
<1>1. Progress(w)
  BY DEF SyncIInv, Undisturbed
<1>2. Book!Listed(w)' = Book!Listed(w) /\ Off(w)' = Off(w)
  BY DEF Book!Listed, Off
<1> QED BY <1>1, <1>2 DEF Progress, Faithful, Copied, Book!Row, Book!NoRow

\* A change of the account disturbs every call that is under way.
LEMMA TradeSync ==
  ASSUME SyncIInv, NEW s \in BookStock, NEW q \in 0..BookShares, Book!Trade(s, q)
  PROVE  SyncIInv'
<1>1. /\ account' = [account EXCEPT ![s] = q] /\ disturbed' = disturbed \cup Book!Busy
      /\ position' = position /\ step' = step /\ kind' = kind /\ listed' = listed /\ known' = known
      /\ read' = read /\ rows' = rows /\ faults' = faults
  BY DEF Book!Trade, Book!calls
<1>2. SyncTyped'
  BY <1>1 DEF SyncIInv, SyncTyped, Book!Busy
<1> QED BY <1>1, <1>2 DEF SyncIInv, Undisturbed, Book!Busy, Book!Unread

\* The list a call is given is the account, or the call is disturbed from the start.
LEMMA StartSync ==
  ASSUME SyncIInv, NEW v \in Writer, NEW k \in {"kis", "manager", "broker"}, Book!Start(v, k)
  PROVE  SyncIInv'
<1>1. /\ step[v] = "idle" /\ kind' = [kind EXCEPT ![v] = k]
      /\ step' = [step EXCEPT ![v] = IF k = "kis" THEN "fetched" ELSE "writing"]
      /\ rows' = [rows EXCEPT ![v] = Book!Listed(v)']
      /\ account' = account /\ position' = position /\ known' = known /\ read' = read
  BY DEF Book!Start, Book!Goes
<1>2. \/ listed' = [listed EXCEPT ![v] = account] /\ disturbed' = disturbed \ {v} /\ faults' = faults
      \/ listed' = listed /\ disturbed' = disturbed \cup {v} /\ faults' = faults + 1
  BY DEF Book!Start, Book!Fault
<1>3. Book!Listed(v)' \subseteq BookStock
  BY DEF Book!Listed
<1>4. SyncTyped'
  BY <1>1, <1>2, <1>3 DEF SyncIInv, SyncTyped
<1>5. \A w \in Writer : step'[w] = "idle" => known'[w] = Book!Unread
  BY <1>1 DEF SyncIInv, SyncTyped, Book!Unread
<1>6. ASSUME NEW w \in Writer, Undisturbed(w)' PROVE Progress(w)'
  <2>1. CASE w = v
    <3>1. listed'[w] = account' /\ listed' = [listed EXCEPT ![v] = account]
      BY <1>1, <1>2, <1>6, <2>1 DEF Undisturbed, SyncIInv, SyncTyped
    <3>2. known'[w] = [s \in BookStock |-> "unread"]
      BY <1>1, <2>1 DEF SyncIInv, Book!Unread
    <3>3. /\ rows'[w] = Book!Listed(w)' /\ kind'[w] = k
          /\ step'[w] = IF k = "kis" THEN "fetched" ELSE "writing"
      BY <1>1, <2>1 DEF SyncIInv, SyncTyped
    <3>4. Faithful(w, rows[w])'
      BY <1>3, <2>1, <3>2, <3>3 DEF Faithful
    <3> QED BY <3>1, <3>3, <3>4 DEF Progress, Copied
  <2>2. CASE w # v
    <3>1. /\ w \notin disturbed /\ step'[w] = step[w] /\ kind'[w] = kind[w] /\ listed'[w] = listed[w]
          /\ known'[w] = known[w] /\ rows'[w] = rows[w]
      BY <1>1, <1>2, <1>6, <2>2 DEF Undisturbed, SyncIInv, SyncTyped
    <3> QED BY <1>1, <1>6, <3>1, Waits
  <2> QED BY <2>1, <2>2
<1> QED BY <1>4, <1>5, <1>6 DEF SyncIInv

\* Who adds by hand promises nothing.
LEMMA StartAddSync ==
  ASSUME SyncIInv, NEW v \in Writer, NEW s \in BookStock, Book!StartAdd(v, s)
  PROVE  SyncIInv'
<1>1. /\ step' = [step EXCEPT ![v] = "writing"] /\ kind' = [kind EXCEPT ![v] = "add"]
      /\ rows' = [rows EXCEPT ![v] = {s}]
      /\ account' = account /\ position' = position /\ listed' = listed /\ known' = known
      /\ read' = read /\ faults' = faults /\ disturbed' = disturbed
  BY DEF Book!StartAdd, Book!Goes
<1>2. SyncTyped'
  BY <1>1 DEF SyncIInv, SyncTyped
<1>3. \A w \in Writer : step'[w] = "idle" => known'[w] = Book!Unread
  BY <1>1 DEF SyncIInv, SyncTyped, Book!Unread
<1>4. ASSUME NEW w \in Writer, Undisturbed(w)' PROVE Progress(w)'
  <2>1. /\ w \notin disturbed /\ step'[w] = step[w] /\ kind'[w] = kind[w] /\ listed'[w] = listed[w]
        /\ known'[w] = known[w] /\ rows'[w] = rows[w]
    BY <1>1, <1>4 DEF Undisturbed, SyncIInv, SyncTyped
  <2> QED BY <1>1, <1>4, <2>1, Waits
<1> QED BY <1>2, <1>3, <1>4 DEF SyncIInv

\* The steps of a call: what it has written and deleted so far is right, and what
\* it writes or deletes disturbs the others.
LEMMA GoesOnSync ==
  ASSUME SyncIInv, NEW v \in Writer, Book!GoesOn(v)
  PROVE  SyncIInv'
<1>0. SyncTyped
  BY DEF SyncIInv
<1>1. CASE Book!FindRows(v)
  <2>1. /\ known' = [known EXCEPT ![v] = [s \in BookStock |-> IF Book!Row(s) THEN "live" ELSE "none"]]
        /\ step' = [step EXCEPT ![v] = "pruning"]
        /\ rows' = [rows EXCEPT ![v] = {s \in BookStock : Book!Row(s)} \ Book!Listed(v)]
        /\ account' = account /\ position' = position /\ kind' = kind /\ listed' = listed /\ read' = read
        /\ faults' = faults /\ disturbed' = disturbed
        /\ \/ kind[v] = "kis" /\ step[v] = "fetched"
           \/ kind[v] # "kis" /\ step[v] = "writing" /\ rows[v] = {}
    BY <1>1 DEF Book!FindRows, Book!Goes
  <2>2. SyncTyped'
    BY <1>0, <2>1 DEF SyncTyped
  <2>3. \A w \in Writer : step'[w] = "idle" => known'[w] = Book!Unread
    BY <1>0, <2>1 DEF SyncIInv, SyncTyped, Book!Unread
  <2>4. ASSUME NEW w \in Writer, Undisturbed(w)' PROVE Progress(w)'
    <3>1. CASE w = v
      <4>1. Progress(v)
        BY <2>1, <2>4, <3>1 DEF SyncIInv, Undisturbed
      <4>2. Book!Listed(v)' = Book!Listed(v) /\ Off(v)' = Off(v) /\ Book!Listed(v) \subseteq BookStock
        BY <2>1 DEF Book!Listed, Off
      <4>3. /\ step'[v] = "pruning" /\ rows'[v] = {s \in BookStock : Book!Row(s)} \ Book!Listed(v)
            /\ \A s \in BookStock : known'[v][s] = IF Book!Row(s) THEN "live" ELSE "none"
        BY <1>0, <2>1 DEF SyncTyped
      <4>4. \A s \in BookStock : Book!Row(s)' = Book!Row(s)
        BY <2>1 DEF Book!Row
      <4>5. rows'[v] \subseteq Off(v) /\ (\A s \in rows'[v] : known'[v][s] = "live")
            /\ \A s \in Off(v) \ rows'[v] : ~Book!Row(s)
        BY <4>3 DEF Off
      <4>6. CASE kind[v] = "kis"
        <5>1. Faithful(v, Book!Listed(v))'
          BY <4>2, <4>3, <4>4 DEF Faithful
        <5> QED BY <2>1, <3>1, <4>1, <4>2, <4>3, <4>4, <4>5, <4>6, <5>1 DEF Progress, Off
      <4>7. CASE kind[v] # "kis"
        <5>1. Copied(Book!Listed(v))'
          BY <2>1, <4>1, <4>2, <4>7 DEF Progress, Copied
        <5> QED BY <2>1, <3>1, <4>1, <4>2, <4>3, <4>4, <4>5, <4>7, <5>1 DEF Progress, Off
      <4> QED BY <4>6, <4>7
    <3>2. CASE w # v
      BY <1>0, <2>1, <2>4, <3>2, Waits DEF Undisturbed, SyncTyped
    <3> QED BY <3>1, <3>2
  <2> QED BY <2>2, <2>3, <2>4 DEF SyncIInv
<1>2. CASE Book!Throws(v) \/ Book!Done(v)
  <2>1. /\ step' = [step EXCEPT ![v] = "idle"] /\ rows' = [rows EXCEPT ![v] = {}]
        /\ listed' = [listed EXCEPT ![v] = Book!Nowhere] /\ known' = [known EXCEPT ![v] = Book!Unread]
        /\ read' = [read EXCEPT ![v] = 0] /\ kind' = [kind EXCEPT ![v] = "kis"]
        /\ account' = account /\ position' = position /\ disturbed' = disturbed
        /\ faults' = faults \/ faults' = faults + 1
    BY <1>2 DEF Book!Throws, Book!Done, Book!Ends, Book!Goes, Book!Fault
  <2>2. SyncTyped'
    BY <1>0, <2>1 DEF SyncTyped, Book!Nowhere, Book!Unread
  <2>3. \A w \in Writer : step'[w] = "idle" => known'[w] = Book!Unread
    BY <1>0, <2>1 DEF SyncIInv, SyncTyped, Book!Unread
  <2>4. ASSUME NEW w \in Writer, Undisturbed(w)' PROVE Progress(w)'
    <3>1. w # v
      BY <1>0, <2>1, <2>4 DEF Undisturbed, SyncTyped
    <3> QED BY <1>0, <2>1, <2>4, <3>1, Waits DEF Undisturbed, SyncTyped
  <2> QED BY <2>2, <2>3, <2>4 DEF SyncIInv
<1>3. CASE Book!Pruned(v)
  <2>1. /\ kind[v] = "kis" /\ step[v] = "pruning" /\ rows[v] = {}
        /\ step' = [step EXCEPT ![v] = "writing"] /\ rows' = [rows EXCEPT ![v] = Book!Listed(v)]
        /\ account' = account /\ position' = position /\ kind' = kind /\ listed' = listed /\ known' = known
        /\ read' = read /\ faults' = faults /\ disturbed' = disturbed
    BY <1>3 DEF Book!Pruned, Book!Goes
  <2>2. SyncTyped'
    BY <1>0, <2>1 DEF SyncTyped, Book!Listed
  <2>3. \A w \in Writer : step'[w] = "idle" => known'[w] = Book!Unread
    BY <1>0, <2>1 DEF SyncIInv, SyncTyped, Book!Unread
  <2>4. ASSUME NEW w \in Writer, Undisturbed(w)' PROVE Progress(w)'
    <3>1. CASE w = v
      <4>1. Progress(v)
        BY <2>1, <2>4, <3>1 DEF SyncIInv, Undisturbed
      <4>2. /\ step'[v] = "writing" /\ rows'[v] = Book!Listed(v) /\ listed'[v] = listed[v]
            /\ known'[v] = known[v] /\ kind'[v] = "kis"
        BY <1>0, <2>1 DEF SyncTyped
      <4>3. Book!Listed(v)' = Book!Listed(v) /\ Off(v)' = Off(v)
        BY <2>1 DEF Book!Listed, Off
      <4>4. Faithful(v, rows[v])' /\ Copied(Book!Listed(v) \ rows[v])'
        BY <2>1, <4>1, <4>2, <4>3 DEF Progress, Faithful, Copied, Book!Row, Book!NoRow
      <4>5. \A s \in Off(v) : ~Book!Row(s)'
        BY <2>1, <4>1 DEF Progress, Book!Row, Book!NoRow
      <4> QED BY <2>1, <3>1, <4>1, <4>2, <4>3, <4>4, <4>5 DEF Progress
    <3>2. CASE w # v
      BY <1>0, <2>1, <2>4, <3>2, Waits DEF Undisturbed, SyncTyped
    <3> QED BY <3>1, <3>2
  <2> QED BY <2>2, <2>3, <2>4 DEF SyncIInv
<1>4. CASE \E s \in BookStock : Book!Look(v, s)
  <2> PICK s \in BookStock : Book!Look(v, s)
    BY <1>4
  <2>1. /\ kind[v] \in {"broker", "add"} /\ step[v] = "writing" /\ s \in rows[v]
        /\ known' = [known EXCEPT ![v][s] = IF Book!Row(s) THEN "live" ELSE "none"]
        /\ read' = [read EXCEPT ![v] = IF Book!Row(s) THEN position[s] ELSE 0]
        /\ account' = account /\ position' = position /\ step' = step /\ kind' = kind /\ listed' = listed
        /\ rows' = rows /\ faults' = faults /\ disturbed' = disturbed
    BY DEF Book!Look
  <2>2. SyncTyped'
    BY <1>0, <2>1 DEF SyncTyped
  <2>3. \A w \in Writer : step'[w] = "idle" => known'[w] = Book!Unread
    BY <1>0, <2>1 DEF SyncIInv, SyncTyped, Book!Unread
  <2>4. ASSUME NEW w \in Writer, Undisturbed(w)' PROVE Progress(w)'
    <3>1. CASE w = v
      <4>1. Progress(v)
        BY <2>1, <2>4, <3>1 DEF SyncIInv, Undisturbed
      <4>2. Book!Listed(v)' = Book!Listed(v) /\ Off(v)' = Off(v)
        BY <2>1 DEF Book!Listed, Off
      <4>3. Faithful(v, rows[v])'
        <5>1. ASSUME NEW t \in rows[v] PROVE known'[v][t] # "stale" /\ (known'[v][t] = "none" => ~Book!Row(t))
          BY <1>0, <2>1, <4>1, <5>1 DEF SyncTyped, Progress, Faithful
        <5> QED BY <2>1, <5>1 DEF Faithful, Book!Row, Book!NoRow
      <4> QED BY <2>1, <3>1, <4>1, <4>2, <4>3 DEF Progress, Copied, Book!Row, Book!NoRow
    <3>2. CASE w # v
      BY <1>0, <2>1, <2>4, <3>2, Waits DEF Undisturbed, SyncTyped
    <3> QED BY <3>1, <3>2
  <2> QED BY <2>2, <2>3, <2>4 DEF SyncIInv
<1>5. CASE \E s \in BookStock : Book!Write(v, s)
  <2> PICK s \in BookStock : Book!Write(v, s)
    BY <1>5
  <2>1. /\ step[v] = "writing" /\ s \in rows[v]
        /\ position' = [position EXCEPT ![s] = Book!Quantity(v, s)]
        /\ rows' = [rows EXCEPT ![v] = @ \ {s}]
        /\ known' = [known EXCEPT ![v] = IF kind[v] = "kis" THEN @ ELSE Book!Unread]
        /\ disturbed' = disturbed \cup (Book!Busy \ {v})
        /\ account' = account /\ step' = step /\ kind' = kind /\ listed' = listed /\ read' = read /\ faults' = faults
    BY DEF Book!Write
  <2>2. Book!Quantity(v, s) \in Int
    BY <1>0 DEF Book!Quantity, SyncTyped
  <2>3. SyncTyped'
    BY <1>0, <2>1, <2>2 DEF SyncTyped, Book!Busy, Book!Unread
  <2>4. \A w \in Writer : step'[w] = "idle" => known'[w] = Book!Unread
    BY <1>0, <2>1 DEF SyncIInv, SyncTyped
  <2>5. ASSUME NEW w \in Writer, Undisturbed(w)' PROVE Progress(w)'
    <3>1. w = v
      BY <2>1, <2>5 DEF Undisturbed, Book!Busy
    <3>2. Progress(v) /\ kind[v] # "add"
      BY <2>1, <2>5, <3>1 DEF SyncIInv, Undisturbed
    <3>3. Book!Listed(v)' = Book!Listed(v) /\ Off(v)' = Off(v)
      BY <2>1 DEF Book!Listed, Off
    <3>4. s \in Book!Listed(v) /\ position'[s] = account[s] /\ rows'[v] = rows[v] \ {s}
      BY <1>0, <2>1, <3>2 DEF Progress, Book!Quantity, SyncTyped
    <3>5. \A t \in BookStock : t # s => position'[t] = position[t]
      BY <1>0, <2>1 DEF SyncTyped
    <3>6. Copied(Book!Listed(v) \ rows[v])'
      BY <2>1, <3>2, <3>3, <3>4, <3>5 DEF Progress, Copied, Book!Listed
    <3>7. Faithful(v, rows[v])'
      <4>1. ASSUME NEW t \in rows[v], t # s PROVE known'[v][t] # "stale" /\ (known'[v][t] = "none" => ~Book!Row(t))
        BY <1>0, <2>1, <3>2, <4>1 DEF SyncTyped, Progress, Faithful, Book!Unread
      <4>2. \A t \in rows[v] : t # s => Book!Row(t)' = Book!Row(t)
        BY <1>0, <3>5 DEF Book!Row, Book!NoRow, SyncTyped
      <4> QED BY <3>4, <4>1, <4>2 DEF Faithful
    <3>8. kind[v] = "kis" => \A t \in Off(v) : ~Book!Row(t)'
      BY <2>1, <3>2, <3>4, <3>5 DEF Progress, Off, Book!Row, Book!NoRow
    <3> QED BY <2>1, <3>1, <3>2, <3>3, <3>4, <3>6, <3>7, <3>8 DEF Progress
  <2> QED BY <2>3, <2>4, <2>5 DEF SyncIInv
<1>6. CASE \E s \in BookStock : Book!Delete(v, s)
  <2> PICK s \in BookStock : Book!Delete(v, s)
    BY <1>6
  <2>1. /\ step[v] = "pruning" /\ s \in rows[v] /\ known[v][s] = "live"
        /\ position' = [position EXCEPT ![s] = Book!NoRow]
        /\ rows' = [rows EXCEPT ![v] = @ \ {s}]
        /\ known' = [w \in Writer |-> IF known[w][s] = "live" THEN [known[w] EXCEPT ![s] = "stale"] ELSE known[w]]
        /\ disturbed' = disturbed \cup (Book!Busy \ {v})
        /\ account' = account /\ step' = step /\ kind' = kind /\ listed' = listed /\ read' = read /\ faults' = faults
    BY DEF Book!Delete
  <2>2. SyncTyped'
    <3>1. known' \in [Writer -> [BookStock -> {"unread", "none", "live", "stale"}]]
      BY <1>0, <2>1 DEF SyncTyped
    <3> QED BY <1>0, <2>1, <3>1 DEF SyncTyped, Book!Busy, Book!NoRow
  <2>3. \A w \in Writer : step'[w] = "idle" => known'[w] = Book!Unread
    BY <1>0, <2>1 DEF SyncIInv, SyncTyped, Book!Unread
  <2>4. ASSUME NEW w \in Writer, Undisturbed(w)' PROVE Progress(w)'
    <3>1. w = v
      BY <2>1, <2>4 DEF Undisturbed, Book!Busy
    <3>2. Progress(v)
      BY <2>1, <2>4, <3>1 DEF SyncIInv, Undisturbed
    <3>3. Book!Listed(v)' = Book!Listed(v) /\ Off(v)' = Off(v) /\ Book!Listed(v) \subseteq BookStock
      BY <2>1 DEF Book!Listed, Off
    <3>4. /\ s \in Off(v) /\ rows'[v] = rows[v] \ {s} /\ position'[s] = Book!NoRow
          /\ \A t \in BookStock : t # s => position'[t] = position[t] /\ known'[v][t] = known[v][t]
      BY <1>0, <2>1, <3>2 DEF Progress, SyncTyped
    <3>5. rows'[v] \subseteq Off(v) /\ \A t \in rows'[v] : known'[v][t] = "live"
      BY <2>1, <3>2, <3>4 DEF Progress, Off
    <3>6. \A t \in Off(v) \ rows'[v] : ~Book!Row(t)'
      BY <2>1, <3>2, <3>4 DEF Progress, Off, Book!Row, Book!NoRow
    <3>7. \A t \in Book!Listed(v) : t \in BookStock /\ t # s
      BY <3>3, <3>4 DEF Off
    <3>8. CASE kind[v] = "kis"
      <4>1. Faithful(v, Book!Listed(v))'
        BY <2>1, <3>2, <3>3, <3>4, <3>7, <3>8 DEF Progress, Faithful, Book!Row, Book!NoRow
      <4> QED BY <2>1, <3>1, <3>2, <3>3, <3>5, <3>6, <3>8, <4>1 DEF Progress
    <3>9. CASE kind[v] # "kis"
      <4>1. Copied(Book!Listed(v))'
        BY <2>1, <3>2, <3>3, <3>4, <3>7, <3>9 DEF Progress, Copied
      <4> QED BY <2>1, <3>1, <3>2, <3>3, <3>5, <3>6, <3>9, <4>1 DEF Progress
    <3> QED BY <3>8, <3>9
  <2> QED BY <2>2, <2>3, <2>4 DEF SyncIInv
<1> QED BY <1>1, <1>2, <1>3, <1>4, <1>5, <1>6 DEF Book!GoesOn

LEMMA NextSync == SyncIInv /\ [Book!Next]_Book!vars => SyncIInv'
<1> SUFFICES ASSUME SyncIInv, [Book!Next]_Book!vars PROVE SyncIInv'
  OBVIOUS
<1>1. CASE \E s \in BookStock, q \in 0..BookShares : Book!Trade(s, q)
  BY <1>1, TradeSync
<1>2. CASE \E w \in Writer, k \in {"kis", "manager", "broker"} : Book!Start(w, k)
  BY <1>2, StartSync
<1>3. CASE \E w \in Writer, s \in BookStock : Book!StartAdd(w, s)
  BY <1>3, StartAddSync
<1>4. CASE \E w \in Writer : Book!GoesOn(w)
  BY <1>4, GoesOnSync
<1>5. CASE UNCHANGED Book!vars
  <2>1. /\ account' = account /\ position' = position /\ step' = step /\ kind' = kind /\ listed' = listed
        /\ known' = known /\ read' = read /\ rows' = rows /\ faults' = faults /\ disturbed' = disturbed
    BY <1>5 DEF Book!vars, Book!calls
  <2>2. SyncTyped' /\ \A w \in Writer : step'[w] = "idle" => known'[w] = Book!Unread
    BY <2>1 DEF SyncIInv, SyncTyped
  <2>3. ASSUME NEW w \in Writer, Undisturbed(w)' PROVE Progress(w)'
    BY <2>1, <2>3, Waits DEF Undisturbed
  <2> QED BY <2>2, <2>3 DEF SyncIInv, Book!Unread
<1> QED BY <1>1, <1>2, <1>3, <1>4, <1>5 DEF Book!Next

\* What an undisturbed call has left behind when it ends.
LEMMA EndIsExact ==
  ASSUME SyncIInv, Book!Next, NEW w \in Writer,
         step[w] # "idle", step'[w] = "idle", w \notin disturbed, faults' = faults,
         kind[w] # "add", kind[w] = "broker" => Book!Listed(w) # {}
  PROVE  Book!Exact'
<1>0. SyncTyped /\ Progress(w)
  BY DEF SyncIInv, Undisturbed
<1>1. Book!Throws(w) \/ Book!Done(w)
  <2>1. CASE \E s \in BookStock, q \in 0..BookShares : Book!Trade(s, q)
    BY <2>1 DEF Book!Trade, Book!calls
  <2>2. CASE \E v \in Writer, k \in {"kis", "manager", "broker"} : Book!Start(v, k)
    BY <1>0, <2>2 DEF Book!Start, Book!Goes, SyncTyped
  <2>3. CASE \E v \in Writer, s \in BookStock : Book!StartAdd(v, s)
    BY <1>0, <2>3 DEF Book!StartAdd, Book!Goes, SyncTyped
  <2>4. CASE \E v \in Writer : Book!GoesOn(v)
    <3> PICK v \in Writer : Book!GoesOn(v)
      BY <2>4
    <3>1. CASE Book!Throws(v) \/ Book!Done(v)
      BY <1>0, <3>1 DEF Book!Throws, Book!Done, Book!Ends, Book!Goes, SyncTyped
    <3>2. CASE Book!FindRows(v) \/ Book!Pruned(v)
      BY <1>0, <3>2 DEF Book!FindRows, Book!Pruned, Book!Goes, SyncTyped
    <3>3. CASE \E s \in BookStock : Book!Look(v, s) \/ Book!Write(v, s) \/ Book!Delete(v, s)
      BY <3>3 DEF Book!Look, Book!Write, Book!Delete
    <3> QED BY <3>1, <3>2, <3>3 DEF Book!GoesOn
  <2> QED BY <2>1, <2>2, <2>3, <2>4 DEF Book!Next
<1>2. account' = account /\ position' = position
  BY <1>1 DEF Book!Throws, Book!Done, Book!Ends
<1>3. Book!Listed(w) = {s \in BookStock : account[s] > 0}
  BY <1>0 DEF Progress, Book!Listed
<1>4. ~Book!Throws(w)
  <2> SUFFICES ASSUME Book!Throws(w) PROVE FALSE
    OBVIOUS
  <2>1. ~Book!Fault
    BY <1>0 DEF Book!Fault, SyncTyped
  <2>2. PICK s \in rows[w] : \/ step[w] = "pruning" /\ known[w][s] = "stale"
                             \/ step[w] = "writing" /\ known[w][s] # "unread" /\ ~Book!CanWrite(w, s)
    BY <2>1 DEF Book!Throws
  <2>3. CASE step[w] = "pruning"
    BY <1>0, <2>2, <2>3 DEF Progress
  <2>4. CASE step[w] = "writing"
    <3>1. known[w][s] \in {"unread", "none", "live", "stale"}
      BY <1>0 DEF SyncTyped
    <3> QED BY <1>0, <2>2, <2>4, <3>1 DEF Progress, Faithful, Book!CanWrite
  <2> QED BY <2>2, <2>3, <2>4
<1>5. Copied(Book!Listed(w)) /\ \A s \in Off(w) : ~Book!Row(s)
  <2>1. rows[w] = {} /\ \/ step[w] = "pruning" /\ kind[w] # "kis"
                        \/ step[w] = "writing" /\ kind[w] = "kis"
    BY <1>1, <1>4 DEF Book!Done
  <2> QED BY <1>0, <2>1 DEF Progress, Off, Copied
<1>6. ASSUME NEW s \in BookStock
      PROVE  position[s] = IF account[s] = 0 THEN Book!NoRow ELSE account[s]
  <2>1. account[s] \in Nat
    BY <1>0 DEF SyncTyped
  <2>2. CASE account[s] = 0
    BY <1>3, <1>5, <2>2 DEF Off, Book!Row
  <2>3. CASE account[s] # 0
    BY <1>3, <1>5, <2>1, <2>3 DEF Copied
  <2> QED BY <2>2, <2>3
<1> QED BY <1>2, <1>6 DEF Book!Exact

\* For any account and any calls: a synchronisation that nobody disturbs and
\* no write of which fails leaves the rows as the account is, and does not throw.
THEOREM UndisturbedSyncIsExact == Book!Spec => SyncIsExact
<1>1. SyncIInv /\ [Book!Next]_Book!vars =>
        [\A w \in Writer :
           /\ step[w] # "idle" /\ step'[w] = "idle"
           /\ w \notin disturbed /\ faults' = faults
           /\ kind[w] # "add" /\ (kind[w] = "broker" => Book!Listed(w) # {})
           => Book!Exact']_Book!vars
  BY EndIsExact
<1> QED BY <1>1, InitSync, NextSync, PTL DEF Book!Spec, SyncIsExact, Book!SyncIsExact
=============================================================================
