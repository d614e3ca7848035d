---------------------------- MODULE CompanyData ----------------------------
(***************************************************************************)
(* AdminService's collection of company data from OpenDART, of one stock   *)
(* (collectAllDataForStock, batchCollectData) or of the stocks that lack   *)
(* some (autoCollectMissingData).  Nothing keeps two calls apart: an       *)
(* administrator who presses twice has two of them under way.              *)
(*                                                                         *)
(* A task fills one table.  The tasks of the periodic reports try the      *)
(* reports of two years, the newest year and the annual report first,      *)
(* until one gives rows; insider trades and major events ask once.  The    *)
(* model numbers the reports in the order they are tried.                  *)
(***************************************************************************)
EXTENDS Integers, Sequences, FiniteSets, SequencesExt

CONSTANTS
  Caller,
  Stock,       \* those of KOSPI and KOSDAQ with a corpCode that are no funds
  Periodic,    \* tasks with a report: executives, dividends, employees, ...
  AskedOnce,   \* insiderTrading, majorEvents
  Uncounted,   \* outsideDirectors: collected, but not looked at for gaps
  Reports,     \* number of reports that are tried
  Window,      \* stocks the query returns at most (100)
  LIMIT,       \* stocks one automatic call works on (10)
  DAY,         \* 24 hours
  MaxTime, MaxPublished, MaxFaults   \* bounds

VARIABLES
  published,   \* stock -> task -> reports that OpenDART has
  stored,      \* stock -> task -> reports with rows
  collectedAt, \* stock -> lastDataCollectionAt, or Never
  now,
  call,        \* caller -> its call, or Idle
  attempts,    \* history: stock -> automatic attempts since it was last due, less one
               \* for each that left no stamp and each call that listed it beside another
  faults

vars == <<published, stored, collectedAt, now, call, attempts, faults>>

\* There is at least one task, and one report to try; nothing is infinite.
Limits ==
  /\ IsFiniteSet(Caller) /\ IsFiniteSet(Stock) /\ IsFiniteSet(Periodic) /\ IsFiniteSet(AskedOnce)
  /\ Periodic \cup AskedOnce # {} /\ Reports \in Nat \ {0}
  /\ LIMIT \in Nat /\ DAY \in Nat

Never == -1
Task  == Periodic \cup AskedOnce
Tasks == SetToSeq(Periodic) \o SetToSeq(AskedOnce)
Tries(k) == IF k \in Periodic THEN Reports ELSE 1
NoReports == [k \in Task |-> {}]

\* A call: the stocks to do, the one it is at first; the number of the task and
\* of the report it is at.  History: what was published when it began the stock,
\* and the tasks in which a request or a write failed.
Call == [at : {"idle", "next", "task", "stamp"}, auto : BOOLEAN, todo : Seq(Stock),
         task : 1..Len(Tasks), try : 1..Reports,
         asked : [Task -> SUBSET (1..Reports)], troubled : SUBSET Task]

Idle == [at |-> "idle", auto |-> FALSE, todo |-> <<>>, task |-> 1, try |-> 1,
         asked |-> NoReports, troubled |-> {}]

TypeOK ==
  /\ published \in [Stock -> [Task -> SUBSET (1..Reports)]]
  /\ stored \in [Stock -> [Task -> SUBSET (1..Reports)]]
  /\ \A s \in Stock, k \in Task : stored[s][k] \subseteq published[s][k]
  /\ collectedAt \in [Stock -> {Never} \cup (0..MaxTime)] /\ now \in 0..MaxTime
  /\ call \in [Caller -> Call]
  /\ \A c \in Caller : call[c].at \in {"task", "stamp"} => call[c].todo # <<>>
  /\ attempts \in [Stock -> Int]
  /\ faults \in 0..MaxFaults

Init ==
  /\ published = [s \in Stock |-> NoReports] /\ stored = [s \in Stock |-> NoReports]
  /\ collectedAt = [s \in Stock |-> Never] /\ now = 0
  /\ call = [c \in Caller |-> Idle]
  /\ attempts = [s \in Stock |-> 0]
  /\ faults = 0

-----------------------------------------------------------------------------
AllPublished == {p \in Stock \X Task \X (1..Reports) : p[3] \in published[p[1]][p[2]]}

Publish(s, k, r) ==
  /\ r \in 1..Tries(k) /\ r \notin published[s][k]
  /\ Cardinality(AllPublished) < MaxPublished
  /\ published' = [published EXCEPT ![s][k] = @ \cup {r}]
  /\ UNCHANGED <<stored, collectedAt, now, call, attempts, faults>>

\* Mutated form: what was attempted within the day is not left out.
OpenAtAnyTime(s) == TRUE

\* "lastDataCollectionAt: null or lt oneDayAgo"
Open(s) == collectedAt[s] = Never \/ collectedAt[s] < now - DAY

\* The automatic calls that are at the stock, and those that have it still to do.
Working(s) == {c \in Caller : call[c].auto /\ call[c].at \in {"task", "stamp"} /\ Head(call[c].todo) = s}
Waiting(s) == {c \in Caller : call[c].auto /\ \E i \in (IF call[c].at = "next" THEN 1 ELSE 2)..Len(call[c].todo) :
                                                 call[c].todo[i] = s}
Listed(s)  == Working(s) \cup Waiting(s)

\* Time goes on.  A stock that falls due is counted anew, with the calls that
\* have it on their lists from the day before.
Tick ==
  LET due(s) == ~Open(s) /\ Open(s)'
  IN  /\ now < MaxTime /\ now' = now + 1
      /\ UNCHANGED <<published, stored, collectedAt, call, faults>>
      /\ attempts' = [s \in Stock |-> IF ~due(s) THEN attempts[s]
                                     ELSE IF Listed(s) = {} THEN 0 ELSE 1 - Cardinality(Waiting(s))]

HasGap(s) == \E k \in Task \ Uncounted : stored[s][k] = {}

\* What getStocksWithMissingData may return: of the open stocks the query takes
\* some, in no order, and only then those with a gap are picked out.
Listings ==
  LET open == {s \in Stock : Open(s)}
      size == IF Cardinality(open) < Window THEN Cardinality(open) ELSE Window
      windows == {w \in SUBSET open : Cardinality(w) = size}
  IN  UNION {SetToSeqs({s \in w : HasGap(s)}) : w \in windows}

Cut(q) == SubSeq(q, 1, IF Len(q) < LIMIT THEN Len(q) ELSE LIMIT)

Start(c, isAuto, stocks) ==
  /\ call[c].at = "idle" /\ stocks # <<>>
  /\ call' = [call EXCEPT ![c] = [Idle EXCEPT !.at = "next", !.auto = isAuto, !.todo = stocks]]
  /\ attempts' = [s \in Stock |-> IF isAuto /\ s \in ToSet(stocks) /\ Listed(s) # {} THEN attempts[s] - 1
                                  ELSE attempts[s]]
  /\ UNCHANGED <<published, stored, collectedAt, now, faults>>

AutoCollect(c) == \E q \in Listings : Start(c, TRUE, Cut(q))

BatchCollect(c) == \E s \in Stock : Start(c, FALSE, <<s>>)

\* The count of the stock a call is at; an administrator's own choice does not count.
Counted(c, n) == [attempts EXCEPT ![Head(call[c].todo)] = IF call[c].auto THEN @ + n ELSE @]

\* collectAllDataForStock begins with the first stock that is left.
Begin(c) ==
  /\ call[c].at = "next" /\ call[c].todo # <<>>
  /\ call' = [call EXCEPT ![c].at = "task", ![c].asked = published[Head(call[c].todo)]]
  /\ attempts' = Counted(c, 1)
  /\ UNCHANGED <<published, stored, collectedAt, now, faults>>

Return(c) ==
  /\ call[c].at = "next" /\ call[c].todo = <<>>
  /\ call' = [call EXCEPT ![c] = Idle]
  /\ UNCHANGED <<published, stored, collectedAt, now, attempts, faults>>

\* The call after the one task, and after the one try.
NextTask(k) ==
  IF k.task < Len(Tasks) THEN [k EXCEPT !.task = @ + 1, !.try = 1] ELSE [k EXCEPT !.at = "stamp"]

\* Mutated form: the result of the first request is returned, rows or not.
NextTryNever(k) == NextTask(k)

NextTry(k) ==
  IF k.try < Tries(Tasks[k.task]) THEN [k EXCEPT !.try = @ + 1] ELSE NextTask(k)

Asks(c) == call[c].at = "task" /\ UNCHANGED <<published, collectedAt, now, attempts>>
AskedFor(c) == <<Head(call[c].todo), Tasks[call[c].task]>>
IsPublished(c) == call[c].try \in published[AskedFor(c)[1]][AskedFor(c)[2]]

\* The report is there and some of its rows are saved.
Found(c) ==
  /\ Asks(c) /\ IsPublished(c)
  /\ stored' = [stored EXCEPT ![AskedFor(c)[1]][AskedFor(c)[2]] = @ \cup {call[c].try}]
  /\ call' = [call EXCEPT ![c] = NextTask(@)]
  /\ UNCHANGED faults

\* OpenDART's status 013: no data.
NoData(c) ==
  /\ Asks(c) /\ ~IsPublished(c)
  /\ call' = [call EXCEPT ![c] = NextTry(@)]
  /\ UNCHANGED <<stored, faults>>

\* The call with trouble in the task it is at.
InTrouble(k) == [k EXCEPT !.troubled = @ \cup {Tasks[k.task]}]

\* The request or the writes fail: to the loop this is as good as no data.
Fails(c) ==
  /\ Asks(c)
  /\ faults < MaxFaults /\ faults' = faults + 1
  /\ call' = [call EXCEPT ![c] = NextTry(InTrouble(@))]
  /\ UNCHANGED stored

Left(k) == [Idle EXCEPT !.at = "next", !.auto = k.auto, !.todo = Tail(k.todo)]

Stamp(c) ==
  /\ call[c].at = "stamp"
  /\ collectedAt' = [collectedAt EXCEPT ![Head(call[c].todo)] = now]
  /\ call' = [call EXCEPT ![c] = Left(@)]
  /\ UNCHANGED <<published, stored, now, attempts, faults>>

StampFails(c) ==
  /\ call[c].at = "stamp"
  /\ faults < MaxFaults /\ faults' = faults + 1
  /\ call' = [call EXCEPT ![c] = Left(@)]
  /\ attempts' = Counted(c, -1)
  /\ UNCHANGED <<published, stored, collectedAt, now>>

\* The process ends; what is stored and stamped stays, the attempts it cuts off
\* leave no stamp.
Restart ==
  /\ faults < MaxFaults /\ faults' = faults + 1
  /\ \E c \in Caller : call[c] # Idle
  /\ call' = [c \in Caller |-> Idle]
  /\ attempts' = [s \in Stock |-> attempts[s] - Cardinality(Working(s))]
  /\ UNCHANGED <<published, stored, collectedAt, now>>

Step(c) ==
  \/ AutoCollect(c) \/ BatchCollect(c) \/ Begin(c) \/ Return(c)
  \/ Found(c) \/ NoData(c) \/ Fails(c) \/ Stamp(c) \/ StampFails(c)

Next ==
  \/ \E c \in Caller : Step(c)
  \/ \E s \in Stock, k \in Task : \E r \in 1..Reports : Publish(s, k, r)
  \/ Tick \/ Restart

Spec == Init /\ [][Next]_vars

-----------------------------------------------------------------------------
\* The order of the tries is kept whatever other calls store meanwhile: when a
\* stock is done, a task none of whose requests and writes failed has rows of
\* the first report that was there when the stock was begun, or of an earlier one.
FirstReportStored ==
  \A c \in Caller : call[c].at = "stamp" =>
    \A k \in Task \ call[c].troubled : \A r \in call[c].asked[k] :
      \E q \in stored[Head(call[c].todo)][k] : q <= r

\* A stock that was attempted is left alone for a day ("Excludes stocks that have
\* been attempted within the last 24 hours", admin.service.ts:2579), as far as its
\* stamp can tell: since a stock was last due, the automatic calls have begun it
\* once, and once more for each attempt that left no stamp (the write of it
\* failed, the process ended) and each call that listed it beside another one.
OncePerDay == \A s \in Stock : attempts[s] <= 1

\* "No stocks with missing data found" (admin.service.ts:2676) is true.
NothingFoundNothingMissing ==
  <<>> \in Listings => ~\E s \in Stock : Open(s) /\ HasGap(s)
=============================================================================
