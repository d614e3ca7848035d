--------------------------- MODULE TradingSession ---------------------------
(***************************************************************************)
(* The auto-trading session of one user.  TradingEngineService keeps it in *)
(* memory (activeSessions, one timer per strategy) and in rows of          *)
(* AutoTradingSession; MarketHoursService rewrites the rows, and only the  *)
(* rows, when the market opens and closes.  start, stop, pause and resume  *)
(* are calls of the controller: each of Call is a slot that runs one after *)
(* the other, and a call is interrupted at every await.  The breaker may   *)
(* refuse a start at once, which changes nothing.                          *)
(***************************************************************************)
EXTENDS Integers

CONSTANTS
  Call,
  Strategy,
  NoConfig,      \* activeSessions has no entry
  MaxRows        \* bound: sessions ever started

ASSUME SessionAssumption ==
  /\ MaxRows \in Nat
  /\ \A S \in SUBSET Strategy : NoConfig # S

VARIABLES
  rows,          \* row -> its status
  config,        \* the strategies of the entry of activeSessions
  timers,        \* strategy -> intervals that run it
  stage,         \* call -> what it does next
  wanted,        \* call -> strategies that a start asks for
  sweep,         \* MarketHoursService: rows still to be written, and with what
  ordering,      \* a signal was let through and its order is under way
  overlapped,    \* history: two calls under way together since the last start-up
  disturbed      \* history: a crash, a failed update, or a sweep

memory  == <<config, timers>>
market  == <<sweep, ordering>>
history == <<overlapped, disturbed>>
vars    == <<rows, memory, stage, wanted, market, history>>

RowId     == 1..MaxRows
Status    == {"ABSENT", "RUNNING", "PAUSED", "STOPPED"}
CallStage == {"idle", "checking", "created", "stopping", "stopped", "pausing", "resuming"}

TypeOK ==
  /\ rows \in [RowId -> Status]
  /\ config \in {NoConfig} \cup SUBSET Strategy
  /\ timers \in [Strategy -> 0..1]
  /\ stage \in [Call -> CallStage]
  /\ wanted \in [Call -> SUBSET Strategy]
  /\ sweep \in [rows : SUBSET RowId, to : {"RUNNING", "PAUSED"}]
  /\ ordering \in BOOLEAN
  /\ overlapped \in BOOLEAN
  /\ disturbed \in BOOLEAN

Init ==
  /\ rows = [r \in RowId |-> "ABSENT"]
  /\ config = NoConfig
  /\ timers = [s \in Strategy |-> 0]
  /\ stage = [c \in Call |-> "idle"]
  /\ wanted = [c \in Call |-> {}]
  /\ sweep = [rows |-> {}, to |-> "PAUSED"]
  /\ ordering = FALSE
  /\ overlapped = FALSE
  /\ disturbed = FALSE

-----------------------------------------------------------------------------
GoTo(c, s) == stage' = [stage EXCEPT ![c] = s]
Running    == \E r \in RowId : rows[r] = "RUNNING"

\* updateMany: all rows of the user that have status a get b.
UpdateRows(a, b) == rows' = [r \in RowId |-> IF rows[r] = a THEN b ELSE rows[r]]

\* scheduleStrategy for each of S: clear the interval there is, set a new one.
Schedule(S)   == timers' = [s \in Strategy |-> IF s \in S THEN 1 ELSE timers[s]]
Unschedule(S) == timers' = [s \in Strategy |-> IF s \in S THEN 0 ELSE timers[s]]

Begin(c, s) ==
  /\ stage[c] = "idle"
  /\ GoTo(c, s)
  /\ overlapped' = (overlapped \/ \E d \in Call : stage[d] # "idle")

-----------------------------------------------------------------------------
\* startAutoTrading, up to the first await.
BeginStart(c, S) ==
  /\ config = NoConfig
  /\ Begin(c, "checking")
  /\ wanted' = [wanted EXCEPT ![c] = S]
  /\ UNCHANGED <<rows, memory, market, disturbed>>

\* A strategy is not the user's or not active, or the row cannot be created.
StartFails(c) ==
  /\ stage[c] = "checking"
  /\ GoTo(c, "idle")
  /\ UNCHANGED <<rows, memory, wanted, market, history>>

CreateSession(c) ==
  /\ stage[c] = "checking"
  /\ \E r \in RowId : rows[r] = "ABSENT" /\ rows' = [rows EXCEPT ![r] = "RUNNING"]
  /\ GoTo(c, "created")
  /\ UNCHANGED <<memory, wanted, market, history>>

Activate(c) ==
  /\ stage[c] = "created"
  /\ config' = wanted[c]
  /\ Schedule(wanted[c])
  /\ GoTo(c, "idle")
  /\ UNCHANGED <<rows, wanted, market, history>>

-----------------------------------------------------------------------------
\* Mutated form: the timers are left to the end of the session.
BeginStopLate(c) ==
  /\ config # NoConfig
  /\ Begin(c, "stopping")
  /\ UNCHANGED <<rows, memory, wanted, market, disturbed>>

\* stopAutoTrading
BeginStop(c) ==
  /\ config # NoConfig
  /\ Begin(c, "stopping")
  /\ Unschedule(config)
  /\ UNCHANGED <<rows, config, wanted, market, disturbed>>

StopRows(c) ==
  /\ stage[c] = "stopping"
  /\ UpdateRows("RUNNING", "STOPPED")
  /\ GoTo(c, "stopped")
  /\ UNCHANGED <<memory, wanted, market, history>>

ForgetSession(c) ==
  /\ stage[c] = "stopped"
  /\ config' = NoConfig
  /\ GoTo(c, "idle")
  /\ UNCHANGED <<rows, timers, wanted, market, history>>

\* pauseAutoTrading
BeginPause(c) ==
  /\ config # NoConfig
  /\ Begin(c, "pausing")
  /\ Unschedule(config)
  /\ UNCHANGED <<rows, config, wanted, market, disturbed>>

\* Mutated form: the rows are left as they are.
PauseNoRows(c) ==
  /\ stage[c] = "pausing"
  /\ GoTo(c, "idle")
  /\ UNCHANGED <<rows, memory, wanted, market, history>>

PauseRows(c) ==
  /\ stage[c] = "pausing"
  /\ UpdateRows("RUNNING", "PAUSED")
  /\ GoTo(c, "idle")
  /\ UNCHANGED <<memory, wanted, market, history>>

\* resumeAutoTrading
BeginResume(c) ==
  /\ config # NoConfig
  /\ Begin(c, "resuming")
  /\ Schedule(config)
  /\ UNCHANGED <<rows, config, wanted, market, disturbed>>

ResumeRows(c) ==
  /\ stage[c] = "resuming"
  /\ UpdateRows("PAUSED", "RUNNING")
  /\ GoTo(c, "idle")
  /\ UNCHANGED <<memory, wanted, market, history>>

\* The update throws: the timers are as the call has set them.
UpdateFails(c) ==
  /\ stage[c] \in {"stopping", "pausing", "resuming"}
  /\ GoTo(c, "idle")
  /\ disturbed' = TRUE
  /\ UNCHANGED <<rows, memory, wanted, market, overlapped>>

-----------------------------------------------------------------------------
\* activateAutoTradingSessions and pauseAutoTradingSessions: find the rows,
\* then update one after the other by its id.
BeginSweep(from, to) ==
  /\ sweep.rows = {}
  /\ sweep' = [rows |-> {r \in RowId : rows[r] = from}, to |-> to]
  /\ disturbed' = TRUE
  /\ UNCHANGED <<rows, memory, stage, wanted, ordering, overlapped>>

MarketOpens  == BeginSweep("PAUSED", "RUNNING")
MarketCloses == BeginSweep("RUNNING", "PAUSED")

SweepRow ==
  /\ \E r \in sweep.rows :
       /\ rows' = [rows EXCEPT ![r] = sweep.to]
       /\ sweep' = [sweep EXCEPT !.rows = @ \ {r}]
  /\ UNCHANGED <<memory, stage, wanted, ordering, history>>

\* An update throws, the rest of the loop is dropped.
SweepFails ==
  /\ sweep.rows # {}
  /\ sweep' = [sweep EXCEPT !.rows = {}]
  /\ UNCHANGED <<rows, memory, stage, wanted, ordering, history>>

-----------------------------------------------------------------------------
\* processSignal asks for the entry in memory, looks up the account and the
\* quantity, and executes the order.
TakeSignal ==
  /\ config # NoConfig
  /\ ~ordering
  /\ ordering' = TRUE
  /\ UNCHANGED <<rows, memory, stage, wanted, sweep, history>>

PlaceOrder ==
  /\ ordering
  /\ ordering' = FALSE
  /\ UNCHANGED <<rows, memory, stage, wanted, sweep, history>>

\* The API process restarts: the Maps are empty, nothing reads the rows back.
Restart ==
  /\ config' = NoConfig
  /\ timers' = [s \in Strategy |-> 0]
  /\ stage' = [c \in Call |-> "idle"]
  /\ sweep' = [sweep EXCEPT !.rows = {}]
  /\ ordering' = FALSE
  /\ overlapped' = FALSE
  /\ disturbed' = TRUE
  /\ UNCHANGED <<rows, wanted>>

-----------------------------------------------------------------------------
Starts(c) == (\E S \in SUBSET Strategy : BeginStart(c, S)) \/ StartFails(c) \/ CreateSession(c) \/ Activate(c)
Stops(c)  == BeginStop(c) \/ StopRows(c) \/ ForgetSession(c)
Pauses(c) == BeginPause(c) \/ PauseRows(c) \/ BeginResume(c) \/ ResumeRows(c)
Markets   == MarketOpens \/ MarketCloses \/ SweepRow \/ SweepFails

Next ==
  \/ \E c \in Call : Starts(c) \/ Stops(c) \/ Pauses(c) \/ UpdateFails(c)
  \/ Markets \/ TakeSignal \/ PlaceOrder \/ Restart

Spec == Init /\ [][Next]_vars

-----------------------------------------------------------------------------
\* As long as a user's calls come one after the other, every timer runs a
\* strategy of the session in memory: a stop (also one whose update fails, or
\* during a sweep) leaves none behind that no later call would clear.
TimersBelongToSession ==
  ~overlapped => \A s \in Strategy : timers[s] = 1 => config # NoConfig /\ s \in config

AtRest == \A c \in Call : stage[c] = "idle"

\* Between such calls, while nothing has failed and the market has neither
\* opened nor closed, memory and rows agree: strategies are run exactly when
\* a row says RUNNING (a session without strategies has nothing to run).
MemoryMatchesRows ==
  ~overlapped /\ ~disturbed /\ AtRest /\ config # {}
    => (Running <=> \E s \in Strategy : timers[s] = 1)

\* trading-engine.service.ts:77 refuses a second start ("auto trading is
\* already running"): until a restart or a sweep one row is RUNNING at most.
OneRunningSession ==
  ~disturbed => \A q, r \in RowId : rows[q] = "RUNNING" /\ rows[r] = "RUNNING" => q = r

\* trading-engine.service.ts:156 "end the session": a row that was stopped
\* stays stopped.
StoppedStaysStopped ==
  [][\A r \in RowId : rows[r] = "STOPPED" => rows'[r] = "STOPPED"]_vars

\* trading-engine.service.ts:179 "pause auto trading": with every call done and
\* nothing else going on, a signal leads to an order only in a RUNNING session.
PausedPlacesNoOrder ==
  [][ordering' /\ ~ordering /\ AtRest /\ ~overlapped /\ ~disturbed => Running]_vars

\* trading-engine.service.ts:156: stopping ends the session.  In calls one after the
\* other, undisturbed, no row is left open when memory has no session.
StopClosesSession ==
  ~overlapped /\ ~disturbed /\ AtRest /\ config = NoConfig
    => \A r \in RowId : rows[r] \in {"ABSENT", "STOPPED"}

\* trading-engine.service.ts:151 "cancel the strategies' schedules": no timer
\* runs without a session, whatever calls overlap.
NoTimerWithoutSession == config = NoConfig => \A s \in Strategy : timers[s] = 0

-----------------------------------------------------------------------------
\* The strengthening that the proofs use: what holds between the awaits.
Open == \E r \in RowId : rows[r] \in {"RUNNING", "PAUSED"}
Ticking == \E s \in Strategy : timers[s] = 1

\* The one call under way, if any, while calls do not overlap.
Alone ==
  \A c, d \in Call : stage[c] # "idle" /\ stage[d] # "idle" => c = d

AloneInv(c) ==
  /\ stage[c] \in {"checking", "created"} => config = NoConfig
  /\ stage[c] \in {"stopping", "stopped", "pausing"} => config # NoConfig /\ ~Ticking
  /\ stage[c] = "resuming" => config # NoConfig /\ \A s \in config : timers[s] = 1

\* What the rows hold at each point of the call.
RowsInv(c) ==
  /\ stage[c] = "checking" => ~Running
  /\ stage[c] = "created" => Running
  /\ stage[c] = "stopped" => ~Running

SerialInv ==
  ~overlapped => /\ Alone
                 /\ TimersBelongToSession
                 /\ \A c \in Call : AloneInv(c)

CalmInv ==
  ~overlapped /\ ~disturbed =>
    /\ MemoryMatchesRows
    /\ config # NoConfig => Open \/ \E c \in Call : stage[c] = "stopped"
    /\ AtRest /\ config = NoConfig => ~Running
    /\ \A c \in Call : RowsInv(c)

SweepDisturbs == ~disturbed => sweep.rows = {}

SessionInv == TypeOK /\ SerialInv /\ CalmInv /\ SweepDisturbs
=============================================================================
