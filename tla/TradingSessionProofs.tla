------------------------ MODULE TradingSessionProofs ------------------------
(***************************************************************************)
(* SessionInv is inductive.  Calls under way are told apart by Alone; what *)
(* is true of memory between two awaits is in AloneInv, of the rows in     *)
(* RowsInv.                                                                *)
(***************************************************************************)
EXTENDS TradingSession, TLAPS

\* A step of call c moves c and no other call.
LEMMA StageStep ==
  ASSUME stage \in [Call -> CallStage], NEW c \in Call, NEW s, GoTo(c, s)
  PROVE  stage'[c] = s /\ \A d \in Call : d # c => stage'[d] = stage[d]
BY DEF GoTo

\* Schedule and Unschedule set the timers of S and leave the others.
LEMMA ScheduleSets ==
  ASSUME TypeOK, NEW S \in SUBSET Strategy, Schedule(S)
  PROVE  /\ timers' \in [Strategy -> 0..1]
         /\ \A s \in S : timers'[s] = 1
         /\ \A s \in Strategy : s \notin S => timers'[s] = timers[s]
BY DEF Schedule, TypeOK

LEMMA UnscheduleSets ==
  ASSUME TypeOK, NEW S \in SUBSET Strategy, Unschedule(S)
  PROVE  /\ timers' \in [Strategy -> 0..1]
         /\ \A s \in S : timers'[s] = 0
         /\ \A s \in Strategy : s \notin S => timers'[s] = timers[s]
BY DEF Unschedule, TypeOK

LEMMA UpdateRowsTypes ==
  ASSUME TypeOK, NEW a \in Status, NEW b \in Status, UpdateRows(a, b)
  PROVE  rows' \in [RowId -> Status]
BY DEF UpdateRows, TypeOK

\* A configuration in memory is a set of strategies.
LEMMA ConfigIsSet ==
  ASSUME TypeOK, config # NoConfig
  PROVE  config \in SUBSET Strategy
BY DEF TypeOK

-----------------------------------------------------------------------------
LEMMA InitHolds == Init => SessionInv
<1> SUFFICES ASSUME Init PROVE SessionInv
  OBVIOUS
<1>1. TypeOK
  <2>1. /\ rows \in [RowId -> Status]
        /\ stage \in [Call -> CallStage]
        /\ timers \in [Strategy -> 0..1]
    BY DEF Init, Status, CallStage
  <2>2. /\ wanted \in [Call -> SUBSET Strategy]
        /\ sweep \in [rows : SUBSET RowId, to : {"RUNNING", "PAUSED"}]
    BY DEF Init
  <2>3. config = NoConfig /\ ordering \in BOOLEAN /\ overlapped \in BOOLEAN /\ disturbed \in BOOLEAN
    BY DEF Init
  <2> QED
    BY <2>1, <2>2, <2>3 DEF TypeOK
<1>2. SerialInv
  BY DEF Init, SerialInv, Alone, TimersBelongToSession, AloneInv, Ticking
<1>3. CalmInv
  BY DEF Init, CalmInv, MemoryMatchesRows, AtRest, Running, RowsInv
<1>4. SweepDisturbs
  BY DEF Init, SweepDisturbs
<1> QED
  BY <1>1, <1>2, <1>3, <1>4 DEF SessionInv

LEMMA TypeStep ==
  ASSUME TypeOK, Next
  PROVE  TypeOK'
<1>1. ASSUME NEW c \in Call, Starts(c)
      PROVE  TypeOK'
  <2>1. ASSUME NEW S \in SUBSET Strategy, BeginStart(c, S)
        PROVE  TypeOK'
    BY <2>1 DEF BeginStart, Begin, GoTo, TypeOK, CallStage, memory, market, Status
  <2>2. CASE StartFails(c)
    BY <2>2 DEF StartFails, GoTo, TypeOK, CallStage, memory, market, history, Status
  <2>3. CASE CreateSession(c)
    BY <2>3 DEF CreateSession, GoTo, TypeOK, CallStage, memory, market, history, Status
  <2>4. CASE Activate(c)
    <3>1. wanted[c] \in SUBSET Strategy
      BY DEF TypeOK
    <3>2. timers' \in [Strategy -> 0..1]
      BY <2>4, <3>1, ScheduleSets DEF Activate
    <3> QED
      BY <2>4, <3>1, <3>2 DEF Activate, GoTo, TypeOK, CallStage, market, history, Status
  <2> QED
    BY <1>1, <2>1, <2>2, <2>3, <2>4 DEF Starts
<1>2. ASSUME NEW c \in Call, Stops(c)
      PROVE  TypeOK'
  <2>1. CASE BeginStop(c)
    <3>1. timers' \in [Strategy -> 0..1]
      BY <2>1, ConfigIsSet, UnscheduleSets DEF BeginStop
    <3> QED
      BY <2>1, <3>1 DEF BeginStop, Begin, GoTo, TypeOK, CallStage, market, Status
  <2>2. CASE StopRows(c)
    <3>1. rows' \in [RowId -> Status]
      BY <2>2, UpdateRowsTypes DEF StopRows, Status
    <3> QED
      BY <2>2, <3>1 DEF StopRows, GoTo, TypeOK, CallStage, memory, market, history
  <2>3. CASE ForgetSession(c)
    BY <2>3 DEF ForgetSession, GoTo, TypeOK, CallStage, market, history, Status
  <2> QED
    BY <1>2, <2>1, <2>2, <2>3 DEF Stops
<1>3. ASSUME NEW c \in Call, Pauses(c)
      PROVE  TypeOK'
  <2>1. CASE BeginPause(c)
    <3>1. timers' \in [Strategy -> 0..1]
      BY <2>1, ConfigIsSet, UnscheduleSets DEF BeginPause
    <3> QED
      BY <2>1, <3>1 DEF BeginPause, Begin, GoTo, TypeOK, CallStage, market, Status
  <2>2. CASE PauseRows(c)
    <3>1. rows' \in [RowId -> Status]
      BY <2>2, UpdateRowsTypes DEF PauseRows, Status
    <3> QED
      BY <2>2, <3>1 DEF PauseRows, GoTo, TypeOK, CallStage, memory, market, history
  <2>3. CASE BeginResume(c)
    <3>1. timers' \in [Strategy -> 0..1]
      BY <2>3, ConfigIsSet, ScheduleSets DEF BeginResume
    <3> QED
      BY <2>3, <3>1 DEF BeginResume, Begin, GoTo, TypeOK, CallStage, market, Status
  <2>4. CASE ResumeRows(c)
    <3>1. rows' \in [RowId -> Status]
      BY <2>4, UpdateRowsTypes DEF ResumeRows, Status
    <3> QED
      BY <2>4, <3>1 DEF ResumeRows, GoTo, TypeOK, CallStage, memory, market, history
  <2> QED
    BY <1>3, <2>1, <2>2, <2>3, <2>4 DEF Pauses
<1>4. ASSUME NEW c \in Call, UpdateFails(c)
      PROVE  TypeOK'
  BY <1>4 DEF UpdateFails, GoTo, TypeOK, CallStage, memory, market, Status
<1>5. CASE Markets
  <2>1. CASE MarketOpens \/ MarketCloses
    <3>1. sweep' \in [rows : SUBSET RowId, to : {"RUNNING", "PAUSED"}]
      BY <2>1 DEF MarketOpens, MarketCloses, BeginSweep
    <3>2. UNCHANGED <<rows, memory, stage, wanted, ordering, overlapped>> /\ disturbed' = TRUE
      BY <2>1 DEF MarketOpens, MarketCloses, BeginSweep
    <3> QED
      BY <3>1, <3>2 DEF TypeOK, memory
  <2>2. CASE SweepRow
    <3>1. PICK r \in sweep.rows : /\ rows' = [rows EXCEPT ![r] = sweep.to]
                                  /\ sweep' = [sweep EXCEPT !.rows = @ \ {r}]
      BY <2>2 DEF SweepRow
    <3>2. sweep.to \in Status
      BY DEF TypeOK, Status
    <3>3. rows' \in [RowId -> Status]
      BY <3>1, <3>2 DEF TypeOK
    <3>4. sweep' \in [rows : SUBSET RowId, to : {"RUNNING", "PAUSED"}]
      BY <3>1 DEF TypeOK
    <3> QED
      BY <2>2, <3>3, <3>4 DEF SweepRow, TypeOK, memory, history
  <2>3. CASE SweepFails
    BY <2>3 DEF SweepFails, TypeOK, memory, history, Status, CallStage
  <2> QED
    BY <1>5, <2>1, <2>2, <2>3 DEF Markets
<1>6. CASE TakeSignal \/ PlaceOrder
  BY <1>6 DEF TakeSignal, PlaceOrder, TypeOK, memory, history, Status, CallStage
<1>7. CASE Restart
  <2>1. /\ timers' \in [Strategy -> 0..1]
        /\ stage' \in [Call -> CallStage]
    BY <1>7 DEF Restart, CallStage
  <2>2. sweep' \in [rows : SUBSET RowId, to : {"RUNNING", "PAUSED"}]
    BY <1>7 DEF Restart, TypeOK
  <2> QED
    BY <1>7, <2>1, <2>2 DEF Restart, TypeOK
<1> QED
  BY <1>1, <1>2, <1>3, <1>4, <1>5, <1>6, <1>7 DEF Next

-----------------------------------------------------------------------------
\* A call that begins without overlapping finds every call idle.
LEMMA BeginAlone ==
  ASSUME TypeOK, NEW c \in Call, NEW s, Begin(c, s), ~overlapped'
  PROVE  ~overlapped /\ AtRest /\ GoTo(c, s)
BY DEF Begin, AtRest, TypeOK

\* A call that goes on is the only one, and stays so.
LEMMA GoOnAlone ==
  ASSUME TypeOK, Alone, NEW c \in Call, NEW s, GoTo(c, s), stage[c] # "idle"
  PROVE  /\ \A d \in Call : d # c => stage[d] = "idle" /\ stage'[d] = "idle"
         /\ Alone'
BY StageStep DEF Alone, TypeOK

LEMMA BeginStaysAlone ==
  ASSUME TypeOK, AtRest, NEW c \in Call, NEW s, GoTo(c, s)
  PROVE  /\ \A d \in Call : d # c => stage[d] = "idle" /\ stage'[d] = "idle"
         /\ Alone'
BY StageStep DEF Alone, AtRest, TypeOK

\* The calls that are idle have nothing to keep.
LEMMA OthersIdle ==
  ASSUME NEW c \in Call, \A d \in Call : d # c => stage'[d] = "idle", AloneInv(c)'
  PROVE  \A d \in Call : AloneInv(d)'
BY DEF AloneInv

LEMMA SerialStep ==
  ASSUME SessionInv, Next
  PROVE  SerialInv'
<1> SUFFICES ASSUME ~overlapped' PROVE Alone' /\ TimersBelongToSession' /\ \A c \in Call : AloneInv(c)'
  BY DEF SerialInv
<1>0. TypeOK /\ SerialInv /\ TypeOK'
  BY TypeStep DEF SessionInv
<1>1. ASSUME NEW c \in Call, NEW S \in SUBSET Strategy, BeginStart(c, S)
      PROVE  Alone' /\ TimersBelongToSession' /\ \A d \in Call : AloneInv(d)'
  <2>1. ~overlapped /\ AtRest /\ GoTo(c, "checking")
    BY <1>0, <1>1, BeginAlone DEF BeginStart
  <2>2. Alone' /\ \A d \in Call : d # c => stage'[d] = "idle"
    BY <1>0, <2>1, BeginStaysAlone
  <2>3. stage'[c] = "checking"
    BY <1>0, <2>1, StageStep DEF TypeOK
  <2>4. AloneInv(c)'
    BY <1>1, <2>3 DEF BeginStart, AloneInv, memory
  <2>5. TimersBelongToSession'
    BY <1>0, <1>1, <2>1 DEF BeginStart, SerialInv, TimersBelongToSession, memory
  <2> QED
    BY <2>2, <2>4, <2>5, OthersIdle
<1>2. ASSUME NEW c \in Call, StartFails(c) \/ CreateSession(c)
      PROVE  Alone' /\ TimersBelongToSession' /\ \A d \in Call : AloneInv(d)'
  <2>1. ~overlapped /\ stage[c] = "checking" /\ UNCHANGED memory
        /\ (GoTo(c, "idle") \/ GoTo(c, "created"))
    BY <1>2 DEF StartFails, CreateSession, history
  <2>2. Alone' /\ \A d \in Call : d # c => stage'[d] = "idle"
    BY <1>0, <2>1, GoOnAlone DEF SerialInv
  <2>3. stage'[c] \in {"idle", "created"}
    BY <1>0, <2>1, StageStep DEF TypeOK
  <2>4. AloneInv(c)'
    BY <1>0, <2>1, <2>3 DEF SerialInv, AloneInv, memory
  <2>5. TimersBelongToSession'
    BY <1>0, <2>1 DEF SerialInv, TimersBelongToSession, memory
  <2> QED
    BY <2>2, <2>4, <2>5, OthersIdle
<1>3. ASSUME NEW c \in Call, Activate(c)
      PROVE  Alone' /\ TimersBelongToSession' /\ \A d \in Call : AloneInv(d)'
  <2>1. ~overlapped /\ stage[c] = "created" /\ GoTo(c, "idle")
    BY <1>3 DEF Activate, history
  <2>2. Alone' /\ \A d \in Call : d # c => stage'[d] = "idle"
    BY <1>0, <2>1, GoOnAlone DEF SerialInv
  <2>3. stage'[c] = "idle"
    BY <1>0, <2>1, StageStep DEF TypeOK
  <2>4. AloneInv(c)'
    BY <2>3 DEF AloneInv
  <2>5. wanted[c] \in SUBSET Strategy
    BY <1>0 DEF TypeOK
  <2>6. \A s \in Strategy : s \notin wanted[c] => timers'[s] = timers[s]
    BY <1>0, <1>3, <2>5, ScheduleSets DEF Activate
  <2>7. \A s \in Strategy : timers[s] # 1
    BY <1>0, <2>1 DEF SerialInv, TimersBelongToSession, AloneInv
  <2>8. config' = wanted[c] /\ config' # NoConfig
    BY <1>3, <2>5, SessionAssumption DEF Activate
  <2>9. TimersBelongToSession'
    BY <2>6, <2>7, <2>8 DEF TimersBelongToSession
  <2> QED
    BY <2>2, <2>4, <2>9, OthersIdle
<1>4. ASSUME NEW c \in Call, BeginStop(c) \/ BeginPause(c)
      PROVE  Alone' /\ TimersBelongToSession' /\ \A d \in Call : AloneInv(d)'
  <2>0. PICK s \in {"stopping", "pausing"} : Begin(c, s)
    BY <1>4 DEF BeginStop, BeginPause
  <2>1. ~overlapped /\ AtRest /\ GoTo(c, s)
    BY <1>0, <2>0, BeginAlone
  <2>2. Alone' /\ \A d \in Call : d # c => stage'[d] = "idle"
    BY <1>0, <2>1, BeginStaysAlone
  <2>3. stage'[c] = s
    BY <1>0, <2>1, StageStep DEF TypeOK
  <2>4. config # NoConfig /\ Unschedule(config) /\ UNCHANGED config
    BY <1>4 DEF BeginStop, BeginPause
  <2>5. \A x \in Strategy : timers'[x] = 0
    <3>1. /\ \A x \in config : timers'[x] = 0
          /\ \A x \in Strategy : x \notin config => timers'[x] = timers[x]
      BY <1>0, <2>4, ConfigIsSet, UnscheduleSets
    <3>2. \A x \in Strategy : x \notin config => timers[x] = 0
      BY <1>0, <2>1 DEF SerialInv, TimersBelongToSession, TypeOK
    <3> QED
      BY <3>1, <3>2
  <2>6. AloneInv(c)'
    BY <2>3, <2>4, <2>5 DEF AloneInv, Ticking
  <2>7. TimersBelongToSession'
    BY <2>5 DEF TimersBelongToSession
  <2> QED
    BY <2>2, <2>6, <2>7, OthersIdle
<1>5. ASSUME NEW c \in Call, StopRows(c) \/ PauseRows(c) \/ ResumeRows(c) \/ UpdateFails(c)
      PROVE  Alone' /\ TimersBelongToSession' /\ \A d \in Call : AloneInv(d)'
  <2>1. ~overlapped /\ UNCHANGED memory /\ stage[c] \in {"stopping", "pausing", "resuming"}
        /\ ((stage[c] = "stopping" /\ GoTo(c, "stopped")) \/ GoTo(c, "idle"))
    BY <1>5 DEF StopRows, PauseRows, ResumeRows, UpdateFails, history
  <2>2. Alone' /\ \A d \in Call : d # c => stage'[d] = "idle"
    BY <1>0, <2>1, GoOnAlone DEF SerialInv
  <2>3. stage'[c] = "idle" \/ (stage[c] = "stopping" /\ stage'[c] = "stopped")
    BY <1>0, <2>1, StageStep DEF TypeOK
  <2>4. AloneInv(c)'
    BY <1>0, <2>1, <2>3 DEF SerialInv, AloneInv, Ticking, memory
  <2>5. TimersBelongToSession'
    BY <1>0, <2>1 DEF SerialInv, TimersBelongToSession, memory
  <2> QED
    BY <2>2, <2>4, <2>5, OthersIdle
<1>6. ASSUME NEW c \in Call, ForgetSession(c)
      PROVE  Alone' /\ TimersBelongToSession' /\ \A d \in Call : AloneInv(d)'
  <2>1. ~overlapped /\ stage[c] = "stopped" /\ GoTo(c, "idle") /\ UNCHANGED timers
    BY <1>6 DEF ForgetSession, history
  <2>2. Alone' /\ \A d \in Call : d # c => stage'[d] = "idle"
    BY <1>0, <2>1, GoOnAlone DEF SerialInv
  <2>3. stage'[c] = "idle"
    BY <1>0, <2>1, StageStep DEF TypeOK
  <2>4. AloneInv(c)'
    BY <2>3 DEF AloneInv
  <2>5. TimersBelongToSession'
    BY <1>0, <2>1 DEF SerialInv, AloneInv, Ticking, TimersBelongToSession
  <2> QED
    BY <2>2, <2>4, <2>5, OthersIdle
<1>7. ASSUME NEW c \in Call, BeginResume(c)
      PROVE  Alone' /\ TimersBelongToSession' /\ \A d \in Call : AloneInv(d)'
  <2>1. ~overlapped /\ AtRest /\ GoTo(c, "resuming")
    BY <1>0, <1>7, BeginAlone DEF BeginResume
  <2>2. Alone' /\ \A d \in Call : d # c => stage'[d] = "idle"
    BY <1>0, <2>1, BeginStaysAlone
  <2>3. stage'[c] = "resuming"
    BY <1>0, <2>1, StageStep DEF TypeOK
  <2>4. config # NoConfig /\ Schedule(config) /\ UNCHANGED config
    BY <1>7 DEF BeginResume
  <2>5. /\ \A x \in config : timers'[x] = 1
        /\ \A x \in Strategy : x \notin config => timers'[x] = timers[x]
    BY <1>0, <2>4, ConfigIsSet, ScheduleSets
  <2>6. AloneInv(c)'
    BY <2>3, <2>4, <2>5 DEF AloneInv
  <2>7. TimersBelongToSession'
    BY <1>0, <2>1, <2>4, <2>5 DEF SerialInv, TimersBelongToSession
  <2> QED
    BY <2>2, <2>6, <2>7, OthersIdle
<1>8. CASE Markets \/ TakeSignal \/ PlaceOrder
  <2>1. UNCHANGED <<memory, stage, overlapped>>
    BY <1>8 DEF Markets, MarketOpens, MarketCloses, BeginSweep, SweepRow, SweepFails,
                TakeSignal, PlaceOrder, history
  <2> QED
    BY <1>0, <2>1 DEF SerialInv, Alone, TimersBelongToSession, AloneInv, Ticking, memory
<1>9. CASE Restart
  BY <1>9 DEF Restart, Alone, TimersBelongToSession, AloneInv
<1> QED
  BY <1>1, <1>2, <1>3, <1>4, <1>5, <1>6, <1>7, <1>8, <1>9 DEF Next, Starts, Stops, Pauses

-----------------------------------------------------------------------------
\* What CalmInv says, of one state.
CalmState ==
  /\ MemoryMatchesRows
  /\ config # NoConfig => Open \/ \E c \in Call : stage[c] = "stopped"
  /\ AtRest /\ config = NoConfig => ~Running
  /\ \A c \in Call : RowsInv(c)

\* With one call c under way, not at rest, only its stage counts.
LEMMA BusyIsCalm ==
  ASSUME NEW c \in Call, stage'[c] # "idle", \A d \in Call : d # c => stage'[d] = "idle",
         RowsInv(c)', config' # NoConfig => Open' \/ stage'[c] = "stopped"
  PROVE  CalmState'
<1>1. ~AtRest'
  BY DEF AtRest
<1>2. \A d \in Call : RowsInv(d)'
  BY DEF RowsInv
<1> QED
  BY <1>1, <1>2 DEF CalmState, MemoryMatchesRows

\* At rest the rows are to agree with the timers.
LEMMA RestIsCalm ==
  ASSUME \A d \in Call : stage'[d] = "idle",
         config' # {} => (Running' <=> \E s \in Strategy : timers'[s] = 1),
         config' # NoConfig => Open', config' = NoConfig => ~Running'
  PROVE  CalmState'
BY DEF CalmState, MemoryMatchesRows, RowsInv

LEMMA CalmStep ==
  ASSUME SessionInv, Next
  PROVE  CalmInv'
<1> SUFFICES ASSUME ~overlapped', ~disturbed' PROVE CalmState'
  BY DEF CalmInv, CalmState
<1>0. TypeOK /\ SerialInv /\ CalmInv /\ TypeOK'
  BY TypeStep DEF SessionInv
<1>a. \A r \in RowId : rows[r] \in Status
  BY <1>0 DEF TypeOK
<1>1. ASSUME NEW c \in Call, NEW S \in SUBSET Strategy, BeginStart(c, S)
      PROVE  CalmState'
  <2>1. ~overlapped /\ AtRest /\ GoTo(c, "checking")
    BY <1>0, <1>1, BeginAlone DEF BeginStart
  <2>2. stage'[c] = "checking" /\ \A d \in Call : d # c => stage'[d] = "idle"
    BY <1>0, <2>1, BeginStaysAlone, StageStep DEF TypeOK
  <2>3. ~disturbed /\ config = NoConfig /\ UNCHANGED <<rows, config>>
    BY <1>1 DEF BeginStart, memory
  <2>4. ~Running'
    BY <1>0, <2>1, <2>3 DEF CalmInv, Running
  <2>5. RowsInv(c)' /\ config' = NoConfig
    BY <2>2, <2>3, <2>4 DEF RowsInv
  <2> QED
    BY <2>2, <2>5, BusyIsCalm
<1>2. ASSUME NEW c \in Call, StartFails(c)
      PROVE  CalmState'
  <2>1. ~overlapped /\ ~disturbed /\ stage[c] = "checking" /\ GoTo(c, "idle") /\ UNCHANGED <<rows, memory>>
    BY <1>2 DEF StartFails, history
  <2>2. \A d \in Call : stage'[d] = "idle"
    BY <1>0, <2>1, GoOnAlone, StageStep DEF SerialInv, TypeOK
  <2>3. config = NoConfig /\ ~Running
    BY <1>0, <2>1 DEF SerialInv, CalmInv, AloneInv, RowsInv
  <2>4. \A s \in Strategy : timers[s] # 1
    BY <1>0, <2>1, <2>3 DEF SerialInv, TimersBelongToSession
  <2>5. ~Running' /\ config' = NoConfig /\ \A s \in Strategy : timers'[s] # 1
    BY <2>1, <2>3, <2>4 DEF Running, memory
  <2> QED
    BY <2>2, <2>5, RestIsCalm
<1>3. ASSUME NEW c \in Call, CreateSession(c)
      PROVE  CalmState'
  <2>1. ~overlapped /\ ~disturbed /\ stage[c] = "checking" /\ GoTo(c, "created") /\ UNCHANGED memory
    BY <1>3 DEF CreateSession, history
  <2>2. stage'[c] = "created" /\ \A d \in Call : d # c => stage'[d] = "idle"
    BY <1>0, <2>1, GoOnAlone, StageStep DEF SerialInv, TypeOK
  <2>3. Running'
    BY <1>0, <1>3 DEF CreateSession, Running, TypeOK
  <2>4. RowsInv(c)' /\ Open'
    BY <2>2, <2>3 DEF RowsInv, Open, Running
  <2> QED
    BY <2>2, <2>4, BusyIsCalm
<1>4. ASSUME NEW c \in Call, Activate(c)
      PROVE  CalmState'
  <2>1. ~overlapped /\ ~disturbed /\ stage[c] = "created" /\ GoTo(c, "idle") /\ UNCHANGED rows
    BY <1>4 DEF Activate, history
  <2>2. \A d \in Call : stage'[d] = "idle"
    BY <1>0, <2>1, GoOnAlone, StageStep DEF SerialInv, TypeOK
  <2>3. Running' /\ Open'
    BY <1>0, <2>1 DEF CalmInv, RowsInv, Running, Open
  <2>4. wanted[c] \in SUBSET Strategy /\ Schedule(wanted[c]) /\ config' = wanted[c]
    BY <1>0, <1>4 DEF TypeOK, Activate
  <2>5. \A s \in wanted[c] : timers'[s] = 1
    BY <1>0, <2>4, ScheduleSets
  <2>6. config' # {} => \E s \in Strategy : timers'[s] = 1
    BY <2>4, <2>5
  <2>7. config' # NoConfig
    BY <2>4, SessionAssumption
  <2> QED
    BY <2>2, <2>3, <2>6, <2>7, RestIsCalm
<1>5. ASSUME NEW c \in Call, BeginStop(c) \/ BeginPause(c) \/ BeginResume(c)
      PROVE  CalmState'
  <2>0. PICK s \in {"stopping", "pausing", "resuming"} : Begin(c, s)
    BY <1>5 DEF BeginStop, BeginPause, BeginResume
  <2>1. ~overlapped /\ AtRest /\ GoTo(c, s)
    BY <1>0, <2>0, BeginAlone
  <2>2. stage'[c] = s /\ \A d \in Call : d # c => stage'[d] = "idle"
    BY <1>0, <2>1, BeginStaysAlone, StageStep DEF TypeOK
  <2>3. ~disturbed /\ config # NoConfig /\ UNCHANGED <<rows, config>>
    BY <1>5 DEF BeginStop, BeginPause, BeginResume
  <2>4. Open'
    BY <1>0, <2>1, <2>3 DEF CalmInv, AtRest, Open
  <2>5. RowsInv(c)'
    BY <2>2 DEF RowsInv
  <2> QED
    BY <2>2, <2>4, <2>5, BusyIsCalm
<1>6. ASSUME NEW c \in Call, StopRows(c)
      PROVE  CalmState'
  <2>1. ~overlapped /\ stage[c] = "stopping" /\ GoTo(c, "stopped") /\ UpdateRows("RUNNING", "STOPPED")
    BY <1>6 DEF StopRows, history
  <2>2. stage'[c] = "stopped" /\ \A d \in Call : d # c => stage'[d] = "idle"
    BY <1>0, <2>1, GoOnAlone, StageStep DEF SerialInv, TypeOK
  <2>3. ~Running'
    BY <2>1 DEF UpdateRows, Running
  <2>4. RowsInv(c)'
    BY <2>2, <2>3 DEF RowsInv
  <2> QED
    BY <2>2, <2>4, BusyIsCalm
<1>7. ASSUME NEW c \in Call, ForgetSession(c)
      PROVE  CalmState'
  <2>1. ~overlapped /\ ~disturbed /\ stage[c] = "stopped" /\ GoTo(c, "idle")
        /\ config' = NoConfig /\ UNCHANGED <<rows, timers>>
    BY <1>7 DEF ForgetSession, history
  <2>2. \A d \in Call : stage'[d] = "idle"
    BY <1>0, <2>1, GoOnAlone, StageStep DEF SerialInv, TypeOK
  <2>3. ~Running' /\ \A s \in Strategy : timers'[s] # 1
    BY <1>0, <2>1 DEF SerialInv, CalmInv, AloneInv, RowsInv, Running, Ticking
  <2> QED
    BY <2>1, <2>2, <2>3, RestIsCalm
<1>8. ASSUME NEW c \in Call, PauseRows(c)
      PROVE  CalmState'
  <2>1. ~overlapped /\ ~disturbed /\ stage[c] = "pausing" /\ GoTo(c, "idle")
        /\ UpdateRows("RUNNING", "PAUSED") /\ UNCHANGED memory
    BY <1>8 DEF PauseRows, history
  <2>2. \A d \in Call : stage'[d] = "idle"
    BY <1>0, <2>1, GoOnAlone, StageStep DEF SerialInv, TypeOK
  <2>3. config # NoConfig /\ \A s \in Strategy : timers[s] # 1
    BY <1>0, <2>1 DEF SerialInv, AloneInv, Ticking
  <2>4. Open
    BY <1>0, <2>1, <2>3 DEF CalmInv, SerialInv, Alone
  <2>5. ~Running' /\ Open'
    BY <2>1, <2>4 DEF UpdateRows, Running, Open
  <2>6. config' # NoConfig /\ \A s \in Strategy : timers'[s] # 1
    BY <2>1, <2>3 DEF memory
  <2> QED
    BY <2>2, <2>5, <2>6, RestIsCalm
<1>9. ASSUME NEW c \in Call, ResumeRows(c)
      PROVE  CalmState'
  <2>1. ~overlapped /\ ~disturbed /\ stage[c] = "resuming" /\ GoTo(c, "idle")
        /\ UpdateRows("PAUSED", "RUNNING") /\ UNCHANGED memory
    BY <1>9 DEF ResumeRows, history
  <2>2. \A d \in Call : stage'[d] = "idle"
    BY <1>0, <2>1, GoOnAlone, StageStep DEF SerialInv, TypeOK
  <2>3. config # NoConfig /\ \A s \in config : timers[s] = 1
    BY <1>0, <2>1 DEF SerialInv, AloneInv
  <2>4. Open
    BY <1>0, <2>1, <2>3 DEF CalmInv, SerialInv, Alone
  <2>5. Running' /\ Open'
    BY <2>1, <2>4 DEF UpdateRows, Running, Open
  <2>6. config # {} => \E s \in Strategy : timers[s] = 1
    BY <1>0, <2>3, ConfigIsSet
  <2>7. config' # NoConfig /\ (config' # {} => \E s \in Strategy : timers'[s] = 1)
    BY <2>1, <2>3, <2>6 DEF memory
  <2> QED
    BY <2>2, <2>5, <2>7, RestIsCalm
<1>10. CASE TakeSignal \/ PlaceOrder \/ SweepFails
  <2>1. UNCHANGED <<rows, memory, stage, overlapped, disturbed>>
    BY <1>10 DEF TakeSignal, PlaceOrder, SweepFails, history
  <2> QED
    BY <1>0, <2>1 DEF CalmInv, CalmState, MemoryMatchesRows, Open, AtRest, Running, RowsInv, memory
<1>11. ASSUME NEW c \in Call, UpdateFails(c)
       PROVE  CalmState'
  BY <1>11 DEF UpdateFails
<1>12. CASE MarketOpens \/ MarketCloses \/ Restart
  BY <1>12 DEF MarketOpens, MarketCloses, BeginSweep, Restart
<1>13. CASE SweepRow
  <2>1. ~disturbed /\ sweep.rows # {}
    BY <1>13 DEF SweepRow, history
  <2> QED
    BY <2>1 DEF SessionInv, SweepDisturbs
<1> QED
  BY <1>1, <1>2, <1>3, <1>4, <1>5, <1>6, <1>7, <1>8, <1>9, <1>10, <1>11, <1>12, <1>13
     DEF Next, Starts, Stops, Pauses, Markets

LEMMA SweepStep ==
  ASSUME SessionInv, Next
  PROVE  SweepDisturbs'
<1> SUFFICES ASSUME ~disturbed' PROVE sweep'.rows = {}
  BY DEF SweepDisturbs
<1>1. ASSUME NEW c \in Call, Starts(c) \/ Stops(c) \/ Pauses(c) \/ UpdateFails(c)
      PROVE  UNCHANGED <<sweep, disturbed>>
  BY <1>1 DEF Starts, BeginStart, StartFails, CreateSession, Activate, Stops, BeginStop, StopRows,
     ForgetSession, Pauses, BeginPause, PauseRows, BeginResume, ResumeRows, UpdateFails, market, history
<1>2. CASE TakeSignal \/ PlaceOrder
  BY <1>2 DEF TakeSignal, PlaceOrder, history, SessionInv, SweepDisturbs
<1>3. CASE SweepRow \/ SweepFails
  BY <1>3 DEF SweepRow, SweepFails, history, SessionInv, SweepDisturbs
<1>4. CASE MarketOpens \/ MarketCloses \/ Restart
  BY <1>4 DEF MarketOpens, MarketCloses, BeginSweep, Restart
<1> QED
  BY <1>1, <1>2, <1>3, <1>4 DEF Next, Markets, SessionInv, SweepDisturbs

\* The invariant of the session, for any calls, strategies and sessions.
THEOREM SessionInvariant == Spec => []SessionInv
<1>1. Init => SessionInv
  BY InitHolds
<1>2. SessionInv /\ [Next]_vars => SessionInv'
  <2>1. ASSUME SessionInv, Next PROVE SessionInv'
    <3>1. TypeOK'
      BY <2>1, TypeStep DEF SessionInv
    <3> QED
      BY <2>1, <3>1, SerialStep, CalmStep, SweepStep DEF SessionInv
  <2>2. ASSUME SessionInv, UNCHANGED vars PROVE SessionInv'
    BY <2>2 DEF vars, memory, market, history, SessionInv, TypeOK, SerialInv, CalmInv,
       SweepDisturbs, Alone, TimersBelongToSession, AloneInv, RowsInv, MemoryMatchesRows,
       AtRest, Running, Open, Ticking
  <2> QED
    BY <2>1, <2>2
<1> QED
  BY <1>1, <1>2, PTL DEF Spec

\* No strategy is left running without the session that started it, as long
\* as the user's calls do not overlap: startAutoTrading to resumeAutoTrading.
THEOREM TimersNeverLeak == Spec => []TimersBelongToSession
<1>1. SessionInv => TimersBelongToSession
  BY DEF SessionInv, SerialInv, TimersBelongToSession
<1> QED
  BY <1>1, SessionInvariant, PTL

\* Undisturbed calls one after the other leave memory and rows in agreement.
THEOREM MemoryAgreesWithRows == Spec => []MemoryMatchesRows
<1>1. SessionInv => MemoryMatchesRows
  BY DEF SessionInv, CalmInv, MemoryMatchesRows
<1> QED
  BY <1>1, SessionInvariant, PTL
=============================================================================
